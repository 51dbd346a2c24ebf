-------------------------- MODULE FederationProofs --------------------------
(***************************************************************************)
(* Proofs about the outbound half of federation, for any set of peers, any *)
(* budgets, windows and bounds, and about the two halves together.         *)
(***************************************************************************)
EXTENDS Federation, FiniteSetTheorems, TLAPS

\* What may happen to an existing row in one step: nothing, a PUT, a POST begun, or, while
\* it is pending, one of the ways in which it is closed.
Change(r, s) ==
    \/ s = r
    \/ \E status \in {"done", "failed"} : s = [r EXCEPT !.status = status, !.result = "put"]
    \/ s = [r EXCEPT !.tries = r.tries + 1]
    \/ /\ r.status = "pending"
       /\ \/ \E why \in {"abandoned", "refused"} :
                s = [r EXCEPT !.status = "failed", !.result = why, !.told = r.told + 1]
          \/ \E why \in {"off", "removed"} : s = [r EXCEPT !.status = "failed", !.result = why]
          \/ \E id \in Nat : s = [r EXCEPT !.status = "delivered", !.result = "remote", !.remote = id]
          \/ \E why \in {"abandoned", "refused"} :
                s = [r EXCEPT !.status = "failed", !.result = why, !.cut = TRUE]
          \/ s = [r EXCEPT !.status = "delivered", !.result = "none", !.cut = TRUE]

Fresh(r) == r.status = "pending" /\ r.result = "none" /\ r.told = 0

\* The rows grow by a fresh one, addressed to a configured peer, or change one by one.
RowsStep ==
    \/ \E r \in Row : /\ Fresh(r) /\ enabled /\ r.to \in configured
                      /\ rows' = Append(rows, r)
                      /\ UNCHANGED <<enabled, configured>>
    \/ rows' \in [Ids -> Row] /\ \A k \in Ids : Change(rows[k], rows'[k])

\* The rows are well-typed, and so is what the batch names.
RowsOK == rows \in Seq(Row) /\ batch \subseteq Ids /\ clock \in Nat

LEMMA ChangeTyped ==
    ASSUME NEW r \in Row, NEW s, Change(r, s)
    PROVE  s \in Row /\ s.to = r.to
<1> DEFINE n == r.tries + 1
           k == r.told + 1
<1>1. n \in Nat /\ k \in Nat BY DEF Row
<1> HIDE DEF n, k
<1>2. CASE s = r BY <1>2
<1>3. CASE \E status \in {"done", "failed"} : s = [r EXCEPT !.status = status, !.result = "put"]
  BY <1>3 DEF Row
<1>4. CASE s = [r EXCEPT !.tries = n] BY <1>1, <1>4 DEF Row
<1>5. CASE \E why \in {"abandoned", "refused"} :
              s = [r EXCEPT !.status = "failed", !.result = why, !.told = k]
  BY <1>1, <1>5 DEF Row
<1>6. CASE \E why \in {"off", "removed"} : s = [r EXCEPT !.status = "failed", !.result = why]
  BY <1>6 DEF Row
<1>7. CASE \E id \in Nat : s = [r EXCEPT !.status = "delivered", !.result = "remote", !.remote = id]
  BY <1>7 DEF Row
<1>8. CASE \E why \in {"abandoned", "refused"} :
              s = [r EXCEPT !.status = "failed", !.result = why, !.cut = TRUE]
  BY <1>8 DEF Row
<1>9. CASE s = [r EXCEPT !.status = "delivered", !.result = "none", !.cut = TRUE]
  BY <1>9 DEF Row
<1> QED BY <1>2, <1>3, <1>4, <1>5, <1>6, <1>7, <1>8, <1>9 DEF Change, n, k

LEMMA OneRow ==
    ASSUME NEW m \in Ids, NEW r, rows \in Seq(Row),
           rows' = [rows EXCEPT ![m] = r], Change(rows[m], r)
    PROVE  RowsStep
<1>1. DOMAIN rows' = Ids /\ \A k \in Ids : rows'[k] = IF k = m THEN r ELSE rows[k]
  BY DEF Ids
<1>2. ASSUME NEW k \in Ids PROVE Change(rows[k], rows'[k])
  <2>1. CASE k = m BY <1>1, <2>1
  <2>2. CASE k # m
    <3>1. rows'[k] = rows[k] BY <1>1, <2>2
    <3> QED BY <3>1 DEF Change
  <2> QED BY <2>1, <2>2
<1>3. rows' \in [Ids -> Row]
  <2>1. rows \in [Ids -> Row] /\ r \in Row BY ChangeTyped DEF Ids
  <2> QED BY <2>1
<1> QED BY <1>2, <1>3 DEF RowsStep

LEMMA SameRows == ASSUME rows \in Seq(Row), UNCHANGED rows PROVE RowsStep
BY DEF RowsStep, Change, Ids

LEMMA PurgeStep ==
    ASSUME rows \in Seq(Row), NEW S, NEW why \in {"off", "removed"}, rows' = Purged(S, why)
    PROVE  RowsStep
<1>1. ASSUME NEW k \in Ids PROVE Change(rows[k], rows'[k])
  BY DEF Change, Purged
<1>2. ASSUME NEW k \in Ids PROVE rows'[k] \in Row
  BY <1>1, ChangeTyped DEF Ids
<1>3. rows' \in [Ids -> Row]
  BY <1>2 DEF Purged
<1> QED BY <1>1, <1>3 DEF RowsStep

LEMMA FailAndTellStep ==
    ASSUME rows \in Seq(Row), NEW m \in Ids, NEW why \in {"abandoned", "refused"}, FailAndTell(m, why)
    PROVE  RowsStep
<1>1. CASE rows[m].status = "pending"
  <2> DEFINE r == [rows[m] EXCEPT !.status = "failed", !.result = why, !.told = rows[m].told + 1]
  <2>1. rows' = [rows EXCEPT ![m] = r] BY <1>1 DEF FailAndTell
  <2>2. Change(rows[m], r) BY <1>1 DEF Change
  <2> QED BY <2>1, <2>2, OneRow
<1>2. CASE rows[m].status # "pending"
  BY <1>2, SameRows DEF FailAndTell
<1> QED BY <1>1, <1>2

LEMMA CutShortStep ==
    ASSUME rows \in Seq(Row), NEW m \in Ids, NEW status, NEW result, CutShort(m, status, result),
           \/ status = "failed" /\ result \in {"abandoned", "refused"}
           \/ status = "delivered" /\ result = "none"
    PROVE  RowsStep
<1> DEFINE r == [rows[m] EXCEPT !.status = status, !.result = result, !.cut = TRUE]
<1>1. rows' = [rows EXCEPT ![m] = r] BY DEF CutShort
<1>2. Change(rows[m], r) BY DEF Change, CutShort
<1> QED BY <1>1, <1>2, OneRow

\* Every step of the bridge with its peers does no more than that to the rows.
LEMMA EveryBridgeStep ==
    ASSUME RowsOK, [BridgeNext]_bridgeVars
    PROVE  RowsStep
<1> USE DEF RowsOK
<1>1. ASSUME NEW p \in Peer, NEW big \in Oversize, Post(p, big) PROVE RowsStep
  <2> DEFINE r == [to |-> p, big |-> big, created |-> clock,
                   status |-> "pending", result |-> "none", remote |-> 0,
                   told |-> 0, tries |-> 0, cut |-> FALSE]
  <2>1. r \in Row /\ Fresh(r) /\ r.to = p BY BridgeAssumption DEF Row, Fresh
  <2>2. rows' = Append(rows, r) /\ enabled /\ p \in configured /\ UNCHANGED <<enabled, configured>>
    BY <1>1 DEF Post, config
  <2> QED BY <2>1, <2>2 DEF RowsStep
<1>2. ASSUME NEW m \in Ids, NEW status \in {"done", "failed"}, Put(m, status) PROVE RowsStep
  <2> DEFINE r == [rows[m] EXCEPT !.status = status, !.result = "put"]
  <2>1. rows' = [rows EXCEPT ![m] = r] BY <1>2 DEF Put
  <2>2. Change(rows[m], r) BY DEF Change
  <2> QED BY <2>1, <2>2, OneRow
<1>3. CASE Enable \/ \E p \in Peer, token \in {0, 1} : AddPeer(p, token) \/ PatchToken(p, token)
  BY <1>3, SameRows DEF Enable, AddPeer, PatchToken
<1>4. CASE Disable \/ RemoveAll \/ \E p \in Peer : RemovePeer(p)
  <2>1. CASE Disable BY <2>1, PurgeStep DEF Disable
  <2>2. CASE RemoveAll BY <2>2, PurgeStep DEF RemoveAll
  <2>3. ASSUME NEW p \in Peer, RemovePeer(p) PROVE RowsStep BY <2>3, PurgeStep DEF RemovePeer
  <2> QED BY <1>4, <2>1, <2>2, <2>3
<1>5. CASE Restart \/ TimePasses \/ TickBegins \/ TickEnds
  BY <1>5, SameRows DEF Restart, TimePasses, TickBegins, TickEnds
<1>6. ASSUME NEW m \in batch, BatchStep(m) PROVE RowsStep
  <2>1. CASE PassOver(m) BY <2>1, SameRows DEF PassOver
  <2>2. CASE Abandon(m) \/ Refuse(m) BY <2>2, FailAndTellStep DEF Abandon, Refuse
  <2>3. CASE Fetch(m)
    <3> DEFINE r == [rows[m] EXCEPT !.tries = rows[m].tries + 1]
    <3>1. rows' = [rows EXCEPT ![m] = r] BY <2>3 DEF Fetch
    <3>2. Change(rows[m], r) BY DEF Change
    <3> QED BY <3>1, <3>2, OneRow
  <2>4. CASE CutAbandon(m) \/ CutRefuse(m) BY <2>4, CutShortStep DEF CutAbandon, CutRefuse
  <2> QED BY <1>6, <2>1, <2>2, <2>3, <2>4 DEF BatchStep
<1>7. ASSUME NEW m \in batch, Answer(m) PROVE RowsStep
  <2>1. CASE Accepted(m, 1)
    <3> DEFINE r == [rows[m] EXCEPT !.status = "delivered", !.result = "remote", !.remote = 1]
    <3>1. CASE rows[m].status = "pending"
      <4>1. rows' = [rows EXCEPT ![m] = r] BY <2>1, <3>1 DEF Accepted
      <4>2. Change(rows[m], r) BY <3>1 DEF Change
      <4> QED BY <4>1, <4>2, OneRow
    <3>2. CASE rows[m].status # "pending" BY <2>1, <3>2, SameRows DEF Accepted
    <3> QED BY <3>1, <3>2
  <2>2. CASE Rejected(m) BY <2>2, FailAndTellStep DEF Rejected
  <2>3. CASE Unanswered(m) BY <2>3, SameRows DEF Unanswered
  <2>4. CASE CutAccepted(m) BY <2>4, CutShortStep DEF CutAccepted
  <2>5. CASE CutRejected(m) BY <2>5, CutShortStep DEF CutRejected
  <2> QED BY <1>7, <2>1, <2>2, <2>3, <2>4, <2>5 DEF Answer
<1>8. CASE UNCHANGED bridgeVars BY <1>8, SameRows DEF bridgeVars
<1> QED BY <1>1, <1>2, <1>3, <1>4, <1>5, <1>6, <1>7, <1>8 DEF BridgeNext, Users, Edit
----------------------------------------------------------------------------
LEMMA RowsGrow ==
    ASSUME RowsOK, RowsStep
    PROVE  Ids \subseteq Ids' /\ rows' \in Seq(Row)
<1>1. CASE \E r \in Row : rows' = Append(rows, r)
  <2>1. PICK r \in Row : rows' = Append(rows, r) BY <1>1
  <2>2. rows' \in Seq(Row) /\ Len(rows') = Len(rows) + 1 BY <2>1 DEF RowsOK
  <2> QED BY <2>2 DEF RowsOK, Ids
<1>2. CASE rows' \in [Ids -> Row]
  BY <1>2 DEF RowsOK, Ids
<1> QED BY <1>1, <1>2 DEF RowsStep

LEMMA RowsOKStep ==
    ASSUME RowsOK, [BridgeNext]_bridgeVars
    PROVE  RowsOK'
<1>1. Ids \subseteq Ids' /\ rows' \in Seq(Row)
  BY EveryBridgeStep, RowsGrow
<1>2. batch' \subseteq batch \cup Ids /\ clock' \in Nat
  <2> USE DEF RowsOK, tick
  <2>1. CASE Users BY <2>1 DEF Users, Post, Put
  <2>2. CASE Enable \/ Disable \/ RemoveAll BY <2>2 DEF Enable, Disable, RemoveAll
  <2>3. ASSUME NEW p \in Peer, NEW token, RemovePeer(p) \/ AddPeer(p, token) \/ PatchToken(p, token)
        PROVE  batch' \subseteq batch \cup Ids /\ clock' \in Nat
    BY <2>3 DEF RemovePeer, AddPeer, PatchToken
  <2>4. CASE Restart \/ TickBegins \/ TickEnds
    BY <2>4 DEF Restart, Forgotten, TickBegins, TickEnds, Open
  <2>5. CASE TimePasses BY <2>5 DEF TimePasses
  <2>6. ASSUME NEW m \in batch, BatchStep(m) PROVE batch' \subseteq batch \cup Ids /\ clock' \in Nat
    BY <2>6 DEF BatchStep, PassOver, Abandon, Refuse, Fetch, CutAbandon, CutRefuse, CutShort, Forgotten
  <2>7. ASSUME NEW m \in batch, Answer(m) PROVE batch' \subseteq batch \cup Ids /\ clock' \in Nat
    BY <2>7 DEF Answer, Accepted, Rejected, Unanswered, Resume, CutAccepted, CutRejected, CutShort, Forgotten
  <2>8. CASE UNCHANGED bridgeVars BY <2>8 DEF bridgeVars
  <2> QED BY <2>1, <2>2, <2>3, <2>4, <2>5, <2>6, <2>7, <2>8 DEF BridgeNext, Edit
<1> QED BY <1>1, <1>2 DEF RowsOK

LEMMA RowsOKAlways == BridgeSpec => []RowsOK
<1>1. BridgeInit => RowsOK
  <2>1. <<>> \in Seq(Row) OBVIOUS
  <2> QED BY <2>1 DEF BridgeInit, Idle, RowsOK
<1> QED BY <1>1, RowsOKStep, PTL DEF BridgeSpec
----------------------------------------------------------------------------
(***************************************************************************)
(* Notices.                                                                *)
(***************************************************************************)
\* What ToldOnce says of a row, and that a pending row has no result yet: with it no
\* notice has gone out for a row that can still be closed.
NoticeOK(r) ==
    /\ r.told <= 1
    /\ r.told = 1 => r.result \in {"abandoned", "refused", "put"}
    /\ r.result \in {"abandoned", "refused"} /\ ~r.cut => r.told = 1
    /\ r.status = "pending" => r.result = "none"

NoticeInv == RowsOK /\ \A m \in Ids : NoticeOK(rows[m])

LEMMA ChangeNotice ==
    ASSUME NEW r \in Row, NoticeOK(r), NEW s, Change(r, s)
    PROVE  NoticeOK(s)
<1> DEFINE n == r.tries + 1
           k == r.told + 1
<1>1. r.status = "pending" => k = 1 BY DEF NoticeOK, Row
<1> HIDE DEF n, k
<1>2. CASE s = r BY <1>2
<1>3. CASE \E status \in {"done", "failed"} : s = [r EXCEPT !.status = status, !.result = "put"]
  BY <1>3 DEF Row, NoticeOK
<1>4. CASE s = [r EXCEPT !.tries = n] BY <1>4 DEF Row, NoticeOK
<1> SUFFICES ASSUME r.status = "pending", s # r PROVE NoticeOK(s)
  BY <1>2, <1>3, <1>4 DEF Change, n
<1>5. CASE \E why \in {"abandoned", "refused"} :
              s = [r EXCEPT !.status = "failed", !.result = why, !.told = k]
  BY <1>1, <1>5 DEF Row, NoticeOK
<1>6. CASE \E why \in {"off", "removed"} : s = [r EXCEPT !.status = "failed", !.result = why]
  BY <1>6 DEF Row, NoticeOK
<1>7. CASE \E id \in Nat : s = [r EXCEPT !.status = "delivered", !.result = "remote", !.remote = id]
  BY <1>7 DEF Row, NoticeOK
<1>8. CASE \E why \in {"abandoned", "refused"} :
              s = [r EXCEPT !.status = "failed", !.result = why, !.cut = TRUE]
  BY <1>8 DEF Row, NoticeOK
<1>9. CASE s = [r EXCEPT !.status = "delivered", !.result = "none", !.cut = TRUE]
  BY <1>9 DEF Row, NoticeOK
<1> QED BY <1>3, <1>4, <1>5, <1>6, <1>7, <1>8, <1>9 DEF Change, n, k

LEMMA NoticeStep ==
    ASSUME NoticeInv, [BridgeNext]_bridgeVars
    PROVE  NoticeInv'
<1>1. RowsOK' /\ RowsStep BY RowsOKStep, EveryBridgeStep DEF NoticeInv
<1>2. ASSUME NEW m \in Ids' PROVE NoticeOK(rows'[m])
  <2>1. ASSUME NEW r \in Row, Fresh(r), rows' = Append(rows, r) PROVE NoticeOK(rows'[m])
    <3>1. NoticeOK(r) BY <2>1 DEF Fresh, NoticeOK
    <3>2. rows'[m] = r \/ (m \in Ids /\ rows'[m] = rows[m])
      BY <2>1, <1>1 DEF NoticeInv, RowsOK, Ids
    <3> QED BY <3>1, <3>2 DEF NoticeInv
  <2>2. CASE rows' \in [Ids -> Row] /\ \A k \in Ids : Change(rows[k], rows'[k])
    <3>1. m \in Ids /\ rows[m] \in Row BY <2>2 DEF NoticeInv, RowsOK, Ids
    <3> QED BY <2>2, <3>1, ChangeNotice DEF NoticeInv
  <2> QED BY <1>1, <2>1, <2>2 DEF RowsStep
<1> QED BY <1>1, <1>2 DEF NoticeInv

\* No sender hears twice that its message failed, or hears it of a message that did not,
\* whatever purges, late answers and restarts meet on the row (message-router.ts:140-162).
THEOREM NoticesAreExact == BridgeSpec => []ToldOnce
<1>1. BridgeInit => NoticeInv
  <2>1. <<>> \in Seq(Row) OBVIOUS
  <2> QED BY <2>1 DEF BridgeInit, Idle, NoticeInv, RowsOK, Ids
<1>2. NoticeInv => ToldOnce BY DEF NoticeInv, NoticeOK, ToldOnce
<1> QED BY <1>1, <1>2, NoticeStep, PTL DEF BridgeSpec
----------------------------------------------------------------------------
(***************************************************************************)
(* The first closing stands.                                               *)
(***************************************************************************)
LEMMA ChangeOfClosed ==
    ASSUME NEW r \in Row, NEW s, Change(r, s), r.status # "pending", s # r
    PROVE  s.result = "put" \/ s = [r EXCEPT !.tries = r.tries + 1]
BY DEF Change, Row

\* A POST that comes back after its row was closed changes nothing of it
\* (message-router.ts:310-334).
THEOREM FirstCloserStands == BridgeSpec => CloserWins
<1>1. ASSUME RowsOK, [BridgeNext]_bridgeVars, NEW m \in Ids,
             rows[m].status # "pending", rows'[m] # rows[m]
      PROVE  rows'[m].result = "put" \/ rows'[m] = [rows[m] EXCEPT !.tries = rows[m].tries + 1]
  <2>1. CASE \E r \in Row : rows' = Append(rows, r) BY <1>1, <2>1 DEF RowsOK, Ids
  <2>2. CASE Change(rows[m], rows'[m])
    <3>1. rows[m] \in Row BY <1>1 DEF RowsOK, Ids
    <3> QED BY <1>1, <2>2, <3>1, ChangeOfClosed
  <2> QED BY <1>1, <2>1, <2>2, EveryBridgeStep DEF RowsStep
<1>2. RowsOK /\ [BridgeNext]_bridgeVars =>
        [\A m \in Ids : rows[m].status # "pending" /\ rows'[m] # rows[m] =>
            \/ rows'[m].result = "put"
            \/ rows'[m] = [rows[m] EXCEPT !.tries = @ + 1]]_bridgeVars
  BY <1>1
<1> QED BY <1>2, RowsOKAlways, PTL DEF BridgeSpec, CloserWins
----------------------------------------------------------------------------
(***************************************************************************)
(* Nothing pending behind a closed door.                                   *)
(***************************************************************************)
OrphanInv == RowsOK /\ NoOrphans

\* A row that is pending after a step was pending before it, or is new.
LEMMA PendingBefore ==
    ASSUME RowsOK, RowsStep, NEW m \in Open'
    PROVE  /\ rows'[m].to \in Peer
           /\ \/ m \in Open /\ rows'[m].to = rows[m].to
              \/ /\ enabled /\ rows'[m].to \in configured
                 /\ UNCHANGED <<enabled, configured>>
<1>1. ASSUME NEW r \in Row, r.to \in configured, enabled, rows' = Append(rows, r),
             UNCHANGED <<enabled, configured>>
      PROVE  /\ rows'[m].to \in Peer
             /\ (m \in Open /\ rows'[m].to = rows[m].to) \/ rows'[m].to \in configured
  <2>1. rows'[m] = r \/ (m \in Ids /\ rows'[m] = rows[m])
    BY <1>1 DEF RowsOK, Ids, Open
  <2>2. m \in Ids => rows[m] \in Row BY DEF RowsOK, Ids
  <2> QED BY <1>1, <2>1, <2>2 DEF Row, Open
<1>2. ASSUME rows' \in [Ids -> Row], Change(rows[m], rows'[m])
      PROVE  rows'[m].to \in Peer /\ m \in Open /\ rows'[m].to = rows[m].to
  <2>1. m \in Ids /\ rows[m] \in Row /\ rows'[m] \in Row /\ rows'[m].status = "pending"
    BY <1>2 DEF Open, Ids, RowsOK
  <2>2. rows[m].status = "pending"
    BY <1>2, <2>1 DEF Change, Row
  <2>3. rows'[m].to = rows[m].to BY <1>2, <2>1, ChangeTyped
  <2> QED BY <2>1, <2>2, <2>3 DEF Open, Row
<1>3. CASE rows' \in [Ids -> Row] /\ \A k \in Ids : Change(rows[k], rows'[k])
  <2>1. m \in Ids BY <1>3 DEF Open, Ids
  <2> QED BY <1>2, <1>3, <2>1
<1> QED BY <1>1, <1>3 DEF RowsStep

\* failPendingFederatedMessages leaves nothing pending for the peers it is called for.
LEMMA NothingLeft ==
    ASSUME RowsOK, NEW S, NEW why \in {"off", "removed"}, rows' = Purged(S, why), NEW m \in Open'
    PROVE  rows'[m].to \notin S
<1>1. m \in Ids /\ rows[m] \in Row
  <2>1. DOMAIN rows' = Ids BY DEF Purged
  <2>2. m \in DOMAIN rows' BY DEF Open, Ids
  <2> QED BY <2>1, <2>2 DEF RowsOK, Ids
<1>2. rows'[m].status = "pending" BY DEF Open
<1>3. CASE rows[m].status = "pending" /\ rows[m].to \in S
  <2>1. rows'[m] = [rows[m] EXCEPT !.status = "failed", !.result = why] BY <1>1, <1>3 DEF Purged
  <2> QED BY <1>1, <1>2, <2>1 DEF Row
<1>4. CASE ~(rows[m].status = "pending" /\ rows[m].to \in S)
  BY <1>1, <1>2, <1>4 DEF Purged
<1> QED BY <1>3, <1>4

LEMMA OrphanStep ==
    ASSUME OrphanInv, [BridgeNext]_bridgeVars
    PROVE  OrphanInv'
<1> USE DEF OrphanInv
<1>1. RowsOK' /\ RowsStep BY RowsOKStep, EveryBridgeStep
<1> SUFFICES ASSUME NEW m \in Open' PROVE enabled' /\ rows'[m].to \in configured'
  BY <1>1 DEF NoOrphans
<1>2. /\ rows'[m].to \in Peer
      /\ enabled /\ rows'[m].to \in configured
  BY <1>1, PendingBefore DEF NoOrphans
<1>3. CASE UNCHANGED <<enabled, configured>> BY <1>2, <1>3
<1>4. CASE Enable BY <1>2, <1>4 DEF Enable
<1>5. CASE Disable \/ RemoveAll
  <2>1. rows' = Purged(Peer, "off") BY <1>5 DEF Disable, RemoveAll
  <2> QED BY <1>2, <2>1, NothingLeft
<1>6. ASSUME NEW p \in Peer, RemovePeer(p) PROVE enabled' /\ rows'[m].to \in configured'
  <2>1. rows'[m].to \notin {p} BY <1>6, NothingLeft DEF RemovePeer
  <2> QED BY <1>2, <1>6, <2>1 DEF RemovePeer
<1>7. ASSUME NEW p \in Peer, NEW token, AddPeer(p, token) PROVE enabled' /\ rows'[m].to \in configured'
  BY <1>2, <1>7 DEF AddPeer
<1>8. CASE Edit
  <2>1. ASSUME NEW p \in Peer, NEW token, PatchToken(p, token) PROVE UNCHANGED <<enabled, configured>>
    BY <2>1 DEF PatchToken
  <2> QED BY <1>3, <1>4, <1>5, <1>6, <1>7, <1>8, <2>1 DEF Edit
<1>9. ASSUME ~Edit PROVE UNCHANGED <<enabled, configured>>
  <2> USE DEF config
  <2>1. CASE Users BY <2>1 DEF Users, Post, Put
  <2>2. CASE Restart \/ TimePasses \/ TickBegins \/ TickEnds
    BY <2>2 DEF Restart, TimePasses, TickBegins, TickEnds
  <2>3. ASSUME NEW k \in batch, BatchStep(k) PROVE UNCHANGED <<enabled, configured>>
    BY <2>3 DEF BatchStep, PassOver, Abandon, Refuse, Fetch, CutAbandon, CutRefuse, CutShort
  <2>4. ASSUME NEW k \in batch, Answer(k) PROVE UNCHANGED <<enabled, configured>>
    BY <2>4 DEF Answer, Accepted, Rejected, Unanswered, Resume, CutAccepted, CutRejected, CutShort
  <2>5. CASE UNCHANGED bridgeVars BY <2>5 DEF bridgeVars
  <2> QED BY <1>9, <2>1, <2>2, <2>3, <2>4, <2>5 DEF BridgeNext
<1> QED BY <1>3, <1>8, <1>9

\* Off means off: no row waits for a peer that is gone, or while the switch is off
\* (routes/federation.ts:459-539, 659-727).
THEOREM OffMeansOff == BridgeSpec => []NoOrphans
<1>1. BridgeInit => OrphanInv
  <2>1. <<>> \in Seq(Row) OBVIOUS
  <2> QED BY <2>1 DEF BridgeInit, Idle, OrphanInv, NoOrphans, Open, RowsOK, Ids
<1>2. OrphanInv => NoOrphans BY DEF OrphanInv
<1> QED BY <1>1, <1>2, OrphanStep, PTL DEF BridgeSpec
----------------------------------------------------------------------------
(***************************************************************************)
(* The backoff, and types.                                                 *)
(***************************************************************************)
LEMMA PowerOfTwo == ASSUME NEW n \in Nat PROVE 2 ^ n \in Nat /\ 2 ^ n >= 1
<1> DEFINE S == SUBSET (1 .. n)
<1>1. IsFiniteSet(1 .. n) /\ Cardinality(1 .. n) = n BY FS_Interval
<1>2. IsFiniteSet(S) /\ Cardinality(S) = 2 ^ n BY <1>1, FS_SUBSET
<1>3. S # {} OBVIOUS
<1>4. Cardinality(S) \in Nat /\ Cardinality(S) # 0
  BY <1>2, <1>3, FS_CardinalityType, FS_EmptySet
<1> QED BY <1>2, <1>4

LEMMA Product ==
    ASSUME NEW a \in Nat, NEW b \in Nat, a >= 1, b >= 1 PROVE a * b \in Nat /\ a * b >= 1
OBVIOUS

\* A failure always puts the peer behind a delay.
LEMMA DelayPositive == ASSUME NEW n \in Nat \ {0} PROVE Delay(n) \in Nat /\ Delay(n) >= 1
<1>1. 2 ^ (n - 1) \in Nat /\ 2 ^ (n - 1) >= 1 BY PowerOfTwo
<1>2. BACKOFF_BASE * 2 ^ (n - 1) \in Nat /\ BACKOFF_BASE * 2 ^ (n - 1) >= 1
  BY <1>1, Product, BridgeAssumption
<1> DEFINE d == BACKOFF_BASE * 2 ^ (n - 1)
<1>3. d \in Nat /\ d >= 1 /\ Delay(n) = Min2(d, BACKOFF_MAX) BY <1>2 DEF Delay
<1> HIDE DEF d
<1> QED BY <1>3, BridgeAssumption DEF Min2

Backoffs == [Peer -> [failures : Nat, nextAttemptAt : Nat]]

LEMMA FailureNoted ==
    ASSUME NEW p \in Peer, backoff \in Backoffs, misses \in [Peer -> Nat], tickNow \in Nat, noteFailure(p)
    PROVE  /\ backoff' \in Backoffs /\ misses' = [misses EXCEPT ![p] = misses[p] + 1]
           /\ tickNow < backoff'[p].nextAttemptAt
           /\ \A o \in Peer \ {p} : backoff'[o] = backoff[o]
<1> DEFINE n == backoff[p].failures + 1
           d == Delay(n)
           b == [failures |-> n, nextAttemptAt |-> tickNow + d]
<1>1. n \in Nat \ {0} BY DEF Backoffs
<1>2. d \in Nat /\ d >= 1 BY <1>1, DelayPositive
<1>3. backoff' = [backoff EXCEPT ![p] = b] BY DEF noteFailure
<1> HIDE DEF n, d
<1>4. b \in [failures : Nat, nextAttemptAt : Nat] /\ b.nextAttemptAt > tickNow BY <1>1, <1>2
<1> HIDE DEF b
<1> QED BY <1>3, <1>4 DEF noteFailure, Backoffs

LEMMA SuccessNoted ==
    ASSUME NEW p \in Peer, backoff \in Backoffs, noteSuccess(p)
    PROVE  /\ backoff' \in Backoffs /\ misses' = misses
           /\ \A o \in Peer \ {p} : backoff'[o] = backoff[o]
BY DEF noteSuccess, Backoffs, Calm

LEMMA BackoffReset ==
    ASSUME NEW S, backoff \in Backoffs, misses \in [Peer -> Nat], resetPeerBackoff(S)
    PROVE  /\ backoff' \in Backoffs /\ misses' \in [Peer -> Nat]
           /\ \A p \in Peer : misses'[p] = 0 \/ (misses'[p] = misses[p] /\ backoff'[p] = backoff[p])
BY DEF resetPeerBackoff, Backoffs, Calm

LEMMA AllForgotten ==
    ASSUME Forgotten
    PROVE  /\ backoff' \in Backoffs /\ misses' = [p \in Peer |-> 0] /\ pc' = "idle"
           /\ {tickNow', attempts', abandons'} \subseteq Nat
BY DEF Forgotten, Backoffs, Calm

Budget == [{"puts", "edits", "restarts"} -> Nat]

LEMMA Spent ==
    ASSUME spent \in Budget, NEW what \in {"puts", "edits", "restarts"}, NEW bound, Spend(what, bound)
    PROVE  spent' \in Budget
BY DEF Spend, Budget

\* BridgeTypeOK without the rows and the batch.
RestOK ==
    /\ clock \in Nat /\ {tickNow, attempts, abandons} \subseteq Nat
    /\ enabled \in BOOLEAN /\ configured \subseteq Peer /\ outbound \in [Peer -> Nat]
    /\ backoff \in Backoffs /\ misses \in [Peer -> Nat]
    /\ pc \in {"idle", "loop", "wire"} /\ spent \in Budget

LEMMA TypeParts == BridgeTypeOK <=> RowsOK /\ RestOK
BY DEF BridgeTypeOK, RowsOK, RestOK, Backoffs, Budget

LEMMA UsersTyped == ASSUME RestOK, Users PROVE RestOK'
<1>1. ASSUME NEW p \in Peer, NEW big \in Oversize, Post(p, big) PROVE RestOK'
  BY <1>1 DEF Post, config, tick, RestOK
<1>2. ASSUME NEW m \in Ids, NEW status \in {"done", "failed"}, Put(m, status) PROVE RestOK'
  <2>1. spent' \in Budget BY <1>2, Spent DEF Put, RestOK
  <2> QED BY <1>2, <2>1 DEF Put, config, tick, RestOK
<1> QED BY <1>1, <1>2 DEF Users

LEMMA EditTyped == ASSUME RestOK, Edit PROVE RestOK'
<1>1. spent' \in Budget BY Spent DEF RestOK, Edit, Amend, Enable, Disable, RemoveAll, RemovePeer, AddPeer, PatchToken
<1>2. CASE Enable BY <1>1, <1>2 DEF Enable, tick, RestOK
<1>3. CASE Disable
  <2>1. backoff' \in Backoffs /\ misses' \in [Peer -> Nat] BY <1>3, BackoffReset DEF Disable, RestOK
  <2> QED BY <1>1, <1>3, <2>1 DEF Disable, tick, RestOK
<1>4. CASE RemoveAll
  <2>1. backoff' \in Backoffs /\ misses' \in [Peer -> Nat] BY <1>4, BackoffReset DEF RemoveAll, RestOK
  <2> QED BY <1>1, <1>4, <2>1 DEF RemoveAll, tick, RestOK
<1>5. ASSUME NEW p \in Peer, RemovePeer(p) PROVE RestOK'
  <2>1. backoff' \in Backoffs /\ misses' \in [Peer -> Nat] BY <1>5, BackoffReset DEF RemovePeer, RestOK
  <2> QED BY <1>1, <1>5, <2>1 DEF RemovePeer, tick, RestOK
<1>6. ASSUME NEW p \in Peer, NEW token \in {0, 1}, AddPeer(p, token) PROVE RestOK'
  BY <1>1, <1>6 DEF AddPeer, tick, RestOK
<1>7. ASSUME NEW p \in Peer, NEW token \in {0, 1}, PatchToken(p, token) PROVE RestOK'
  <2>1. backoff' \in Backoffs /\ misses' \in [Peer -> Nat] BY <1>7, BackoffReset DEF PatchToken, RestOK
  <2>2. outbound' \in [Peer -> Nat]
    <3>1. token \in Nat /\ outbound' = [outbound EXCEPT ![p] = token] BY <1>7 DEF PatchToken
    <3> QED BY <3>1 DEF RestOK
  <2>3. UNCHANGED <<clock, enabled, configured, pc, tickNow, attempts, abandons>>
    BY <1>7 DEF PatchToken, tick
  <2> QED BY <1>1, <2>1, <2>2, <2>3 DEF RestOK
<1> QED BY <1>2, <1>3, <1>4, <1>5, <1>6, <1>7 DEF Edit

\* A restart, also one that cuts the bridge between two statements.
LEMMA RestartTyped ==
    ASSUME RestOK, Spend("restarts", MaxRestarts), Forgotten, UNCHANGED <<clock, config>>
    PROVE  RestOK'
<1>1. spent' \in Budget BY Spent DEF RestOK
<1> QED BY <1>1, AllForgotten DEF RestOK, config

LEMMA BatchTyped ==
    ASSUME RowsOK, RestOK, NEW m \in batch, BatchStep(m) \/ Answer(m)
    PROVE  RestOK'
<1>1. rows[m].to \in Peer
  <2>1. rows[m] \in Row BY DEF RowsOK, Ids
  <2> QED BY <2>1 DEF Row
<1>2. CASE PassOver(m) \/ Abandon(m) \/ Refuse(m) \/ Fetch(m)
  BY <1>2 DEF PassOver, Abandon, Refuse, Fetch, RestOK, config
<1>3. CASE CutAbandon(m) \/ CutRefuse(m) \/ CutAccepted(m) \/ CutRejected(m)
  BY <1>3, RestartTyped DEF CutAbandon, CutRefuse, CutAccepted, CutRejected, CutShort
<1>4. CASE Accepted(m, 1) \/ Rejected(m)
  <2>1. backoff' \in Backoffs /\ misses' = misses
    BY <1>1, <1>4, SuccessNoted DEF Accepted, Rejected, RestOK
  <2> QED BY <1>4, <2>1 DEF Accepted, Rejected, Resume, RestOK, config
<1>5. CASE Unanswered(m)
  <2>1. backoff' \in Backoffs /\ misses' = [misses EXCEPT ![rows[m].to] = misses[rows[m].to] + 1]
    BY <1>1, <1>5, FailureNoted DEF Unanswered, RestOK
  <2>2. misses' \in [Peer -> Nat] BY <1>1, <2>1 DEF RestOK
  <2> QED BY <1>5, <2>1, <2>2 DEF Unanswered, Resume, RestOK, config
<1> QED BY <1>2, <1>3, <1>4, <1>5 DEF BatchStep, Answer

LEMMA TypeStep ==
    ASSUME BridgeTypeOK, [BridgeNext]_bridgeVars
    PROVE  BridgeTypeOK'
<1>1. RowsOK /\ RestOK BY TypeParts
<1>2. RowsOK' BY <1>1, RowsOKStep
<1> SUFFICES RestOK'
  BY <1>2 DEF BridgeTypeOK, RowsOK, RestOK, Backoffs, Budget
<1>3. CASE Users BY <1>1, <1>3, UsersTyped
<1>4. CASE Edit BY <1>1, <1>4, EditTyped
<1>5. CASE Restart BY <1>1, <1>5, RestartTyped DEF Restart
<1>6. CASE TimePasses BY <1>1, <1>6 DEF TimePasses, RestOK, config, tick
<1>7. CASE TickBegins \/ TickEnds BY <1>1, <1>7 DEF TickBegins, TickEnds, RestOK, config
<1>8. CASE \E m \in batch : BatchStep(m) \/ Answer(m) BY <1>1, <1>8, BatchTyped
<1>9. CASE UNCHANGED bridgeVars BY <1>1, <1>9 DEF bridgeVars, RestOK, config, tick
<1> QED BY <1>3, <1>4, <1>5, <1>6, <1>7, <1>8, <1>9 DEF BridgeNext

LEMMA InitTyped == BridgeInit => BridgeTypeOK
<1> SUFFICES ASSUME BridgeInit PROVE RowsOK /\ RestOK BY TypeParts
<1>1. rows \in Seq(Row) BY DEF BridgeInit
<1>2. spent \in Budget BY DEF BridgeInit, Budget
<1>3. backoff \in Backoffs BY DEF BridgeInit, Backoffs, Calm
<1> QED BY <1>1, <1>2, <1>3 DEF BridgeInit, Idle, RowsOK, RestOK

\* Every reachable state of the bridge is well-typed, for any base and bound of the backoff.
THEOREM BridgeTypeCorrect == BridgeSpec => []BridgeTypeOK
BY InitTyped, TypeStep, PTL DEF BridgeSpec
----------------------------------------------------------------------------
(***************************************************************************)
(* One POST for a peer that is down.                                       *)
(***************************************************************************)
\* Inductive: a peer that has missed once in this tick is behind its backoff, so the POST
\* that is on the wire is to one that has not.
MissOK(p) ==
    /\ misses[p] <= 1
    /\ misses[p] = 1 /\ pc # "idle" => tickNow < backoff[p].nextAttemptAt

OnWire == pc = "wire" => First(batch) \in batch /\ misses[rows[First(batch)].to] = 0

MissInv == BridgeTypeOK /\ (\A p \in Peer : MissOK(p)) /\ OnWire

\* Handlers that run while the bridge is idle or waits: they leave the tick alone and touch
\* the misses of a peer only to reset them.
LEMMA MissAside ==
    ASSUME MissInv, RowsStep, UNCHANGED tick,
           misses' \in [Peer -> Nat], backoff' \in Backoffs,
           \A p \in Peer : misses'[p] = 0 \/ (misses'[p] = misses[p] /\ backoff'[p] = backoff[p])
    PROVE  (\A p \in Peer : MissOK(p)') /\ OnWire'
<1>1. \A p \in Peer : MissOK(p)' BY DEF MissInv, MissOK, tick
<1>2. ASSUME pc = "wire" PROVE First(batch) \in batch /\ misses'[rows'[First(batch)].to] = 0
  <2>1. PICK m \in batch : m = First(batch) BY <1>2 DEF MissInv, OnWire
  <2>2. m \in Ids /\ rows[m] \in Row BY DEF MissInv, BridgeTypeOK, Ids
  <2>3. rows'[m].to = rows[m].to
    <3>1. CASE \E r \in Row : rows' = Append(rows, r)
      BY <2>2, <3>1 DEF Ids, MissInv, BridgeTypeOK
    <3>2. CASE Change(rows[m], rows'[m]) BY <2>2, <3>2, ChangeTyped
    <3> QED BY <2>2, <3>1, <3>2 DEF RowsStep
  <2>4. rows[m].to \in Peer /\ misses[rows[m].to] = 0 BY <1>2, <2>1, <2>2 DEF MissInv, OnWire, Row
  <2> QED BY <2>1, <2>3, <2>4
<1> QED BY <1>1, <1>2 DEF OnWire, First, tick

LEMMA MissStep ==
    ASSUME MissInv, [BridgeNext]_bridgeVars
    PROVE  MissInv'
<1>1. BridgeTypeOK' BY TypeStep DEF MissInv
<1>2. RowsStep BY EveryBridgeStep, TypeParts DEF MissInv
<1>3. /\ backoff \in Backoffs /\ misses \in [Peer -> Nat] /\ tickNow \in Nat
      /\ backoff' \in Backoffs /\ misses' \in [Peer -> Nat]
  BY <1>1 DEF MissInv, BridgeTypeOK, Backoffs
<1> SUFFICES (\A p \in Peer : MissOK(p)') /\ OnWire'
  BY <1>1 DEF MissInv
<1>4. CASE Users \/ TimePasses \/ UNCHANGED bridgeVars
  <2>1. UNCHANGED <<tick, misses, backoff>> BY <1>4 DEF Users, Post, Put, TimePasses, bridgeVars
  <2> QED BY <1>2, <1>3, <2>1, MissAside
<1>5. CASE Edit
  <2>1. UNCHANGED tick
    BY <1>5 DEF Edit, Enable, Disable, RemoveAll, RemovePeer, AddPeer, PatchToken
  <2>2. UNCHANGED <<backoff, misses>> \/ \E S : resetPeerBackoff(S)
    BY <1>5 DEF Edit, Enable, Disable, RemoveAll, RemovePeer, AddPeer, PatchToken
  <2>3. \A p \in Peer : misses'[p] = 0 \/ (misses'[p] = misses[p] /\ backoff'[p] = backoff[p])
    BY <1>3, <2>2, BackoffReset
  <2> QED BY <1>2, <1>3, <2>1, <2>3, MissAside
<1>6. CASE Forgotten
  BY <1>6, AllForgotten DEF MissOK, OnWire
<1>7. CASE TickBegins BY <1>7 DEF TickBegins, MissOK, OnWire
<1>8. CASE TickEnds BY <1>8 DEF TickEnds, MissOK, OnWire, MissInv
<1>9. ASSUME NEW m \in batch, PassOver(m) \/ Abandon(m) \/ Refuse(m)
      PROVE  (\A p \in Peer : MissOK(p)') /\ OnWire'
  BY <1>9 DEF PassOver, Abandon, Refuse, Running, MissOK, OnWire, MissInv
<1>10. ASSUME NEW m \in batch PROVE m \in Ids /\ rows[m] \in Row /\ rows[m].to \in Peer
  <2>1. m \in Ids /\ rows[m] \in Row BY DEF MissInv, BridgeTypeOK, Ids
  <2> QED BY <2>1 DEF Row
<1>11. ASSUME NEW m \in batch, Fetch(m) PROVE (\A p \in Peer : MissOK(p)') /\ OnWire'
  <2>1. ~isPeerInBackoff(rows[m].to) /\ pc = "loop" /\ m = First(batch)
    BY <1>11 DEF Fetch, Running
  <2>2. misses[rows[m].to] = 0
    <3> DEFINE p == rows[m].to
    <3>1. MissOK(p) /\ misses[p] \in Nat BY <1>3, <1>10 DEF MissInv
    <3>2. ~(tickNow < backoff[p].nextAttemptAt) BY <2>1 DEF isPeerInBackoff
    <3> HIDE DEF p
    <3>3. misses[p] = 0 BY <2>1, <3>1, <3>2 DEF MissOK
    <3> QED BY <3>3 DEF p
  <2>3. rows'[m].to = rows[m].to
    <3>1. CASE Change(rows[m], rows'[m]) BY <1>10, <3>1, ChangeTyped
    <3>2. CASE \E r \in Row : rows' = Append(rows, r)
      BY <1>10, <3>2 DEF Ids, MissInv, BridgeTypeOK
    <3> QED BY <1>2, <1>10, <3>1, <3>2 DEF RowsStep
  <2>4. UNCHANGED <<batch, misses, backoff, tickNow>> BY <1>11 DEF Fetch
  <2>5. \A p \in Peer : MissOK(p)' BY <2>1, <2>4 DEF MissInv, MissOK
  <2> QED BY <2>1, <2>2, <2>3, <2>4, <2>5 DEF OnWire, First
<1>12. ASSUME NEW m \in batch, Resume(m) PROVE OnWire' /\ misses[rows[m].to] = 0
  BY <1>12 DEF Resume, Awaiting, OnWire, MissInv
<1>13. ASSUME NEW m \in batch, Accepted(m, 1) \/ Rejected(m)
       PROVE  (\A p \in Peer : MissOK(p)') /\ OnWire'
  <2>1. Resume(m) /\ noteSuccess(rows[m].to) BY <1>13 DEF Accepted, Rejected
  <2>2. misses' = misses /\ \A o \in Peer \ {rows[m].to} : backoff'[o] = backoff[o]
    BY <1>3, <1>10, <2>1, SuccessNoted
  <2>3. pc # "idle" /\ tickNow' = tickNow BY <2>1 DEF Resume, Awaiting
  <2> QED BY <1>12, <2>1, <2>2, <2>3 DEF MissOK, MissInv
<1>14. ASSUME NEW m \in batch, Unanswered(m) PROVE (\A p \in Peer : MissOK(p)') /\ OnWire'
  <2>1. Resume(m) /\ noteFailure(rows[m].to) BY <1>14 DEF Unanswered
  <2>2. /\ misses' = [misses EXCEPT ![rows[m].to] = misses[rows[m].to] + 1]
        /\ tickNow < backoff'[rows[m].to].nextAttemptAt
        /\ \A o \in Peer \ {rows[m].to} : backoff'[o] = backoff[o]
    BY <1>3, <1>10, <2>1, FailureNoted
  <2>3. pc # "idle" /\ tickNow' = tickNow BY <2>1 DEF Resume, Awaiting
  <2> QED BY <1>3, <1>10, <1>12, <2>1, <2>2, <2>3 DEF MissOK, MissInv
<1>15. ASSUME NEW m \in batch, BatchStep(m) \/ Answer(m)
       PROVE  (\A p \in Peer : MissOK(p)') /\ OnWire'
  <2>1. CASE CutAbandon(m) \/ CutRefuse(m) \/ CutAccepted(m) \/ CutRejected(m)
    BY <1>6, <2>1 DEF CutAbandon, CutRefuse, CutAccepted, CutRejected, CutShort
  <2> QED BY <1>9, <1>11, <1>13, <1>14, <1>15, <2>1 DEF BatchStep, Answer
<1> QED BY <1>4, <1>5, <1>6, <1>7, <1>8, <1>15 DEF BridgeNext, Restart

\* A peer that is down costs a tick one POST, whatever the base and the bound of its backoff
\* and however many rows wait for it (bridge.ts:56-79, message-router.ts:297-300).
THEOREM DeadPeerCostsOnePost == BridgeSpec => []OneMissPerTick
<1>1. BridgeInit => MissInv
  BY InitTyped DEF BridgeInit, Idle, MissInv, MissOK, OnWire
<1>2. MissInv => OneMissPerTick BY DEF MissInv, MissOK, OneMissPerTick
<1> QED BY <1>1, <1>2, MissStep, PTL DEF BridgeSpec
----------------------------------------------------------------------------
(***************************************************************************)
(* The two halves together: types.                                         *)
(***************************************************************************)
Carried == [text : Text, era : Nat]
Entry   == [ref : Nat, id : Nat]
Reply   == [kind : {"none", "2xx", "401", "4xx"}, id : Nat]

LEMMA OnePeer == ThePeer \in Peer /\ Peer = {ThePeer}
BY FederationAssumption

\* What a step of the whole is for the bridge.
LEMMA BridgeMoves ==
    ASSUME [Next]_vars
    PROVE  \/ [BridgeNext]_bridgeVars
           \/ Paste \/ LoseStore
           \/ \E m \in batch : /\ Accepted(m, answer.id) /\ answer.kind = "2xx"
                               /\ UNCHANGED <<inboxVars, database>>
<1>1. CASE Bridge
  BY <1>1, OnePeer DEF Bridge, Returns, BridgeNext, Users, Edit, BatchStep, Answer
<1>2. CASE Inbox \/ UNCHANGED vars BY <1>2 DEF Inbox, vars
<1>3. ASSUME NEW m \in batch, Send(m) PROVE BridgeNext BY <1>3 DEF Send, BridgeNext, BatchStep
<1>4. ASSUME NEW q, Unauthorized(q) \/ Admitted(q) \/ Handled(q) PROVE UNCHANGED bridgeVars
  BY <1>4 DEF Unauthorized, Admitted, Handled, Answers
<1> QED BY <1>1, <1>2, <1>3, <1>4 DEF Next

LEMMA AcceptedRows ==
    ASSUME RowsOK, NEW m \in batch, NEW id \in Nat, Accepted(m, id)
    PROVE  RowsStep
<1> DEFINE r == [rows[m] EXCEPT !.status = "delivered", !.result = "remote", !.remote = id]
<1>1. m \in Ids BY DEF RowsOK
<1>2. CASE rows[m].status = "pending"
  <2>1. rows' = [rows EXCEPT ![m] = r] BY <1>2 DEF Accepted
  <2>2. Change(rows[m], r) BY <1>2 DEF Change
  <2> QED BY <1>1, <2>1, <2>2, OneRow DEF RowsOK
<1>3. CASE rows[m].status # "pending" BY <1>3, SameRows DEF Accepted, RowsOK
<1> QED BY <1>2, <1>3

LEMMA BridgeSideTyped ==
    ASSUME BridgeTypeOK, answer \in Reply, inboundToken \in Nat, [Next]_vars
    PROVE  BridgeTypeOK'
<1>t. RowsOK /\ RestOK BY TypeParts
<1>1. CASE [BridgeNext]_bridgeVars BY <1>1, TypeStep
<1>2. ASSUME NEW m \in batch, Accepted(m, answer.id) PROVE BridgeTypeOK'
  <2>1. rows[m].to \in Peer
    <3>1. rows[m] \in Row BY <1>t DEF RowsOK, Ids
    <3> QED BY <3>1 DEF Row
  <2>2. Ids \subseteq Ids' /\ rows' \in Seq(Row)
    BY <1>t, <1>2, AcceptedRows, RowsGrow DEF Reply
  <2>3. batch' \subseteq batch /\ clock' = clock BY <1>2 DEF Accepted, Resume
  <2>4. RowsOK' BY <1>t, <2>2, <2>3 DEF RowsOK
  <2>5. backoff' \in Backoffs /\ misses' = misses BY <1>t, <1>2, <2>1, SuccessNoted DEF Accepted, RestOK
  <2>6. RestOK' BY <1>t, <1>2, <2>5 DEF Accepted, Resume, RestOK, config
  <2> QED BY <2>4, <2>6 DEF BridgeTypeOK, RowsOK, RestOK, Backoffs, Budget
<1>3. CASE Paste
  <2>1. PICK p \in Peer : AddPeer(p, inboundToken) \/ PatchToken(p, inboundToken)
    BY <1>3, OnePeer DEF Paste
  <2>2. spent' \in Budget BY <1>t, <2>1, Spent DEF AddPeer, PatchToken, Amend, RestOK
  <2>3. outbound' \in [Peer -> Nat]
    <3>1. outbound' = [outbound EXCEPT ![p] = inboundToken] BY <2>1 DEF AddPeer, PatchToken
    <3> QED BY <1>t, <3>1 DEF RestOK
  <2>4. backoff' \in Backoffs /\ misses' \in [Peer -> Nat]
    BY <1>t, <2>1, BackoffReset DEF AddPeer, PatchToken, RestOK
  <2>5. RowsOK' /\ configured' \subseteq Peer
    BY <1>t, <2>1 DEF AddPeer, PatchToken, RowsOK, RestOK, tick, Ids
  <2>6. UNCHANGED <<clock, enabled, pc, tickNow, attempts, abandons>>
    BY <2>1 DEF AddPeer, PatchToken, tick
  <2>7. RestOK' BY <1>t, <2>2, <2>3, <2>4, <2>5, <2>6 DEF RestOK
  <2> QED BY <2>5, <2>7 DEF BridgeTypeOK, RowsOK, RestOK, Backoffs, Budget
<1>4. CASE LoseStore
  <2>1. <<>> \in Seq(Row) OBVIOUS
  <2>2. RowsOK' BY <1>t, <1>4, <2>1 DEF LoseStore, Forgotten, RowsOK
  <2>3. outbound' \in [Peer -> Nat] /\ misses' \in [Peer -> Nat]
    BY <1>t, <1>4 DEF LoseStore, Forgotten, RestOK
  <2>4. RestOK' BY <1>t, <1>4, <2>3, AllForgotten DEF LoseStore, RestOK
  <2> QED BY <2>2, <2>4 DEF BridgeTypeOK, RowsOK, RestOK, Backoffs, Budget
<1> QED BY <1>1, <1>2, <1>3, <1>4, BridgeMoves

\* rememberRef adds an entry and keeps the others, or evicts one and begins an era.
LEMMA Remembered ==
    ASSUME seenRefs \in Seq(Entry), Len(seenRefs) <= DEDUP_CAP, era \in Nat,
           NEW ref \in Nat, NEW id \in Nat, rememberRef(ref, id)
    PROVE  /\ seenRefs' \in Seq(Entry) /\ Len(seenRefs') <= DEDUP_CAP /\ era' \in {era, era + 1}
           /\ \A k \in DOMAIN seenRefs' :
                 \/ seenRefs'[k] = [ref |-> ref, id |-> id]
                 \/ \E j \in DOMAIN seenRefs : seenRefs'[k] = seenRefs[j]
           /\ era' = era => /\ \A k \in DOMAIN seenRefs :
                                   k \in DOMAIN seenRefs' /\ seenRefs'[k] = seenRefs[k]
                            /\ \E k \in DOMAIN seenRefs' : seenRefs'[k].ref = ref
<1> DEFINE e == [ref |-> ref, id |-> id]
<1>0. e \in Entry /\ e.ref = ref /\ DEDUP_CAP \in Nat \ {0} BY InboxAssumption DEF Entry
<1>1. CASE Len(seenRefs) >= DEDUP_CAP
  <2>1. seenRefs' = Append(Tail(seenRefs), e) /\ era' = era + 1 BY <1>1 DEF rememberRef
  <2> HIDE DEF e
  <2>2. seenRefs # <<>> BY <1>0, <1>1
  <2>a. Tail(seenRefs) \in Seq(Entry) BY <2>2
  <2>b. Len(Tail(seenRefs)) = Len(seenRefs) - 1 BY <2>2
  <2>c. \A j \in 1 .. Len(seenRefs) - 1 : Tail(seenRefs)[j] = seenRefs[j + 1] BY <2>2
  <2>3. PICK s \in Seq(Entry) : /\ s = Tail(seenRefs) /\ Len(s) = Len(seenRefs) - 1
                                /\ \A j \in 1 .. Len(s) : s[j] = seenRefs[j + 1]
    BY <2>a, <2>b, <2>c
  <2>4. /\ seenRefs' \in Seq(Entry) /\ Len(seenRefs') = Len(s) + 1
        /\ \A k \in 1 .. Len(s) : seenRefs'[k] = s[k]
        /\ seenRefs'[Len(s) + 1] = e
    BY <1>0, <2>1, <2>3
  <2>5. ASSUME NEW k \in DOMAIN seenRefs'
        PROVE  seenRefs'[k] = e \/ \E j \in DOMAIN seenRefs : seenRefs'[k] = seenRefs[j]
    <3>1. CASE k = Len(s) + 1 BY <2>4, <3>1
    <3>2. CASE k \in 1 .. Len(s)
      <4>1. k + 1 \in DOMAIN seenRefs /\ seenRefs'[k] = seenRefs[k + 1] BY <2>3, <2>4, <3>2
      <4> QED BY <4>1
    <3> QED BY <2>3, <2>4, <3>1, <3>2
  <2> QED BY <1>0, <2>1, <2>3, <2>4, <2>5 DEF e
<1>2. CASE Len(seenRefs) < DEDUP_CAP
  <2>1. seenRefs' = Append(seenRefs, e) /\ era' = era BY <1>0, <1>2 DEF rememberRef
  <2> HIDE DEF e
  <2>2. /\ seenRefs' \in Seq(Entry) /\ Len(seenRefs') = Len(seenRefs) + 1
        /\ \A k \in 1 .. Len(seenRefs) : seenRefs'[k] = seenRefs[k]
        /\ seenRefs'[Len(seenRefs) + 1] = e
    BY <1>0, <2>1
  <2> QED BY <1>0, <1>2, <2>1, <2>2 DEF e
<1> QED BY <1>0, <1>1, <1>2

LEMMA OthersTyped ==
    ASSUME seenRefs \in Seq(Entry), Len(seenRefs) <= DEDUP_CAP
    PROVE  /\ OthersKept \in Seq(Entry) /\ Len(OthersKept) <= DEDUP_CAP
           /\ \A k \in DOMAIN OthersKept : OthersKept[k].ref = Foreign
<1> DEFINE E == Entries(Foreign)
           n == Cardinality(E)
<1>1. E \subseteq 1 .. Len(seenRefs) BY DEF Entries
<1>2. IsFiniteSet(1 .. Len(seenRefs)) /\ Cardinality(1 .. Len(seenRefs)) = Len(seenRefs)
  BY FS_Interval
<1>3. n \in Nat /\ n <= Len(seenRefs)
  <2> HIDE DEF E
  <2> QED BY <1>1, <1>2, FS_Subset, FS_CardinalityType
<1>4. OthersKept = [i \in 1 .. n |-> [ref |-> Foreign, id |-> 0]] BY DEF OthersKept
<1> HIDE DEF n
<1>5. [ref |-> Foreign, id |-> 0] \in Entry BY DEF Entry, Foreign
<1> QED BY <1>3, <1>4, <1>5, InboxAssumption

InboxBudget == [{"edits", "restarts", "strangers"} -> Nat]

\* What a step of the whole is for the inbox: the acceptance of a request, the post of
\* somebody else, a loss of memory, or something that touches neither rows nor filter.
Accepts(q) == q \in reading /\ Insert(q, Len(inbox) + 1) /\ UNCHANGED <<database, stale>>

OthersPost == /\ Stranger \/ \E ref \in Ids : OwnerPosts(ref)
              /\ UNCHANGED <<database, stale>>

Forgets == /\ era' = era + 1 /\ UNCHANGED <<inbox, minted, inboundToken, database>>
           /\ seenRefs' \in {<<>>, OthersKept} /\ reading' \in {reading, {}}

FilterStands == /\ UNCHANGED <<inbox, seenRefs, era>>
                /\ UNCHANGED <<database, stale>> \/ stale' = TRUE
                /\ reading' \subseteq reading \cup wire

LEMMA InboxMoves ==
    ASSUME [Next]_vars
    PROVE  (\E q : Accepts(q)) \/ OthersPost \/ Forgets \/ FilterStands
<1>1. CASE Bridge \/ Paste \/ LoseStore \/ UNCHANGED vars
  BY <1>1 DEF Bridge, Paste, LoseStore, vars, inboxVars, link, FilterStands
<1>2. CASE Inbox
  BY <1>2 DEF Inbox, Switch, Rotate, AddCaller, InboxRestart, RemoveCaller, RemoveAllCallers,
              Forgets, FilterStands, OthersPost, operator
<1>3. ASSUME NEW m, Send(m) PROVE FilterStands BY <1>3 DEF Send, inboxVars, FilterStands
<1>4. ASSUME NEW q \in wire, Unauthorized(q) \/ Admitted(q) PROVE FilterStands
  BY <1>4 DEF Unauthorized, Admitted, Admit, Answers, inboxVars, FilterStands
<1>5. ASSUME NEW q \in reading, Handled(q) PROVE Accepts(q) \/ FilterStands
  BY <1>5 DEF Handled, Replay, TurnDown, Answers, Accepts, FilterStands
<1> QED BY <1>1, <1>2, <1>3, <1>4, <1>5 DEF Next

LEMMA InboxSpent ==
    ASSUME inboxSpent \in InboxBudget, NEW what \in {"edits", "restarts", "strangers"}, NEW bound,
           InboxSpend(what, bound)
    PROVE  inboxSpent' \in InboxBudget
<1> DEFINE n == inboxSpent[what] + 1
<1>1. n \in Nat BY DEF InboxBudget
<1>2. inboxSpent' = [inboxSpent EXCEPT ![what] = n] BY DEF InboxSpend
<1> HIDE DEF n
<1> QED BY <1>1, <1>2 DEF InboxBudget

\* What a step of the whole does to the counters of the inbox.
LEMMA CountersTyped ==
    ASSUME TypeOK, [Next]_vars
    PROVE  /\ {open', known'} \subseteq BOOLEAN /\ inboxSpent' \in InboxBudget
           /\ inboundToken' \in Nat /\ minted' \in Nat
<1>0. /\ {open, known} \subseteq BOOLEAN /\ inboxSpent \in InboxBudget
      /\ inboundToken \in Nat /\ minted \in Nat
  BY DEF TypeOK, InboxTypeOK, InboxBudget
<1>1. CASE UNCHANGED <<operator, inboxSpent>> BY <1>0, <1>1 DEF operator
<1>2. CASE Inbox
  <2>1. CASE Stranger \/ \E ref \in Ids : OwnerPosts(ref)
    BY <1>0, <2>1, InboxSpent DEF Stranger, OwnerPosts, operator
  <2>2. CASE Switch BY <1>0, <2>2, InboxSpent DEF Switch
  <2>3. CASE Rotate BY <1>0, <2>3, InboxSpent DEF Rotate, Mint
  <2>4. CASE AddCaller BY <1>0, <2>4, InboxSpent DEF AddCaller, Mint
  <2>5. CASE InboxRestart BY <1>0, <2>5, InboxSpent DEF InboxRestart, operator
  <2>6. CASE RemoveCaller BY <1>0, <2>6, InboxSpent DEF RemoveCaller
  <2>7. CASE RemoveAllCallers BY <1>0, <2>7, InboxSpent DEF RemoveAllCallers
  <2> QED BY <1>2, <2>1, <2>2, <2>3, <2>4, <2>5, <2>6, <2>7 DEF Inbox
<1>3. CASE Bridge \/ Paste \/ LoseStore \/ UNCHANGED vars
  BY <1>1, <1>3 DEF Bridge, Paste, LoseStore, vars, inboxVars, operator
<1>4. ASSUME NEW m, Send(m) PROVE UNCHANGED <<operator, inboxSpent>>
  BY <1>4 DEF Send, inboxVars, operator
<1>5. ASSUME NEW q, Unauthorized(q) \/ Admitted(q) \/ Handled(q)
      PROVE  UNCHANGED <<operator, inboxSpent>>
  BY <1>5 DEF Unauthorized, Admitted, Handled, Admit, Replay, Insert, TurnDown, inboxVars, operator
<1> QED BY <1>1, <1>2, <1>3, <1>4, <1>5 DEF Next

\* What a step of the whole does to what is kept of messages: the rows, the filter, the
\* requests in hand.
LEMMA KeptTyped ==
    ASSUME TypeOK, [Next]_vars
    PROVE  /\ inbox' \in Seq(Carried) /\ era' \in {era, era + 1}
           /\ seenRefs' \in Seq(Entry) /\ Len(seenRefs') <= DEDUP_CAP
           /\ reading' \subseteq reading \cup wire
<1>0. /\ inbox \in Seq(Carried) /\ era \in Nat /\ seenRefs \in Seq(Entry)
      /\ Len(seenRefs) <= DEDUP_CAP /\ reading \subseteq Request
  BY DEF TypeOK, InboxTypeOK, Carried, Entry
<1>1. ASSUME NEW q, Accepts(q) PROVE inbox' \in Seq(Carried) /\ reading' \subseteq reading
  <2>1. [text |-> q.text, era |-> era] \in Carried
    BY <1>0, <1>1 DEF Accepts, Request, Carried
  <2> QED BY <1>0, <1>1, <2>1 DEF Accepts, Insert
<1>2. ASSUME NEW q, Accepts(q)
      PROVE  seenRefs' \in Seq(Entry) /\ Len(seenRefs') <= DEDUP_CAP /\ era' \in {era, era + 1}
  <2>1. q.ref \in Nat BY <1>0, <1>2 DEF Accepts, Request
  <2>2. Len(inbox) + 1 \in Nat BY <1>0
  <2>3. rememberRef(q.ref, Len(inbox) + 1) BY <1>2 DEF Accepts, Insert
  <2> QED BY <1>0, <2>1, <2>2, <2>3, Remembered
<1>3. CASE Stranger
  <2>1. [text |-> <<0, 0>>, era |-> era] \in Carried BY <1>0 DEF Carried, Text
  <2>2. inbox' \in Seq(Carried) /\ reading' = reading BY <1>0, <1>3, <2>1 DEF Stranger
  <2>3. rememberRef(Foreign, 0) /\ Foreign \in Nat /\ 0 \in Nat BY <1>3 DEF Stranger, Foreign
  <2> QED BY <1>0, <2>2, <2>3, Remembered
<1>4. ASSUME NEW ref \in Ids, OwnerPosts(ref) PROVE inbox' \in Seq(Carried)
  <2>1. ref \in Nat BY DEF Ids, TypeOK, BridgeTypeOK
  <2>2. [text |-> <<0, ref>>, era |-> era] \in Carried BY <1>0, <2>1 DEF Carried, Text
  <2> QED BY <1>0, <1>4, <2>2 DEF OwnerPosts
<1>5. CASE Forgets
  <2>1. <<>> \in Seq(Entry) /\ Len(<<>>) <= DEDUP_CAP BY InboxAssumption
  <2> QED BY <1>0, <1>5, <2>1, OthersTyped DEF Forgets
<1>6. CASE FilterStands BY <1>0, <1>6 DEF FilterStands
<1> QED BY <1>0, <1>1, <1>2, <1>3, <1>4, <1>5, <1>6, InboxMoves DEF OthersPost, OwnerPosts

\* What a step does to the requests on the wire: one more, the row's, or no more.
Departs(m) == /\ m \in Ids /\ enabled /\ ThePeer \in configured /\ pc' = "wire"
              /\ UNCHANGED <<database, stale, reading, inbox, seenRefs, known, minted>>
              /\ \E try : wire' = wire \cup {[text |-> <<database, m>>, ref |-> m,
                                             token |-> outbound[ThePeer], try |-> try]}

LEMMA WireMoves ==
    ASSUME TypeOK, [Next]_vars
    PROVE  wire' \subseteq wire \/ \E m \in batch : Departs(m)
<1>1. ASSUME NEW m \in batch, Send(m) PROVE Departs(m)
  <2>1. m \in Ids /\ rows[m] \in Row BY DEF TypeOK, BridgeTypeOK, Ids
  <2>2. rows[m].to = ThePeer BY <2>1, OnePeer DEF Row
  <2> QED BY <1>1, <2>1, <2>2 DEF Send, Fetch, Sendable, Departs, inboxVars
<1>2. CASE Bridge \/ Paste \/ LoseStore \/ Inbox \/ UNCHANGED vars
  BY <1>2 DEF Bridge, Paste, LoseStore, Inbox, vars, link
<1>3. ASSUME NEW q, Unauthorized(q) \/ Admitted(q) \/ Handled(q) PROVE wire' \subseteq wire
  BY <1>3 DEF Unauthorized, Admitted, Handled, Arrives
<1> QED BY <1>1, <1>2, <1>3 DEF Next

LEMMA WireTyped ==
    ASSUME TypeOK, BridgeTypeOK', [Next]_vars
    PROVE  wire' \subseteq Request
<1>1. ASSUME NEW m \in batch, Send(m) PROVE wire' \subseteq Request
  <2>1. m \in Ids /\ m \in Nat BY DEF TypeOK, BridgeTypeOK, Ids
  <2>2. rows'[m].tries \in Nat
    <3>1. DOMAIN rows' = Ids BY <1>1 DEF Send, Fetch, Ids, TypeOK, BridgeTypeOK
    <3>2. rows'[m] \in Row BY <2>1, <3>1 DEF BridgeTypeOK
    <3> QED BY <3>2 DEF Row
  <2>3. outbound[ThePeer] \in Nat BY OnePeer DEF TypeOK, BridgeTypeOK
  <2>4. database \in Nat BY DEF TypeOK
  <2>5. [text |-> <<database, m>>, ref |-> m, token |-> outbound[ThePeer], try |-> rows'[m].tries]
            \in Request
    BY <2>1, <2>2, <2>3, <2>4 DEF Request, Text
  <2> QED BY <1>1, <2>5 DEF Send, TypeOK
<1>2. CASE Bridge \/ Paste \/ LoseStore \/ Inbox \/ UNCHANGED vars
  BY <1>2 DEF Bridge, Paste, LoseStore, Inbox, vars, link, TypeOK
<1>3. ASSUME NEW q, Unauthorized(q) \/ Admitted(q) \/ Handled(q) PROVE wire' \subseteq Request
  BY <1>3 DEF Unauthorized, Admitted, Handled, Arrives, TypeOK
<1> QED BY <1>1, <1>2, <1>3 DEF Next

LEMMA AnswerTyped ==
    ASSUME TypeOK, [Next]_vars
    PROVE  answer' \in Reply
<1>0. answer \in Reply /\ None \in Reply /\ inbox \in Seq(Carried)
  BY DEF TypeOK, InboxTypeOK, Carried, Reply, None
<1>1. CASE Bridge \/ Paste \/ LoseStore \/ Inbox \/ UNCHANGED vars
  BY <1>0, <1>1 DEF Bridge, Paste, LoseStore, Inbox, vars, link
<1>2. ASSUME NEW m, Send(m) PROVE answer' \in Reply BY <1>0, <1>2 DEF Send
<1>3. ASSUME NEW q, NEW kind \in {"2xx", "401", "4xx"}, NEW id \in Nat, Answers(q, kind, id)
      PROVE  answer' \in Reply
  BY <1>0, <1>3 DEF Answers, Reply
<1>4. ASSUME NEW q \in wire, Unauthorized(q) \/ Admitted(q) PROVE answer' \in Reply
  BY <1>0, <1>3, <1>4 DEF Unauthorized, Admitted
<1>5. ASSUME NEW q \in reading, Handled(q) PROVE answer' \in Reply
  <2>1. \A id \in 1 .. Len(inbox) \cup {Len(inbox) + 1} : id \in Nat BY <1>0
  <2> QED BY <1>3, <1>5, <2>1 DEF Handled
<1> QED BY <1>1, <1>2, <1>4, <1>5 DEF Next

LEMMA SystemTyped ==
    ASSUME TypeOK, [Next]_vars
    PROVE  TypeOK'
<1>1. BridgeTypeOK'
  <2>1. answer \in Reply /\ inboundToken \in Nat BY DEF TypeOK, InboxTypeOK, Reply
  <2> QED BY <2>1, BridgeSideTyped DEF TypeOK
<1>2. InboxTypeOK'
  <2>1. reading' \subseteq Request BY KeptTyped DEF TypeOK, InboxTypeOK
  <2>2. era' \in Nat BY KeptTyped DEF TypeOK, InboxTypeOK
  <2> QED BY <2>1, <2>2, CountersTyped, KeptTyped DEF InboxTypeOK, Carried, Entry, InboxBudget
<1>3. database' \in Nat \ {0} /\ stale' \in BOOLEAN
  <2>0. database \in Nat \ {0} /\ stale \in BOOLEAN BY DEF TypeOK
  <2>1. CASE Bridge \/ Paste \/ UNCHANGED vars BY <2>0, <2>1 DEF Bridge, Paste, vars, link
  <2>2. CASE LoseStore BY <2>0, <2>2 DEF LoseStore
  <2>3. CASE Inbox BY <2>0, <2>3 DEF Inbox
  <2>4. ASSUME NEW q, Unauthorized(q) \/ Admitted(q) \/ Handled(q) \/ Send(q)
        PROVE  database' \in Nat \ {0} /\ stale' \in BOOLEAN
    BY <2>0, <2>4 DEF Unauthorized, Admitted, Handled, Answers, Send
  <2> QED BY <2>1, <2>2, <2>3, <2>4 DEF Next
<1>4. answer' \in [kind : {"none", "2xx", "401", "4xx"}, id : Nat] BY AnswerTyped DEF Reply
<1> QED BY <1>1, <1>2, <1>3, <1>4, WireTyped DEF TypeOK

LEMMA SystemBegins == Init => TypeOK
<1> SUFFICES ASSUME Init PROVE TypeOK OBVIOUS
<1>1. BridgeTypeOK BY InitTyped DEF Init
<1>2. InboxTypeOK
  <2>1. <<>> \in Seq([text : Text, era : Nat]) /\ <<>> \in Seq([ref : Nat, id : Nat])
    OBVIOUS
  <2>2. Len(<<>>) <= DEDUP_CAP BY InboxAssumption
  <2> QED BY <2>1, <2>2 DEF Init, InboxInit, InboxTypeOK
<1>3. None \in [kind : {"none", "2xx", "401", "4xx"}, id : Nat] BY DEF None
<1>4. wire \subseteq Request BY DEF Init
<1>5. database \in Nat \ {0}
  <2>1. database = 1 BY DEF Init
  <2> QED BY <2>1
<1>6. stale \in BOOLEAN BY DEF Init
<1> QED BY <1>1, <1>2, <1>3, <1>4, <1>5, <1>6 DEF Init, TypeOK

\* Bridge, network and inbox together keep their types, for every bound of either side.
THEOREM SystemTypes == Spec => []TypeOK
BY SystemBegins, SystemTyped, PTL DEF Spec
----------------------------------------------------------------------------
(***************************************************************************)
(* One copy of a text for each era of the filter.                          *)
(***************************************************************************)
\* A request carries the row's id twice: in its text, and as the ref the filter looks at.
RefOK == \A q \in wire \cup reading : q.ref = q.text[2]

\* What was accepted in this era is still in the filter.
EraOK == \A i \in DOMAIN inbox :
             /\ inbox[i].era <= era
             /\ inbox[i].era = era /\ inbox[i].text[1] # 0 =>
                    \E k \in DOMAIN seenRefs : seenRefs[k].ref = inbox[i].text[2]

CopyInv == TypeOK /\ RefOK /\ EraOK /\ OneCopyPerEra

\* The filter forgets nothing unless an era begins.
Keeps == era' = era => \A k \in DOMAIN seenRefs : k \in DOMAIN seenRefs' /\ seenRefs'[k] = seenRefs[k]

\* A row that joins the inbox is somebody else's, or the filter did not know it and does now.
LEMMA RowJoins ==
    ASSUME EraOK, OneCopyPerEra, inbox \in Seq(Carried), era \in Nat, era' \in {era, era + 1}, Keeps,
           NEW text \in Text, inbox' = Append(inbox, [text |-> text, era |-> era]),
           \/ text[1] = 0
           \/ /\ \A k \in DOMAIN seenRefs : seenRefs[k].ref # text[2]
              /\ era' = era => \E k \in DOMAIN seenRefs' : seenRefs'[k].ref = text[2]
    PROVE  EraOK' /\ OneCopyPerEra'
<1>1. PICK c \in Carried : c = [text |-> text, era |-> era] BY DEF Carried
<1>2. c.text = text /\ c.era = era BY <1>1
<1>3. \A i \in DOMAIN inbox : inbox[i] \in Carried OBVIOUS
<1>4. \A i \in DOMAIN inbox : inbox[i].era \in Nat BY <1>3 DEF Carried
<1>5. inbox' = Append(inbox, c) BY <1>1
<1>6. /\ DOMAIN inbox' = 1 .. Len(inbox) + 1 /\ inbox'[Len(inbox) + 1] = c
      /\ \A i \in DOMAIN inbox : inbox'[i] = inbox[i]
  BY <1>5
<1>7. PICK n : n = Len(inbox) + 1 OBVIOUS
<1>8. \A i \in DOMAIN inbox' : i = n \/ i \in DOMAIN inbox
  BY <1>6, <1>7
<1>9. inbox'[n] = c BY <1>6, <1>7
<1>10. ASSUME NEW i \in DOMAIN inbox'
       PROVE  /\ inbox'[i].era <= era'
              /\ inbox'[i].era = era' /\ inbox'[i].text[1] # 0 =>
                     \E k \in DOMAIN seenRefs' : seenRefs'[k].ref = inbox'[i].text[2]
  <2>1. CASE i = n BY <1>2, <1>9, <2>1
  <2>2. CASE i \in DOMAIN inbox
    <3>1. inbox[i].era \in Nat /\ inbox[i].era <= era BY <1>4, <2>2 DEF EraOK
    <3>2. inbox[i].era <= era' /\ (inbox[i].era = era' => era' = era) BY <3>1
    <3>3. ASSUME inbox[i].era = era', inbox[i].text[1] # 0
          PROVE  \E k \in DOMAIN seenRefs' : seenRefs'[k].ref = inbox[i].text[2]
      <4>1. PICK k \in DOMAIN seenRefs : seenRefs[k].ref = inbox[i].text[2]
        BY <2>2, <3>2, <3>3 DEF EraOK
      <4>2. k \in DOMAIN seenRefs' /\ seenRefs'[k] = seenRefs[k] BY <3>2, <3>3 DEF Keeps
      <4> QED BY <4>1, <4>2
    <3>4. inbox'[i] = inbox[i] BY <1>6, <2>2
    <3> QED BY <3>2, <3>3, <3>4
  <2> QED BY <1>8, <2>1, <2>2
<1>11. EraOK' BY <1>10 DEF EraOK
<1>12. OneCopyPerEra'
  <2>1. \A i \in DOMAIN inbox : inbox[i].text = text /\ text[1] # 0 => inbox[i].era # era
    BY DEF EraOK
  <2> QED BY <1>2, <1>6, <1>8, <1>9, <2>1 DEF OneCopyPerEra
<1> QED BY <1>11, <1>12

LEMMA RefStep == ASSUME TypeOK, RefOK, [Next]_vars PROVE RefOK'
<1>1. reading' \subseteq reading \cup wire BY KeptTyped
<1>2. CASE wire' \subseteq wire BY <1>1, <1>2 DEF RefOK
<1>3. ASSUME NEW m \in batch, Departs(m) PROVE RefOK'
  BY <1>1, <1>3 DEF RefOK, Departs
<1> QED BY <1>2, <1>3, WireMoves

\* An era that begins, and rows and filter that stay, disturb neither.
LEMMA RowsStay ==
    ASSUME EraOK, OneCopyPerEra, inbox \in Seq(Carried), era \in Nat, UNCHANGED inbox,
           era' = era + 1 \/ UNCHANGED <<seenRefs, era>>
    PROVE  EraOK' /\ OneCopyPerEra'
<1>0. \A i \in DOMAIN inbox : inbox[i] \in Carried OBVIOUS
<1>1. \A i \in DOMAIN inbox : inbox[i].era \in Nat BY <1>0 DEF Carried
<1>2. OneCopyPerEra' BY DEF OneCopyPerEra
<1>3. CASE UNCHANGED <<seenRefs, era>> BY <1>2, <1>3 DEF EraOK
<1>4. CASE era' = era + 1
  <2>1. \A i \in DOMAIN inbox : inbox[i].era <= era' /\ inbox[i].era # era'
    BY <1>1, <1>4 DEF EraOK
  <2> QED BY <1>2, <2>1 DEF EraOK
<1> QED BY <1>3, <1>4

LEMMA CopyStep == ASSUME CopyInv, [Next]_vars PROVE CopyInv'
<1>0. /\ inbox \in Seq(Carried) /\ era \in Nat /\ seenRefs \in Seq(Entry)
      /\ Len(seenRefs) <= DEDUP_CAP /\ reading \subseteq Request
  BY DEF CopyInv, TypeOK, InboxTypeOK, Carried, Entry
<1>1. TypeOK' /\ RefOK' BY SystemTyped, RefStep DEF CopyInv
<1> SUFFICES EraOK' /\ OneCopyPerEra' BY <1>1 DEF CopyInv
<1>2. ASSUME NEW q, Accepts(q) PROVE EraOK' /\ OneCopyPerEra'
  <2>1. q \in Request /\ q.ref = q.text[2] BY <1>0, <1>2 DEF Accepts, CopyInv, RefOK
  <2>2. q.text \in Text /\ q.ref \in Nat /\ Len(inbox) + 1 \in Nat BY <1>0, <2>1 DEF Request
  <2>3. /\ rememberRef(q.ref, Len(inbox) + 1) /\ Entries(q.ref) = {}
        /\ inbox' = Append(inbox, [text |-> q.text, era |-> era])
    BY <1>2 DEF Accepts, Insert
  <2>4. Keeps /\ era' \in {era, era + 1} BY <1>0, <2>2, <2>3, Remembered DEF Keeps
  <2>5. era' = era => \E k \in DOMAIN seenRefs' : seenRefs'[k].ref = q.ref
    BY <1>0, <2>2, <2>3, Remembered
  <2>6. \A k \in DOMAIN seenRefs : seenRefs[k].ref # q.ref BY <2>3 DEF Entries
  <2>7. EraOK /\ OneCopyPerEra BY DEF CopyInv
  <2> QED BY <1>0, <2>1, <2>2, <2>3, <2>4, <2>5, <2>6, <2>7, RowJoins
<1>3. CASE Stranger
  <2>1. rememberRef(Foreign, 0) /\ Foreign \in Nat /\ 0 \in Nat BY <1>3 DEF Stranger, Foreign
  <2>2. Keeps /\ era' \in {era, era + 1} BY <1>0, <2>1, Remembered DEF Keeps
  <2>3. PICK t \in Text : t = <<0, 0>> BY DEF Text
  <2>4. t[1] = 0 /\ inbox' = Append(inbox, [text |-> t, era |-> era]) BY <1>3, <2>3 DEF Stranger
  <2>5. EraOK /\ OneCopyPerEra BY DEF CopyInv
  <2> QED BY <1>0, <2>2, <2>4, <2>5, RowJoins
<1>4. ASSUME NEW ref \in Ids, OwnerPosts(ref) PROVE EraOK' /\ OneCopyPerEra'
  <2>1. ref \in Nat BY DEF Ids, CopyInv, TypeOK, BridgeTypeOK
  <2>2. Keeps /\ era' = era BY <1>4 DEF OwnerPosts, Keeps
  <2>3. PICK t \in Text : t = <<0, ref>> BY <2>1 DEF Text
  <2>4. t[1] = 0 /\ inbox' = Append(inbox, [text |-> t, era |-> era]) BY <1>4, <2>3 DEF OwnerPosts
  <2>5. EraOK /\ OneCopyPerEra BY DEF CopyInv
  <2> QED BY <1>0, <2>2, <2>4, <2>5, RowJoins
<1>5. CASE Forgets \/ FilterStands
  <2>1. UNCHANGED inbox /\ (era' = era + 1 \/ UNCHANGED <<seenRefs, era>>)
    BY <1>5 DEF Forgets, FilterStands
  <2>2. EraOK /\ OneCopyPerEra BY DEF CopyInv
  <2> QED BY <1>0, <2>1, <2>2, RowsStay
<1> QED BY <1>2, <1>3, <1>4, <1>5, InboxMoves DEF OthersPost

\* However often the bridge sends a row again, and in whatever order the copies are read,
\* the inbox holds its text once for each time the filter has forgotten something
\* (src/web/routes/federation.ts, federationSeenRefs and rememberRef).
THEOREM OneCopyEach == Spec => []OneCopyPerEra
<1>1. Init => CopyInv
  <2> SUFFICES ASSUME Init PROVE RefOK /\ EraOK /\ OneCopyPerEra BY SystemBegins DEF CopyInv
  <2>1. inbox = <<>> /\ wire = {} /\ reading = {} BY DEF Init, InboxInit
  <2>2. DOMAIN inbox = {} BY <2>1
  <2> QED BY <2>1, <2>2 DEF RefOK, EraOK, OneCopyPerEra
<1>2. CopyInv => OneCopyPerEra BY DEF CopyInv
<1> QED BY <1>1, <1>2, CopyStep, PTL DEF Spec
----------------------------------------------------------------------------
(***************************************************************************)
(* A row marked delivered is in the inbox.                                 *)
(***************************************************************************)
\* The sender keeps its store; or one that has lost it is paired anew only after the
\* receiver has removed it, at a moment when none of its requests is being read.
Careful == MaxResets = 0 \/ (ReAdd /\ QuietRemoval)

RequestsOK ==
    \A q \in wire \cup reading :
        /\ q.ref = q.text[2] /\ q.ref # Foreign
        /\ q.text[1] \in 1 .. database /\ q.token <= minted

TokenOK == inboundToken = minted /\ outbound[ThePeer] <= minted

\* A sender that has lost its store has no peer until the receiver has removed it.
StaleOK == /\ database <= MaxResets + 1
           /\ stale => database > 1 /\ configured = {} /\ pc # "wire"

\* A request of an older database is turned away for its token.
WireOK == ~stale => \A q \in wire : q.text[1] = database \/ q.token < minted \/ ~known

ReadingOK == ~stale => \A q \in reading : q.text[1] = database

\* An entry of the filter names the copy that the sender's row of that id now has.
FilterOK ==
    \A k \in DOMAIN seenRefs : seenRefs[k].ref # Foreign =>
        /\ seenRefs[k].id \in DOMAIN inbox
        /\ inbox[seenRefs[k].id].text[2] = seenRefs[k].ref
        /\ ~stale => inbox[seenRefs[k].id].text[1] = database

\* A 2xx that the bridge is about to read is about its row.
AnswerOK == pc = "wire" /\ answer.kind = "2xx" => answer.id \in Copies(<<database, First(batch)>>)

ThereInv == /\ TypeOK
            /\ RequestsOK /\ TokenOK /\ StaleOK /\ WireOK /\ ReadingOK /\ FilterOK /\ AnswerOK
            /\ DeliveredIsThere

\* What a step does to the two sides' idea of each other.
Loses   == /\ database' = database + 1 /\ stale' = TRUE /\ database <= MaxResets
           /\ configured' = {} /\ pc' = "idle" /\ rows' = <<>>
           /\ UNCHANGED <<wire, inboxVars>>
Removes == /\ known' = FALSE /\ stale' = FALSE /\ (QuietRemoval => reading = {})
           /\ UNCHANGED <<database, minted, wire, reading>>
Mints   == /\ minted' = minted + 1 /\ UNCHANGED <<database, stale, wire, reading>>

LEMMA PairMoves ==
    ASSUME [Next]_vars
    PROVE  Loses \/ Removes \/ Mints \/ UNCHANGED <<database, stale, minted, known>>
<1>1. CASE Bridge \/ Paste \/ UNCHANGED vars
  BY <1>1 DEF Bridge, Paste, vars, inboxVars, link
<1>2. CASE LoseStore BY <1>2 DEF LoseStore, Forgotten, Loses
<1>3. CASE Inbox
  BY <1>3 DEF Inbox, Stranger, OwnerPosts, Switch, Rotate, AddCaller, InboxRestart, Mint,
              RemoveCaller, RemoveAllCallers, Removes, Mints, operator
<1>4. ASSUME NEW q, Send(q) \/ Unauthorized(q) \/ Admitted(q) \/ Handled(q)
      PROVE  UNCHANGED <<database, stale, minted, known>>
  BY <1>4 DEF Send, Unauthorized, Admitted, Handled, Admit, Replay, Insert, TurnDown, Answers,
              inboxVars, operator
<1> QED BY <1>1, <1>2, <1>3, <1>4 DEF Next

LEMMA ReadingMoves ==
    ASSUME [Next]_vars
    PROVE  reading' \subseteq reading \/ \E q \in wire : Authentic(q) /\ reading' = reading \cup {q}
<1>1. CASE Bridge \/ Paste \/ LoseStore \/ UNCHANGED vars
  BY <1>1 DEF Bridge, Paste, LoseStore, vars, inboxVars
<1>2. CASE Inbox
  BY <1>2 DEF Inbox, Stranger, OwnerPosts, Switch, Rotate, AddCaller, InboxRestart,
              RemoveCaller, RemoveAllCallers
<1>3. ASSUME NEW q, Send(q) \/ Unauthorized(q) \/ Handled(q) PROVE reading' \subseteq reading
  BY <1>3 DEF Send, Unauthorized, Handled, Replay, Insert, TurnDown, inboxVars
<1>4. ASSUME NEW q, Admitted(q) PROVE Authentic(q) /\ reading' = reading \cup {q}
  BY <1>4 DEF Admitted, Admit
<1> QED BY <1>1, <1>2, <1>3, <1>4 DEF Next

LEMMA InitThere == Init => ThereInv
<1> SUFFICES ASSUME Init PROVE ThereInv OBVIOUS
<1>1. TypeOK BY SystemBegins
<1>2. wire = {} /\ reading = {} /\ seenRefs = <<>> /\ rows = <<>> /\ pc = "idle"
  BY DEF Init, InboxInit, BridgeInit, Idle
<1>3. database = 1 /\ ~stale /\ inboundToken = 1 /\ minted = 1 BY DEF Init, InboxInit
<1>4. outbound[ThePeer] = 1 BY OnePeer DEF Init, BridgeInit
<1>5. RequestsOK /\ TokenOK /\ WireOK /\ ReadingOK
  BY <1>2, <1>3, <1>4 DEF RequestsOK, TokenOK, WireOK, ReadingOK
<1>6. StaleOK BY <1>3, FederationAssumption DEF StaleOK
<1>7. FilterOK /\ AnswerOK /\ DeliveredIsThere
  BY <1>2 DEF FilterOK, AnswerOK, DeliveredIsThere, Ids
<1> QED BY <1>1, <1>5, <1>6, <1>7 DEF ThereInv

LEMMA Numbers ==
    ASSUME TypeOK
    PROVE  /\ database \in Nat \ {0} /\ stale \in BOOLEAN /\ minted \in Nat /\ inboundToken \in Nat
           /\ outbound \in [Peer -> Nat] /\ outbound[ThePeer] \in Nat /\ MaxResets \in Nat
           /\ \A q \in wire \cup reading : /\ q.text[1] \in Nat /\ q.text[2] \in Nat
                                           /\ q.token \in Nat /\ q.ref \in Nat
                                           /\ q.text = <<q.text[1], q.text[2]>>
<1>1. wire \cup reading \subseteq Request /\ outbound \in [Peer -> Nat]
  BY DEF TypeOK, InboxTypeOK, BridgeTypeOK
<1>2. ASSUME NEW q \in wire \cup reading
      PROVE  /\ q.text[1] \in Nat /\ q.text[2] \in Nat /\ q.token \in Nat /\ q.ref \in Nat
             /\ q.text = <<q.text[1], q.text[2]>>
  BY <1>1 DEF Request, Text
<1>3. outbound[ThePeer] \in Nat BY <1>1, OnePeer
<1> QED BY <1>1, <1>2, <1>3, FederationAssumption DEF TypeOK, InboxTypeOK

LEMMA RequestsStep ==
    ASSUME TypeOK, RequestsOK, TokenOK, [Next]_vars
    PROVE  RequestsOK'
<1>1. reading' \subseteq reading \cup wire BY KeptTyped
<1>2. database' >= database /\ minted' >= minted /\ database' \in Nat /\ minted' \in Nat
  <2>1. database \in Nat /\ minted \in Nat BY Numbers
  <2>2. CASE Loses BY <2>1, <2>2 DEF Loses, inboxVars
  <2>3. CASE Removes BY <2>1, <2>3 DEF Removes
  <2>4. CASE Mints BY <2>1, <2>4 DEF Mints
  <2>5. CASE UNCHANGED <<database, stale, minted, known>> BY <2>1, <2>5
  <2> QED BY <2>2, <2>3, <2>4, <2>5, PairMoves
<1>3. ASSUME NEW q \in wire \cup reading
      PROVE  q.ref = q.text[2] /\ q.ref # Foreign /\ q.text[1] \in 1 .. database' /\ q.token <= minted'
  BY <1>2, Numbers DEF RequestsOK
<1>4. CASE wire' \subseteq wire BY <1>1, <1>3, <1>4 DEF RequestsOK
<1>5. ASSUME NEW m \in batch, Departs(m) PROVE RequestsOK'
  <2>1. PICK try : wire' = wire \cup {[text |-> <<database, m>>, ref |-> m,
                                       token |-> outbound[ThePeer], try |-> try]}
    BY <1>5 DEF Departs
  <2>2. PICK q : q = [text |-> <<database, m>>, ref |-> m,
                      token |-> outbound[ThePeer], try |-> try]
    OBVIOUS
  <2>3. m # Foreign BY <1>5 DEF Departs, Ids, TypeOK, BridgeTypeOK, Foreign
  <2>4. database \in 1 .. database' /\ outbound[ThePeer] <= minted'
    BY <1>2, Numbers DEF TokenOK
  <2>5. q.ref = q.text[2] /\ q.ref # Foreign /\ q.text[1] \in 1 .. database' /\ q.token <= minted'
    BY <2>2, <2>3, <2>4
  <2>6. wire' \cup reading' \subseteq (wire \cup reading) \cup {q} BY <1>1, <2>1, <2>2
  <2> QED BY <1>3, <2>5, <2>6 DEF RequestsOK
<1> QED BY <1>4, <1>5, WireMoves

LEMMA TokenStep ==
    ASSUME TypeOK, TokenOK, [Next]_vars
    PROVE  TokenOK'
<1>1. CASE UNCHANGED <<inboundToken, minted, outbound>> BY <1>1 DEF TokenOK
<1>2. CASE Bridge
  <2>1. UNCHANGED outbound
    BY <1>2 DEF Bridge, Post, Enable, Disable, RemovePeer, TimePasses, TickBegins, TickEnds,
                PassOver, Abandon, Refuse, Restart, CutAbandon, CutRefuse, CutShort, Returns,
                Accepted, CutAccepted, Rejected, CutRejected, Unanswered, Resume, config
  <2> QED BY <1>1, <1>2, <2>1 DEF Bridge, inboxVars
<1>3. CASE Paste
  <2>1. PICK p \in Peer : outbound' = [outbound EXCEPT ![p] = inboundToken]
    BY <1>3, OnePeer DEF Paste, AddPeer, PatchToken
  <2>2. UNCHANGED <<inboundToken, minted>> BY <1>3 DEF Paste, inboxVars
  <2>3. outbound'[ThePeer] = inboundToken BY <2>1, OnePeer, Numbers
  <2> QED BY <2>2, <2>3, Numbers DEF TokenOK
<1>4. CASE LoseStore
  <2>1. outbound'[ThePeer] = 0 BY <1>4, OnePeer, Numbers DEF LoseStore
  <2>2. UNCHANGED <<inboundToken, minted>> BY <1>4 DEF LoseStore, inboxVars
  <2> QED BY <2>1, <2>2, Numbers DEF TokenOK
<1>5. CASE Inbox
  <2>1. UNCHANGED outbound BY <1>5 DEF Inbox, bridgeVars, config
  <2>2. UNCHANGED <<inboundToken, minted>> \/ Mint
    BY <1>5 DEF Inbox, Stranger, OwnerPosts, Switch, Rotate, AddCaller, InboxRestart,
                RemoveCaller, RemoveAllCallers, operator
  <2> QED BY <2>1, <2>2, Numbers DEF TokenOK, Mint
<1>6. ASSUME NEW m, Send(m) PROVE UNCHANGED <<inboundToken, minted, outbound>>
  BY <1>6 DEF Send, Fetch, inboxVars, config
<1>7. ASSUME NEW q, Unauthorized(q) \/ Admitted(q) \/ Handled(q)
      PROVE  UNCHANGED <<inboundToken, minted, outbound>>
  BY <1>7 DEF Unauthorized, Admitted, Handled, Admit, Replay, Insert, TurnDown, Answers,
              inboxVars, operator, bridgeVars, config
<1>8. CASE UNCHANGED vars
  BY <1>1, <1>8 DEF vars, inboxVars, bridgeVars, config
<1> QED BY <1>1, <1>2, <1>3, <1>4, <1>5, <1>6, <1>7, <1>8 DEF Next

\* Only the owner who pastes a token adds the peer, and only a configured one is sent to.
LEMMA PairedMoves ==
    ASSUME TypeOK, [Next]_vars
    PROVE  \/ Paste
           \/ /\ configured' \subseteq configured
              /\ pc' = "wire" => pc = "wire" \/ configured # {}
<1>1. CASE Bridge
  BY <1>1 DEF Bridge, Post, Enable, Disable, RemovePeer, TimePasses, TickBegins, TickEnds,
              PassOver, Abandon, Refuse, Restart, Forgotten, CutAbandon, CutRefuse, CutShort, Returns,
              Accepted, CutAccepted, Rejected, CutRejected, Unanswered, Resume, config, tick
<1>2. CASE LoseStore BY <1>2 DEF LoseStore, Forgotten
<1>3. ASSUME NEW m \in batch, Send(m) PROVE configured' = configured /\ configured # {}
  BY <1>3 DEF Send, Fetch, Sendable, config
<1>4. ASSUME NEW q, Unauthorized(q) \/ Admitted(q) \/ Handled(q) PROVE UNCHANGED <<configured, pc>>
  BY <1>4 DEF Unauthorized, Admitted, Handled, Answers, bridgeVars, config, tick
<1>5. CASE Inbox \/ UNCHANGED vars
  BY <1>5 DEF Inbox, vars, bridgeVars, config, tick
<1> QED BY <1>1, <1>2, <1>3, <1>4, <1>5 DEF Next

LEMMA StaleStep ==
    ASSUME Careful, TypeOK, StaleOK, [Next]_vars
    PROVE  StaleOK'
<1>1. CASE Loses BY <1>1, Numbers DEF Loses, StaleOK
<1>2. CASE Removes BY <1>2 DEF Removes, StaleOK
<1>3. CASE UNCHANGED <<database, stale>>
  <2>1. CASE Paste
    <3>1. ~stale BY <2>1, Numbers DEF Paste, Careful, StaleOK
    <3> QED BY <1>3, <3>1 DEF StaleOK
  <2>2. CASE ~Paste BY <1>3, <2>2, PairedMoves DEF StaleOK
  <2> QED BY <2>1, <2>2
<1> QED BY <1>1, <1>2, <1>3, PairMoves DEF Mints

LEMMA WireStep ==
    ASSUME TypeOK, RequestsOK, WireOK, [Next]_vars
    PROVE  WireOK'
<1>1. CASE Loses BY <1>1 DEF Loses, WireOK
<1>2. CASE Removes BY <1>2 DEF Removes, WireOK
<1>3. CASE Mints
  <2>1. \A q \in wire : q.token < minted' BY <1>3, Numbers DEF RequestsOK, Mints
  <2> QED BY <1>3, <2>1 DEF Mints, WireOK
<1>4. CASE UNCHANGED <<database, stale, minted, known>>
  <2>1. CASE wire' \subseteq wire BY <1>4, <2>1 DEF WireOK
  <2>2. ASSUME NEW m \in batch, Departs(m) PROVE WireOK'
    <3>1. \A q \in wire' : q \in wire \/ q.text[1] = database BY <2>2 DEF Departs
    <3> QED BY <1>4, <3>1 DEF WireOK
  <2> QED BY <2>1, <2>2, WireMoves
<1> QED BY <1>1, <1>2, <1>3, <1>4, PairMoves

LEMMA ReadingStep ==
    ASSUME Careful, TypeOK, RequestsOK, TokenOK, StaleOK, WireOK, ReadingOK, [Next]_vars
    PROVE  ReadingOK'
<1>1. CASE Loses BY <1>1 DEF Loses, ReadingOK
<1>2. CASE Removes
  <2>1. \A q \in reading : q.text[1] = database
    BY <1>2, Numbers DEF Careful, Removes, RequestsOK, StaleOK
  <2> QED BY <1>2, <2>1 DEF Removes, ReadingOK
<1>3. CASE Mints BY <1>3 DEF Mints, ReadingOK
<1>4. CASE UNCHANGED <<database, stale, minted, known>>
  <2>1. CASE reading' \subseteq reading BY <1>4, <2>1 DEF ReadingOK
  <2>2. ASSUME NEW q \in wire, Authentic(q), reading' = reading \cup {q} PROVE ReadingOK'
    <3>1. ~stale => q.text[1] = database BY <2>2, Numbers DEF WireOK, Authentic, TokenOK
    <3> QED BY <1>4, <2>2, <3>1 DEF ReadingOK
  <2> QED BY <2>1, <2>2, ReadingMoves
<1> QED BY <1>1, <1>2, <1>3, <1>4, PairMoves

\* Rows of the inbox stay where they are.
InboxGrows == \A i \in DOMAIN inbox : i \in DOMAIN inbox' /\ inbox'[i] = inbox[i]

LEMMA InboxKept == ASSUME TypeOK, [Next]_vars PROVE InboxGrows
<1>0. inbox \in Seq(Carried) /\ era \in Nat /\ reading \subseteq Request
  BY DEF TypeOK, InboxTypeOK, Carried
<1>1. ASSUME NEW c, inbox' = Append(inbox, c), NEW i \in DOMAIN inbox
      PROVE  i \in DOMAIN inbox' /\ inbox'[i] = inbox[i]
  BY <1>0, <1>1
<1>2. CASE UNCHANGED inbox BY <1>2 DEF InboxGrows
<1>3. CASE \E c : inbox' = Append(inbox, c) BY <1>1, <1>3 DEF InboxGrows
<1>4. UNCHANGED inbox \/ \E c : inbox' = Append(inbox, c)
  BY InboxMoves DEF Accepts, Insert, OthersPost, Stranger, OwnerPosts, Forgets, FilterStands
<1> QED BY <1>2, <1>3, <1>4

LEMMA FilterStep ==
    ASSUME TypeOK, RequestsOK, ReadingOK, FilterOK, [Next]_vars
    PROVE  FilterOK'
<1>0. /\ inbox \in Seq(Carried) /\ era \in Nat /\ seenRefs \in Seq(Entry)
      /\ Len(seenRefs) <= DEDUP_CAP /\ reading \subseteq Request
  BY DEF TypeOK, InboxTypeOK, Carried, Entry
<1>g. InboxGrows BY InboxKept
<1>1. ASSUME NEW k \in DOMAIN seenRefs', NEW j \in DOMAIN seenRefs, seenRefs'[k] = seenRefs[j],
             seenRefs[j].ref # Foreign, UNCHANGED <<database, stale>> \/ stale' = TRUE
      PROVE  /\ seenRefs'[k].id \in DOMAIN inbox'
             /\ inbox'[seenRefs'[k].id].text[2] = seenRefs'[k].ref
             /\ ~stale' => inbox'[seenRefs'[k].id].text[1] = database'
  <2>1. PICK n : n = seenRefs[j].id OBVIOUS
  <2>2. n \in DOMAIN inbox /\ n \in DOMAIN inbox' /\ inbox'[n] = inbox[n]
    BY <1>g, <1>1, <2>1 DEF FilterOK, InboxGrows
  <2> QED BY <1>1, <2>1, <2>2 DEF FilterOK
<1>2. ASSUME NEW q, Accepts(q) PROVE FilterOK'
  <2>1. q \in Request /\ q.ref = q.text[2] /\ (~stale => q.text[1] = database)
    BY <1>0, <1>2 DEF Accepts, RequestsOK, ReadingOK
  <2>2. PICK n : n = Len(inbox) + 1 OBVIOUS
  <2>3. q.ref \in Nat /\ n \in Nat /\ rememberRef(q.ref, n)
    BY <1>0, <1>2, <2>1, <2>2 DEF Request, Accepts, Insert
  <2>4. PICK c : c = [text |-> q.text, era |-> era] OBVIOUS
  <2>5. c.text = q.text BY <2>4
  <2>6. inbox' = Append(inbox, c) BY <1>2, <2>4 DEF Accepts, Insert
  <2>7. n \in DOMAIN inbox' /\ inbox'[n] = c
    <3>1. c \in Carried BY <1>0, <2>1, <2>4 DEF Carried, Request
    <3> QED BY <1>0, <2>2, <2>6, <3>1
  <2>8. UNCHANGED <<database, stale>> BY <1>2 DEF Accepts
  <2>9. ASSUME NEW k \in DOMAIN seenRefs', seenRefs'[k] = [ref |-> q.ref, id |-> n]
        PROVE  /\ seenRefs'[k].id \in DOMAIN inbox'
               /\ inbox'[seenRefs'[k].id].text[2] = seenRefs'[k].ref
               /\ ~stale' => inbox'[seenRefs'[k].id].text[1] = database'
    <3>1. seenRefs'[k].id = n /\ seenRefs'[k].ref = q.ref BY <2>9
    <3> QED BY <2>1, <2>5, <2>7, <2>8, <3>1
  <2>10. \A k \in DOMAIN seenRefs' : \/ seenRefs'[k] = [ref |-> q.ref, id |-> n]
                                     \/ \E j \in DOMAIN seenRefs : seenRefs'[k] = seenRefs[j]
    BY <1>0, <2>3, Remembered
  <2> SUFFICES ASSUME NEW k \in DOMAIN seenRefs', seenRefs'[k].ref # Foreign
               PROVE  /\ seenRefs'[k].id \in DOMAIN inbox'
                      /\ inbox'[seenRefs'[k].id].text[2] = seenRefs'[k].ref
                      /\ ~stale' => inbox'[seenRefs'[k].id].text[1] = database'
    BY DEF FilterOK
  <2>11. CASE seenRefs'[k] = [ref |-> q.ref, id |-> n] BY <2>9, <2>11
  <2>12. ASSUME NEW j \in DOMAIN seenRefs, seenRefs'[k] = seenRefs[j]
         PROVE  /\ seenRefs'[k].id \in DOMAIN inbox'
                /\ inbox'[seenRefs'[k].id].text[2] = seenRefs'[k].ref
                /\ ~stale' => inbox'[seenRefs'[k].id].text[1] = database'
    BY <1>1, <2>8, <2>12
  <2> QED BY <2>10, <2>11, <2>12
<1>3. ASSUME UNCHANGED <<database, stale>> \/ stale' = TRUE,
             \A k \in DOMAIN seenRefs' : seenRefs'[k].ref = Foreign \/
                 \E j \in DOMAIN seenRefs : seenRefs'[k] = seenRefs[j]
      PROVE  FilterOK'
  <2> SUFFICES ASSUME NEW k \in DOMAIN seenRefs', seenRefs'[k].ref # Foreign
               PROVE  /\ seenRefs'[k].id \in DOMAIN inbox'
                      /\ inbox'[seenRefs'[k].id].text[2] = seenRefs'[k].ref
                      /\ ~stale' => inbox'[seenRefs'[k].id].text[1] = database'
    BY DEF FilterOK
  <2>1. PICK j \in DOMAIN seenRefs : seenRefs'[k] = seenRefs[j] BY <1>3
  <2> QED BY <1>1, <1>3, <2>1
<1>4. CASE OthersPost
  <2>1. CASE Stranger
    <3>1. rememberRef(Foreign, 0) /\ Foreign \in Nat /\ 0 \in Nat BY <2>1 DEF Stranger, Foreign
    <3>2. \A k \in DOMAIN seenRefs' : \/ seenRefs'[k] = [ref |-> Foreign, id |-> 0]
                                      \/ \E j \in DOMAIN seenRefs : seenRefs'[k] = seenRefs[j]
      BY <1>0, <3>1, Remembered
    <3> QED BY <1>3, <1>4, <3>2 DEF OthersPost
  <2>2. CASE UNCHANGED seenRefs BY <1>3, <1>4, <2>2 DEF OthersPost
  <2> QED BY <1>4, <2>1, <2>2 DEF OthersPost, OwnerPosts
<1>5. CASE Forgets
  <2>1. \A k \in DOMAIN seenRefs' : seenRefs'[k].ref = Foreign
    BY <1>0, <1>5, OthersTyped DEF Forgets
  <2> QED BY <2>1 DEF FilterOK
<1>6. CASE FilterStands BY <1>3, <1>6 DEF FilterStands
<1> QED BY <1>2, <1>4, <1>5, <1>6, InboxMoves

\* Only the handler's own answer to the awaited request puts a 2xx before the bridge.
LEMMA AnswerMoves ==
    ASSUME [Next]_vars, pc' = "wire", answer'.kind = "2xx"
    PROVE  /\ pc = "wire" /\ UNCHANGED <<batch, database>>
           /\ \/ UNCHANGED answer
              \/ \E q \in reading : /\ Awaited(q) /\ answer' = [kind |-> "2xx", id |-> answer'.id]
                                    /\ Replay(q, answer'.id) \/ Insert(q, answer'.id)
<1>1. CASE Bridge
  <2>1. answer' # None BY DEF None
  <2>2. /\ \/ \E big \in Oversize : Post(ThePeer, big)
           \/ Enable \/ Disable \/ RemovePeer(ThePeer)
           \/ TimePasses \/ TickBegins \/ TickEnds
           \/ \E m \in batch : PassOver(m) \/ Abandon(m) \/ Refuse(m)
        /\ UNCHANGED link
    BY <1>1, <2>1 DEF Bridge
  <2> QED BY <2>2 DEF Post, Enable, Disable, RemovePeer, TimePasses, TickBegins, TickEnds,
                      PassOver, Abandon, Refuse, Running, tick, link
<1>2. CASE Paste BY <1>2 DEF Paste, AddPeer, PatchToken, tick, link
<1>3. CASE LoseStore BY <1>3 DEF LoseStore, None
<1>4. CASE Inbox \/ UNCHANGED vars BY <1>4 DEF Inbox, vars, bridgeVars, tick, link
<1>5. ASSUME NEW m, Send(m) PROVE FALSE BY <1>5 DEF Send, None
<1>6. ASSUME NEW q, NEW kind, NEW id, Answers(q, kind, id)
      PROVE  /\ pc = "wire" /\ UNCHANGED <<batch, database>>
             /\ \/ UNCHANGED answer
                \/ Awaited(q) /\ kind = "2xx" /\ answer' = [kind |-> "2xx", id |-> id] /\ answer'.id = id
  BY <1>6 DEF Answers, bridgeVars, tick
<1>7. ASSUME NEW q, Unauthorized(q) PROVE pc = "wire" /\ UNCHANGED <<batch, database, answer>>
  BY <1>6, <1>7 DEF Unauthorized
<1>8. ASSUME NEW q, Admitted(q) PROVE pc = "wire" /\ UNCHANGED <<batch, database, answer>>
  BY <1>8 DEF Admitted, bridgeVars, tick
<1>9. ASSUME NEW q \in reading, Handled(q)
      PROVE  /\ pc = "wire" /\ UNCHANGED <<batch, database>>
             /\ \/ UNCHANGED answer
                \/ /\ Awaited(q) /\ answer' = [kind |-> "2xx", id |-> answer'.id]
                   /\ Replay(q, answer'.id) \/ Insert(q, answer'.id)
  <2>1. CASE TurnDown(q) /\ Answers(q, "4xx", 0) BY <1>6, <2>1
  <2>2. ASSUME NEW id, Replay(q, id) \/ Insert(q, id), Answers(q, "2xx", id)
        PROVE  /\ pc = "wire" /\ UNCHANGED <<batch, database>>
               /\ \/ UNCHANGED answer
                  \/ /\ Awaited(q) /\ answer' = [kind |-> "2xx", id |-> answer'.id]
                     /\ Replay(q, answer'.id) \/ Insert(q, answer'.id)
    BY <1>6, <2>2
  <2> QED BY <1>9, <2>1, <2>2 DEF Handled
<1> QED BY <1>1, <1>2, <1>3, <1>4, <1>5, <1>7, <1>8, <1>9 DEF Next

LEMMA AnswerStep ==
    ASSUME TypeOK, RequestsOK, StaleOK, FilterOK, AnswerOK, [Next]_vars
    PROVE  AnswerOK'
<1> SUFFICES ASSUME pc' = "wire", answer'.kind = "2xx"
             PROVE  /\ answer'.id \in DOMAIN inbox'
                    /\ inbox'[answer'.id].text = <<database', First(batch)'>>
  BY DEF AnswerOK, Copies
<1>0. inbox \in Seq(Carried) /\ reading \subseteq Request BY DEF TypeOK, InboxTypeOK, Carried
<1>1. InboxGrows BY InboxKept
<1>2. pc = "wire" /\ batch' = batch /\ database' = database BY AnswerMoves
<1>3. PICK m : m = First(batch) OBVIOUS
<1>4. First(batch)' = m BY <1>2, <1>3 DEF First
<1>5. PICK n : n = answer'.id OBVIOUS
<1>6. CASE UNCHANGED answer
  <2>1. n \in DOMAIN inbox /\ inbox[n].text = <<database, m>>
    BY <1>2, <1>3, <1>5, <1>6 DEF AnswerOK, Copies
  <2>2. n \in DOMAIN inbox' /\ inbox'[n] = inbox[n] BY <1>1, <2>1 DEF InboxGrows
  <2> QED BY <1>2, <1>4, <1>5, <2>1, <2>2
<1>7. ASSUME NEW q \in reading, Awaited(q), Replay(q, n) \/ Insert(q, n)
      PROVE  n \in DOMAIN inbox' /\ inbox'[n].text = <<database, m>>
  <2>1. q.text = <<database, m>> /\ q.ref = m /\ q.ref # Foreign
    BY <1>3, <1>7 DEF Awaited, RequestsOK
  <2>2. CASE Replay(q, n)
    <3>1. PICK k \in DOMAIN seenRefs : seenRefs[k].ref = m /\ seenRefs[k].id = n
      BY <2>1, <2>2 DEF Replay, Entries
    <3>2. ~stale BY <1>2 DEF StaleOK
    <3>3. n \in DOMAIN inbox /\ inbox[n].text[2] = m /\ inbox[n].text[1] = database
      BY <2>1, <3>1, <3>2 DEF FilterOK
    <3>4. inbox[n] \in Carried BY <1>0, <3>3
    <3>5. inbox[n].text = <<inbox[n].text[1], inbox[n].text[2]>> BY <3>4 DEF Carried, Text
    <3>6. n \in DOMAIN inbox' /\ inbox'[n] = inbox[n] BY <1>1, <3>3 DEF InboxGrows
    <3> QED BY <3>3, <3>5, <3>6
  <2>3. CASE Insert(q, n)
    <3>1. PICK c : c = [text |-> q.text, era |-> era] OBVIOUS
    <3>2. c \in Carried BY <1>0, <3>1 DEF TypeOK, InboxTypeOK, Request, Carried
    <3>3. n = Len(inbox) + 1 /\ inbox' = Append(inbox, c) BY <2>3, <3>1 DEF Insert
    <3>4. n \in DOMAIN inbox' /\ inbox'[n] = c BY <1>0, <3>2, <3>3
    <3> QED BY <2>1, <3>1, <3>4
  <2> QED BY <1>7, <2>2, <2>3
<1>8. UNCHANGED answer \/ \E q \in reading : Awaited(q) /\ (Replay(q, n) \/ Insert(q, n))
  BY <1>5, AnswerMoves
<1> QED BY <1>2, <1>4, <1>5, <1>6, <1>7, <1>8

\* No row becomes delivered.
NoneDelivered ==
    \A m \in Ids' : rows'[m].status = "delivered" =>
        /\ m \in Ids /\ rows[m].status = "delivered"
        /\ rows'[m].result = rows[m].result /\ rows'[m].remote = rows[m].remote

LEMMA DeliveryMoves ==
    ASSUME TypeOK, [Next]_vars
    PROVE  \/ LoseStore
           \/ \E m \in batch : /\ answer.kind = "2xx"
                               /\ Accepted(m, answer.id) \/ CutAccepted(m)
                               /\ UNCHANGED <<inboxVars, database>>
           \/ NoneDelivered /\ UNCHANGED database
<1>0. rows \in Seq(Row) /\ Ids = 1 .. Len(rows) /\ batch \subseteq Ids
  BY DEF TypeOK, BridgeTypeOK, Ids
<1>1. ASSUME UNCHANGED rows PROVE NoneDelivered BY <1>1 DEF NoneDelivered, Ids
<1>2. ASSUME NEW big, Post(ThePeer, big) PROVE NoneDelivered
  <2> DEFINE r == [to |-> ThePeer, big |-> big, created |-> clock,
                   status |-> "pending", result |-> "none", remote |-> 0,
                   told |-> 0, tries |-> 0, cut |-> FALSE]
  <2>1. rows' = Append(rows, r) /\ r.status # "delivered" BY <1>2 DEF Post
  <2> HIDE DEF r
  <2>2. ASSUME NEW m \in Ids' PROVE rows'[m] = r \/ (m \in Ids /\ rows'[m] = rows[m])
    BY <1>0, <2>1, <2>2 DEF Ids
  <2> QED BY <2>1, <2>2 DEF NoneDelivered
<1>3. ASSUME NEW S, NEW why, rows' = Purged(S, why) PROVE NoneDelivered
  <2>1. DOMAIN rows' = Ids /\ \A m \in Ids : rows'[m] = Purged(S, why)[m] BY <1>3 DEF Purged
  <2>2. ASSUME NEW m \in Ids PROVE rows'[m] = rows[m] \/ rows'[m].status = "failed"
    <3>1. rows[m] \in Row BY <1>0
    <3> QED BY <2>1, <3>1 DEF Purged, Row
  <2> QED BY <2>1, <2>2 DEF NoneDelivered, Ids
<1>4. ASSUME NEW m \in Ids, NEW r, rows' = [rows EXCEPT ![m] = r],
             \/ r.status # "delivered"
             \/ r.status = rows[m].status /\ r.result = rows[m].result /\ r.remote = rows[m].remote
      PROVE  NoneDelivered
  <2>1. Ids' = Ids /\ \A k \in Ids : rows'[k] = IF k = m THEN r ELSE rows[k]
    BY <1>0, <1>4 DEF Ids
  <2> QED BY <1>4, <2>1 DEF NoneDelivered
<1>5. ASSUME NEW m \in Ids, NEW why, FailAndTell(m, why) PROVE NoneDelivered
  <2>1. rows[m] \in Row BY <1>0
  <2>2. CASE rows[m].status = "pending"
    <3>1. rows' = [rows EXCEPT ![m] = [rows[m] EXCEPT !.status = "failed", !.result = why,
                                                      !.told = rows[m].told + 1]]
      BY <1>5, <2>2 DEF FailAndTell
    <3>2. [rows[m] EXCEPT !.status = "failed", !.result = why,
                          !.told = rows[m].told + 1].status # "delivered"
      BY <2>1 DEF Row
    <3> QED BY <1>4, <3>1, <3>2
  <2> QED BY <1>1, <1>5, <2>2 DEF FailAndTell
<1>6. ASSUME NEW m \in Ids, NEW why, CutShort(m, "failed", why) PROVE NoneDelivered
  <2>1. rows[m] \in Row BY <1>0
  <2>2. rows' = [rows EXCEPT ![m] = [rows[m] EXCEPT !.status = "failed", !.result = why, !.cut = TRUE]]
    BY <1>6 DEF CutShort
  <2>3. [rows[m] EXCEPT !.status = "failed", !.result = why, !.cut = TRUE].status # "delivered"
    BY <2>1 DEF Row
  <2> QED BY <1>4, <2>2, <2>3
<1>7. CASE Bridge
  <2>1. UNCHANGED <<inboxVars, database>> BY <1>7 DEF Bridge, link
  <2>2. ASSUME TimePasses \/ TickBegins \/ TickEnds \/ Enable \/ Restart PROVE NoneDelivered
    BY <1>1, <2>2 DEF TimePasses, TickBegins, TickEnds, Enable, Restart
  <2>3. ASSUME Disable \/ RemovePeer(ThePeer) PROVE NoneDelivered
    BY <1>3, <2>3 DEF Disable, RemovePeer
  <2>4. ASSUME NEW m \in batch, PassOver(m) \/ Abandon(m) \/ Refuse(m) \/ Rejected(m) \/ Unanswered(m)
        PROVE  NoneDelivered
    BY <1>0, <1>1, <1>5, <2>4 DEF PassOver, Abandon, Refuse, Rejected, Unanswered
  <2>5. ASSUME NEW m \in batch, CutAbandon(m) \/ CutRefuse(m) \/ CutRejected(m) PROVE NoneDelivered
    BY <1>0, <1>6, <2>5 DEF CutAbandon, CutRefuse, CutRejected
  <2> QED BY <1>2, <1>7, <2>1, <2>2, <2>3, <2>4, <2>5 DEF Bridge, Returns
<1>8. ASSUME Paste \/ Inbox \/ UNCHANGED vars PROVE NoneDelivered /\ UNCHANGED database
  BY <1>1, <1>8 DEF Paste, AddPeer, PatchToken, Inbox, bridgeVars, vars, link
<1>9. ASSUME NEW m \in batch, Send(m) PROVE NoneDelivered /\ UNCHANGED database
  <2>1. rows[m] \in Row /\ m \in Ids BY <1>0
  <2>2. rows' = [rows EXCEPT ![m] = [rows[m] EXCEPT !.tries = rows[m].tries + 1]]
    BY <1>9 DEF Send, Fetch
  <2>3. PICK r : r = [rows[m] EXCEPT !.tries = rows[m].tries + 1] OBVIOUS
  <2>4. r.status = rows[m].status /\ r.result = rows[m].result /\ r.remote = rows[m].remote
    BY <2>1, <2>3 DEF Row
  <2> QED BY <1>4, <1>9, <2>1, <2>2, <2>3, <2>4 DEF Send
<1>10. ASSUME NEW q, Unauthorized(q) \/ Admitted(q) \/ Handled(q)
       PROVE  UNCHANGED <<rows, database>>
  BY <1>10 DEF Unauthorized, Admitted, Handled, Answers, bridgeVars
<1> QED BY <1>1, <1>7, <1>8, <1>9, <1>10 DEF Next

\* What DeliveredIsThere says of a row whose fields are given.
Arrived(db, m, result, remote, box) ==
    IF result = "remote" THEN remote \in DOMAIN box /\ box[remote].text = <<db, m>>
                         ELSE \E i \in DOMAIN box : box[i].text = <<db, m>>

LEMMA ThereMeans ==
    DeliveredIsThere <=>
        \A m \in Ids : rows[m].status = "delivered" =>
            Arrived(database, m, rows[m].result, rows[m].remote, inbox)
BY DEF DeliveredIsThere, Arrived, Copies

LEMMA ThereMeansNext ==
    (\A m \in Ids' : rows'[m].status = "delivered" =>
        Arrived(database', m, rows'[m].result, rows'[m].remote, inbox')) => DeliveredIsThere'
BY DEF DeliveredIsThere, Arrived, Copies

LEMMA ThereStep ==
    ASSUME TypeOK, AnswerOK, DeliveredIsThere, [Next]_vars
    PROVE  DeliveredIsThere'
<1>0. rows \in Seq(Row) /\ Ids = 1 .. Len(rows) /\ batch \subseteq Ids
  BY DEF TypeOK, BridgeTypeOK, Ids
<1>1. InboxGrows BY InboxKept
<1>2. ASSUME NEW m \in Ids, rows[m].status = "delivered"
      PROVE  Arrived(database, m, rows[m].result, rows[m].remote, inbox')
  <2>1. Arrived(database, m, rows[m].result, rows[m].remote, inbox) BY <1>2, ThereMeans
  <2> QED BY <1>1, <2>1 DEF Arrived, InboxGrows
<1>3. CASE LoseStore
  <2>1. Ids' = {} BY <1>3 DEF LoseStore, Ids
  <2> QED BY <2>1, ThereMeansNext
<1>4. CASE NoneDelivered /\ UNCHANGED database
  BY <1>2, <1>4, ThereMeansNext DEF NoneDelivered
<1>5. ASSUME NEW m \in batch, answer.kind = "2xx", Accepted(m, answer.id) \/ CutAccepted(m),
             UNCHANGED <<inboxVars, database>>
      PROVE  DeliveredIsThere'
  <2>1. m \in Ids /\ rows[m] \in Row BY <1>0
  <2>2. pc = "wire" /\ m = First(batch) BY <1>5 DEF Accepted, CutAccepted, Resume, Awaiting
  <2>3. answer.id \in DOMAIN inbox /\ inbox[answer.id].text = <<database, m>>
    BY <1>5, <2>2 DEF AnswerOK, Copies
  <2>4. inbox' = inbox /\ database' = database BY <1>5 DEF inboxVars
  <2>5. ASSUME UNCHANGED rows PROVE DeliveredIsThere'
    BY <1>2, <2>4, <2>5, ThereMeansNext DEF Ids
  <2>6. ASSUME NEW r, rows' = [rows EXCEPT ![m] = r],
               Arrived(database, m, r.result, r.remote, inbox)
        PROVE  DeliveredIsThere'
    <3>1. Ids' = Ids /\ \A k \in Ids : rows'[k] = IF k = m THEN r ELSE rows[k]
      BY <1>0, <2>6 DEF Ids
    <3>2. ASSUME NEW k \in Ids, rows'[k].status = "delivered"
          PROVE  Arrived(database', k, rows'[k].result, rows'[k].remote, inbox')
      <4>1. CASE k = m BY <2>4, <2>6, <3>1, <4>1
      <4>2. CASE k # m
        <5>1. rows'[k] = rows[k] BY <3>1, <4>2
        <5> QED BY <1>2, <2>4, <3>2, <5>1
      <4> QED BY <4>1, <4>2
    <3> QED BY <3>1, <3>2, ThereMeansNext
  <2>7. ASSUME Accepted(m, answer.id), rows[m].status = "pending" PROVE DeliveredIsThere'
    <3>1. PICK r : r = [rows[m] EXCEPT !.status = "delivered", !.result = "remote", !.remote = answer.id]
      OBVIOUS
    <3>2. rows' = [rows EXCEPT ![m] = r] BY <2>7, <3>1 DEF Accepted
    <3>3. r.result = "remote" /\ r.remote = answer.id BY <2>1, <3>1 DEF Row
    <3>4. Arrived(database, m, r.result, r.remote, inbox) BY <2>3, <3>3 DEF Arrived
    <3> QED BY <2>6, <3>2, <3>4
  <2>8. ASSUME CutAccepted(m) PROVE DeliveredIsThere'
    <3>1. PICK r : r = [rows[m] EXCEPT !.status = "delivered", !.result = "none", !.cut = TRUE]
      OBVIOUS
    <3>2. rows' = [rows EXCEPT ![m] = r] BY <2>8, <3>1 DEF CutAccepted, CutShort
    <3>3. r.result = "none" BY <2>1, <3>1 DEF Row
    <3>4. Arrived(database, m, r.result, r.remote, inbox) BY <2>3, <3>3 DEF Arrived
    <3> QED BY <2>6, <3>2, <3>4
  <2> QED BY <1>5, <2>5, <2>7, <2>8 DEF Accepted
<1> QED BY <1>3, <1>4, <1>5, DeliveryMoves

LEMMA ThereInvStep ==
    ASSUME Careful, ThereInv, [Next]_vars
    PROVE  ThereInv'
<1> USE DEF ThereInv
<1>1. TypeOK' BY SystemTyped
<1>2. RequestsOK' /\ TokenOK' BY RequestsStep, TokenStep
<1>3. StaleOK' /\ WireOK' /\ ReadingOK' BY StaleStep, WireStep, ReadingStep
<1>4. FilterOK' BY FilterStep
<1>5. AnswerOK' /\ DeliveredIsThere' BY AnswerStep, ThereStep
<1> QED BY <1>1, <1>2, <1>3, <1>4, <1>5

\* A row marked delivered has its copy in the peer's inbox, and the id in its result is
\* that copy's, across lost and late answers, replays, rotated tokens, removals and
\* restarts, if a sender that has lost its store is removed by the receiver, with none of
\* its requests in hand, before it is paired again (routes/federation.ts, the inbox handler).
THEOREM DeliveredArrived == Careful => (Spec => []DeliveredIsThere)
<1> SUFFICES ASSUME Careful PROVE Spec => []DeliveredIsThere OBVIOUS
<1>1. ThereInv /\ [Next]_vars => ThereInv' BY ThereInvStep
<1>2. ThereInv => DeliveredIsThere BY DEF ThereInv
<1> QED BY <1>1, <1>2, InitThere, PTL DEF Spec
=============================================================================
