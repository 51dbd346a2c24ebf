----------------------------- MODULE Federation -----------------------------
(***************************************************************************)
(* Two systems: the bridge of one (FederationBridge) and the inbox of the  *)
(* other (FederationInbox), with the network between them.  A POST may be  *)
(* lost, may be processed long after the bridge has stopped waiting for    *)
(* it, and its answer may be lost.  The sender may lose its whole store    *)
(* and be paired again.                                                    *)
(***************************************************************************)
EXTENDS FederationBridge, FederationInbox

CONSTANTS
    ReAdd,       \* a sender that has lost its store is removed and added anew
    MaxResets    \* bound

ThePeer == CHOOSE x \in Peer : TRUE

ASSUME FederationAssumption ==
    /\ Peer = {ThePeer} /\ ReAdd \in BOOLEAN /\ MaxResets \in Nat

VARIABLES
    wire,        \* POSTs that have left and not arrived
    answer,      \* what has come back for the POST the bridge awaits
    database,    \* 1, 2, ...: the sender's database, whose row ids begin at 1
    stale        \* history: the receiver has not removed us since that database was begun

link == <<wire, answer, database, stale>>
vars == <<bridgeVars, inboxVars, link>>

None == [kind |-> "none", id |-> 0]

Init == /\ BridgeInit /\ InboxInit
        /\ wire = {} /\ answer = None /\ database = 1 /\ stale = FALSE
----------------------------------------------------------------------------
(***************************************************************************)
(* The wire.                                                               *)
(***************************************************************************)
Send(m) ==
    /\ Fetch(m)
    /\ wire' = wire \cup {[text |-> <<database, m>>, ref |-> m,
                           token |-> outbound[ThePeer], try |-> rows'[m].tries]}
    /\ answer' = None
    /\ UNCHANGED <<inboxVars, database, stale>>

\* The request the bridge is waiting for; one it has given up has no listener.
Awaited(q) == /\ pc = "wire"
              /\ q.text = <<database, First(batch)>> /\ q.try = rows[First(batch)].tries

Answers(q, kind, id) ==
    /\ answer' = IF Awaited(q) THEN [kind |-> kind, id |-> id] ELSE answer
    /\ UNCHANGED <<bridgeVars, database, stale>>

Arrives(q) == q \in wire /\ wire' = wire \ {q}

Unauthorized(q) == Arrives(q) /\ ~Authentic(q) /\ Answers(q, "401", 0) /\ UNCHANGED inboxVars

Admitted(q) == Arrives(q) /\ Admit(q) /\ UNCHANGED <<bridgeVars, answer, database, stale>>

Handled(q) ==
    /\ UNCHANGED wire
    /\ \/ \E id \in 1 .. Len(inbox) : Replay(q, id) /\ Answers(q, "2xx", id)
       \/ \E id \in {Len(inbox) + 1} : Insert(q, id) /\ Answers(q, "2xx", id)
       \/ TurnDown(q) /\ Answers(q, "4xx", 0)
----------------------------------------------------------------------------
(***************************************************************************)
(* What the bridge makes of the answer.                                    *)
(***************************************************************************)
\* The answer is read, or the await times out or fails, whatever has become of the POST.
Returns(m) ==
    \/ answer.kind = "2xx" /\ (Accepted(m, answer.id) \/ CutAccepted(m))
    \/ answer.kind = "4xx" /\ (Rejected(m) \/ CutRejected(m))
    \/ Unanswered(m)

Bridge ==
    /\ UNCHANGED inboxVars
    /\ \/ /\ \/ \E big \in Oversize : Post(ThePeer, big)
             \/ Enable \/ Disable \/ RemovePeer(ThePeer)
             \/ TimePasses \/ TickBegins \/ TickEnds
             \/ \E m \in batch : PassOver(m) \/ Abandon(m) \/ Refuse(m)
          /\ UNCHANGED link
       \/ /\ Restart \/ \E m \in batch : Returns(m) \/ CutAbandon(m) \/ CutRefuse(m)
          /\ answer' = None /\ UNCHANGED <<wire, database, stale>>

\* The owner pastes the token the other side shows for us now.
Paste ==
    /\ known /\ (ReAdd => ~stale)
    /\ \/ ThePeer \in configured /\ outbound[ThePeer] # inboundToken /\ PatchToken(ThePeer, inboundToken)
       \/ AddPeer(ThePeer, inboundToken)
    /\ UNCHANGED <<inboxVars, link>>

\* The sender's store is lost, its rows and its federation.json with it.
LoseStore ==
    /\ database <= MaxResets /\ database' = database + 1 /\ stale' = TRUE
    /\ Forgotten /\ rows' = <<>> /\ enabled' = FALSE /\ configured' = {}
    /\ outbound' = [outbound EXCEPT ![ThePeer] = 0]
    /\ answer' = None
    /\ UNCHANGED <<clock, spent, inboxVars, wire>>

Inbox ==
    /\ UNCHANGED <<bridgeVars, wire, answer, database>>
    /\ \/ /\ \/ Stranger \/ \E ref \in Ids : OwnerPosts(ref)
             \/ Switch \/ Rotate \/ AddCaller \/ InboxRestart
          /\ UNCHANGED stale
       \/ (RemoveCaller \/ RemoveAllCallers) /\ stale' = FALSE

Next ==
    \/ Bridge \/ Paste \/ LoseStore \/ Inbox
    \/ \E m \in batch : Send(m)
    \/ \E q \in wire : Unauthorized(q) \/ Admitted(q)
    \/ \E q \in reading : Handled(q)

Spec == Init /\ [][Next]_vars
----------------------------------------------------------------------------
TypeOK ==
    /\ BridgeTypeOK /\ InboxTypeOK
    /\ wire \subseteq Request
    /\ answer \in [kind : {"none", "2xx", "401", "4xx"}, id : Nat]
    /\ database \in Nat \ {0} /\ stale \in BOOLEAN

Copies(text) == {i \in DOMAIN inbox : inbox[i].text = text}

\* A row marked delivered has arrived, and the id recorded in its result names the copy
\* that carries its text: whatever was retried, answered late or replayed by the filter,
\* and whatever the owner posted under the same ref with his own token.
DeliveredIsThere ==
    \A m \in Ids : rows[m].status = "delivered" =>
        IF rows[m].result = "remote" THEN rows[m].remote \in Copies(<<database, m>>)
                                     ELSE Copies(<<database, m>>) # {}

\* However often a text is sent, and in whatever order the copies are handled, it enters
\* the inbox once for each time the filter forgets: a restart, a removal, an eviction.
OneCopyPerEra ==
    \A i, j \in DOMAIN inbox :
        inbox[i].text = inbox[j].text /\ inbox[i].text[1] # 0 /\ inbox[i].era = inbox[j].era => i = j
=============================================================================
