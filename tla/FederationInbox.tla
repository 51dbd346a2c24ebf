-------------------------- MODULE FederationInbox --------------------------
(***************************************************************************)
(* The inbound half of federation, seen by one peer: the gate that knows   *)
(* the caller by his token (src/web/auth-gate.ts), the inbox handler with  *)
(* its in-memory duplicate filter (src/web/routes/federation.ts), and the  *)
(* operator's handlers.  The handler awaits the body of the request        *)
(* between the gate and everything else it does.                           *)
(***************************************************************************)
EXTENDS Naturals, Sequences, FiniteSets

CONSTANTS
    DEDUP_CAP,
    QuietRemoval,   \* the operator removes a peer only when no request is being read
    MaxInboxEdits, MaxInboxRestarts, MaxStrangers,  \* bounds
    MaxInboxTroubles                                \* bound on the three together

ASSUME InboxAssumption ==
    /\ DEDUP_CAP \in Nat \ {0} /\ QuietRemoval \in BOOLEAN
    /\ {MaxInboxEdits, MaxInboxRestarts, MaxStrangers, MaxInboxTroubles} \subseteq Nat

VARIABLES
    open,        \* enabled
    known,       \* the peer is in federation.json
    inboundToken,\* his token, while he is known
    minted,      \* tokens minted so far
    inbox,       \* rows created: the text, and the era it was accepted in
    \* --- memory, lost on restart ---
    seenRefs,    \* the filter's entries, oldest first
    reading,     \* requests admitted whose body is awaited
    \* --- history ---
    era,         \* how often the filter has forgotten something
    inboxSpent

inboxVars == <<open, known, inboundToken, minted, inbox, seenRefs, reading, era, inboxSpent>>

(***************************************************************************)
(* A request: the text, the sender's row id (ref), the token presented and *)
(* which attempt at the row it is.  A text is <<database, row id>>; texts  *)
(* of database 0 are other people's.                                       *)
(***************************************************************************)
Text    == Nat \X Nat
Request == [text : Text, ref : Nat, token : Nat, try : Nat]
Foreign == 0      \* stands for the refs of other peers, which share the filter

InboxInit ==
    /\ open = TRUE /\ known = TRUE /\ inboundToken = 1 /\ minted = 1
    /\ inbox = <<>> /\ seenRefs = <<>> /\ reading = {}
    /\ era = 0 /\ inboxSpent = [edits |-> 0, restarts |-> 0, strangers |-> 0]

InboxSpend(what, bound) ==
    /\ inboxSpent[what] < bound
    /\ inboxSpent.edits + inboxSpent.restarts + inboxSpent.strangers < MaxInboxTroubles
    /\ inboxSpent' = [inboxSpent EXCEPT ![what] = @ + 1]

operator == <<open, known, inboundToken, minted>>
----------------------------------------------------------------------------
\* identifyFederationCaller finds the peer; the switch is read here and not again.
Authentic(q) == open /\ known /\ q.token = inboundToken

Admit(q) ==
    /\ Authentic(q)
    /\ reading' = reading \cup {q}
    /\ UNCHANGED <<operator, inbox, seenRefs, era, inboxSpent>>

\* rememberRef: over the cap the oldest entry goes.
rememberRef(ref, id) ==
    IF Len(seenRefs) >= DEDUP_CAP
    THEN /\ seenRefs' = Append(Tail(seenRefs), [ref |-> ref, id |-> id])
         /\ era' = era + 1
    ELSE /\ seenRefs' = Append(seenRefs, [ref |-> ref, id |-> id])
         /\ UNCHANGED era

Entries(ref) == {i \in DOMAIN seenRefs : seenRefs[i].ref = ref}

\* The ref is known: the acknowledgement is replayed with the id of the first copy.
Replay(q, id) ==
    /\ q \in reading
    /\ \E i \in Entries(q.ref) : seenRefs[i].id = id
    /\ reading' = reading \ {q}
    /\ UNCHANGED <<operator, inbox, seenRefs, era, inboxSpent>>

\* Mutant: the filter is not consulted after the body has been read.
Insert_unchecked(q, id) ==
    /\ q \in reading
    /\ id = Len(inbox) + 1
    /\ inbox' = Append(inbox, [text |-> q.text, era |-> era])
    /\ rememberRef(q.ref, id)
    /\ reading' = reading \ {q}
    /\ UNCHANGED <<operator, inboxSpent>>

\* createAgentMessage and rememberRef.
Insert(q, id) ==
    /\ q \in reading /\ Entries(q.ref) = {}
    /\ id = Len(inbox) + 1
    /\ inbox' = Append(inbox, [text |-> q.text, era |-> era])
    /\ rememberRef(q.ref, id)
    /\ reading' = reading \ {q}
    /\ UNCHANGED <<operator, inboxSpent>>

\* validateInboxPayload: the recipient is not, or no longer, an agent here.
TurnDown(q) ==
    /\ q \in reading
    /\ reading' = reading \ {q}
    /\ UNCHANGED <<operator, inbox, seenRefs, era, inboxSpent>>

\* Another peer's message passes through the same filter; which id stands for it there
\* does not matter here.
Stranger ==
    /\ open /\ InboxSpend("strangers", MaxStrangers)
    /\ inbox' = Append(inbox, [text |-> <<0, 0>>, era |-> era])
    /\ rememberRef(Foreign, 0)
    /\ UNCHANGED <<operator, reading>>

\* The owner posts in the peer's name with the dashboard's token: the filter stands aside.
OwnerPosts(ref) ==
    /\ open /\ known /\ InboxSpend("strangers", MaxStrangers)
    /\ inbox' = Append(inbox, [text |-> <<0, ref>>, era |-> era])
    /\ UNCHANGED <<operator, seenRefs, reading, era>>
----------------------------------------------------------------------------
(***************************************************************************)
(* The operator's handlers, and restarts.                                  *)
(***************************************************************************)
Switch ==
    /\ InboxSpend("edits", MaxInboxEdits)
    /\ open' = ~open
    /\ UNCHANGED <<known, inboundToken, minted, inbox, seenRefs, reading, era>>

Mint == minted' = minted + 1 /\ inboundToken' = minted + 1

Rotate ==
    /\ known /\ InboxSpend("edits", MaxInboxEdits)
    /\ Mint
    /\ UNCHANGED <<open, known, inbox, seenRefs, reading, era>>

\* Mutant: the filter keeps the entries of the peer that goes.
RemoveCaller_keeps ==
    /\ known /\ InboxSpend("edits", MaxInboxEdits)
    /\ QuietRemoval => reading = {}
    /\ known' = FALSE
    /\ UNCHANGED <<open, inboundToken, minted, inbox, seenRefs, reading, era>>

\* purgeInboxDedup(id): only the entries of the others are left.
OthersKept == [i \in 1 .. Cardinality(Entries(Foreign)) |-> [ref |-> Foreign, id |-> 0]]

\* The peer is removed, and its entries purged; a request in hand goes on.
RemoveCaller ==
    /\ known /\ InboxSpend("edits", MaxInboxEdits)
    /\ QuietRemoval => reading = {}
    /\ known' = FALSE
    /\ seenRefs' = OthersKept
    /\ era' = era + 1
    /\ UNCHANGED <<open, inboundToken, minted, inbox, reading>>

\* Full removal: the switch off, every entry gone.
RemoveAllCallers ==
    /\ InboxSpend("edits", MaxInboxEdits)
    /\ QuietRemoval => reading = {}
    /\ open' = FALSE /\ known' = FALSE
    /\ seenRefs' = <<>> /\ era' = era + 1
    /\ UNCHANGED <<inboundToken, minted, inbox, reading>>

AddCaller ==
    /\ ~known /\ InboxSpend("edits", MaxInboxEdits)
    /\ known' = TRUE
    /\ Mint
    /\ UNCHANGED <<open, inbox, seenRefs, reading, era>>

InboxRestart ==
    /\ InboxSpend("restarts", MaxInboxRestarts)
    /\ seenRefs' = <<>> /\ reading' = {} /\ era' = era + 1
    /\ UNCHANGED <<operator, inbox>>
----------------------------------------------------------------------------
InboxTypeOK ==
    /\ {open, known} \subseteq BOOLEAN
    /\ inboundToken \in Nat /\ minted \in Nat /\ era \in Nat
    /\ inbox \in Seq([text : Text, era : Nat])
    /\ seenRefs \in Seq([ref : Nat, id : Nat]) /\ Len(seenRefs) <= DEDUP_CAP
    /\ reading \subseteq Request
    /\ inboxSpent \in [{"edits", "restarts", "strangers"} -> Nat]
=============================================================================
