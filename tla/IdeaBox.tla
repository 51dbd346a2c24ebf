------------------------------- MODULE IdeaBox -------------------------------
(* Ideas and the kanban cards they were promoted to: routes/ideas.ts, and the *)
(* handlers of routes/kanban.ts that take a promoted idea back when its card  *)
(* is archived or deleted, or leave it as it is.  The two tables are written  *)
(* by separate statements with no transaction around them: "pending" is the   *)
(* statement a request has still to make, and a crash drops it.               *)
EXTENDS Integers

CONSTANTS Idea, BoardCard
NoIdea == "noIdea"
NoLink == "noLink"

VARIABLES
  ideas,    \* table idea_box: status and kanban_id
  board,    \* the cards: "none", "live", "archived", put "aside" in the archive, "deleted"
  pending,  \* the next statement of the request at work
  claimed   \* history: links that a PUT, not a promotion, has given an idea with status 'kanban'

ibVars == <<ideas, board, pending, claimed>>

NoRequest == [op |-> "idle"]
IdeaStatuses == {"none", "new", "reviewed", "rejected", "kanban"}
Statements == [op : {"link", "archive", "delete"}, idea : Idea \cup {NoIdea}, card : BoardCard]

IBInit ==
  /\ ideas = [i \in Idea |-> [status |-> "none", link |-> NoLink]]
  /\ board = [c \in BoardCard |-> "none"] /\ pending = NoRequest /\ claimed = {}

Quiet == pending = NoRequest
Held(i) == ideas[i].status # "none"

CreateIdea(i) ==
  /\ Quiet /\ ~Held(i) /\ ideas' = [ideas EXCEPT ![i] = [status |-> "new", link |-> NoLink]]
  /\ UNCHANGED <<board, pending, claimed>>

\* PUT of an idea: any status and any kanban_id, looked up nowhere; NoLink also stands for
\* an id that no card has
UpdateIdea(i, s, l) ==
  /\ Quiet /\ Held(i)
  /\ l \in BoardCard => board[l] # "none"
  /\ ideas' = [ideas EXCEPT ![i] = [status |-> s, link |-> l]]
  /\ claimed' = IF s = "kanban" /\ ideas[i] # [status |-> s, link |-> l] THEN claimed \cup {l} ELSE claimed
  /\ UNCHANGED <<board, pending>>

DeleteIdea(i) ==
  /\ Quiet /\ Held(i) /\ ideas' = [ideas EXCEPT ![i] = [status |-> "none", link |-> NoLink]]
  /\ UNCHANGED <<board, pending, claimed>>

\* Mutant: the idea is linked before its card is there.
Promote_linkFirst(i, c) ==
  /\ Quiet /\ Held(i) /\ board[c] = "none"
  /\ ideas' = [ideas EXCEPT ![i] = [status |-> "kanban", link |-> c]]
  /\ pending' = [op |-> "link", idea |-> i, card |-> c]
  /\ UNCHANGED <<board, claimed>>

(* promote, promote-breakdown: the card first, under a new id *)
Promote(i, c) ==
  /\ Quiet /\ Held(i) /\ board[c] = "none" /\ board' = [board EXCEPT ![c] = "live"]
  /\ pending' = [op |-> "link", idea |-> i, card |-> c]
  /\ UNCHANGED <<ideas, claimed>>

LinkIdea ==
  /\ pending.op = "link" /\ pending' = NoRequest
  /\ ideas' = [ideas EXCEPT ![pending.idea] = [status |-> "kanban", link |-> pending.card]]
  /\ UNCHANGED <<board, claimed>>

\* revertIdeaFromKanban: one idea that is on the board as this card, if there is one
Reverted(c) ==
  LET S == {i \in Idea : ideas[i].status = "kanban" /\ ideas[i].link = c}
  IN IF S = {} THEN {ideas}
     ELSE {[ideas EXCEPT ![i] = [status |-> "reviewed", link |-> NoLink]] : i \in S}

RevertIdea(i) ==
  /\ Quiet /\ ideas[i].status = "kanban"
  /\ ideas' = [ideas EXCEPT ![i] = [status |-> "reviewed", link |-> NoLink]]
  /\ UNCHANGED <<board, pending, claimed>>

(* archive and delete: the idea first, then the card *)
TakeOff(c, op) ==
  /\ Quiet /\ board[c] \notin {"none", "deleted"} /\ ideas' \in Reverted(c)
  /\ pending' = [op |-> op, idea |-> NoIdea, card |-> c]
  /\ UNCHANGED <<board, claimed>>

ArchiveOrDelete ==
  /\ pending.op \in {"archive", "delete"} /\ pending' = NoRequest
  /\ board' = [board EXCEPT ![pending.card] = IF pending.op = "archive" THEN "archived" ELSE "deleted"]
  /\ UNCHANGED <<ideas, claimed>>

\* Done cards go into the archive by themselves, and PUT of a card takes archived_at: both
\* leave the idea promoted.
PutAside(c) ==
  /\ Quiet /\ board[c] = "live" /\ board' = [board EXCEPT ![c] = "aside"]
  /\ UNCHANGED <<ideas, pending, claimed>>

\* the unarchive request, or PUT with archived_at null
Unarchive(c) ==
  /\ Quiet /\ board[c] \in {"archived", "aside"} /\ board' = [board EXCEPT ![c] = "live"]
  /\ UNCHANGED <<ideas, pending, claimed>>

CrashMidway == ~Quiet /\ pending' = NoRequest /\ UNCHANGED <<ideas, board, claimed>>

IBNext ==
  \/ \E i \in Idea :
       \/ CreateIdea(i) \/ DeleteIdea(i) \/ RevertIdea(i)
       \/ \E s \in IdeaStatuses \ {"none"}, l \in BoardCard \cup {NoLink} : UpdateIdea(i, s, l)
       \/ \E c \in BoardCard : Promote(i, c)
  \/ LinkIdea \/ ArchiveOrDelete \/ CrashMidway
  \/ \E c \in BoardCard :
       \/ TakeOff(c, "archive") \/ TakeOff(c, "delete")
       \/ PutAside(c) \/ Unarchive(c)

IBSpec == IBInit /\ [][IBNext]_ibVars

-----------------------------------------------------------------------------
IBTypeOK ==
  /\ ideas \in [Idea -> [status : IdeaStatuses, link : BoardCard \cup {NoLink}]]
  /\ board \in [BoardCard -> {"none", "live", "archived", "aside", "deleted"}]
  /\ pending \in Statements \cup {NoRequest} /\ claimed \subseteq BoardCard \cup {NoLink}

\* An idea that counts as promoted has its card: it is not deleted, nor was it archived by
\* the request that takes the idea back, whatever was promoted again, edited in between or
\* cut short by a crash.  Excepted are cards that a PUT of an idea has claimed: a deletion
\* takes back one of the ideas that point at a card, and there may then be two.
PromotedHasCard ==
  \A i \in Idea : ideas[i].status = "kanban" /\ ideas[i].link \notin claimed =>
    ideas[i].link \in BoardCard /\ board[ideas[i].link] \in {"live", "aside"}
=============================================================================
