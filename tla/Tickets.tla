------------------------------ MODULE Tickets ------------------------------
(***************************************************************************)
(* One support ticket: its row, its messages, and the attachments in       *)
(* object storage.  A reply reads the status on a replica, uploads its     *)
(* attachment, and then writes the message, the attachment and the status  *)
(* in one transaction; replies of the user and of admins race, and an      *)
(* admin may set the status by hand at any time.                           *)
(***************************************************************************)
EXTENDS Integers, FiniteSets

CONSTANTS Repliers,     \* requests in flight at a time
          Admins,       \* the admins
          MaxMessages   \* bound on the messages begun

TicketStatuses == {"open", "answered", "user_replied", "resolved", "closed"}
TicketEnds == {"closed", "resolved"}
ReplyIdle == [op |-> "idle", m |-> 0, who |-> "none"]

VARIABLES
  ticket,    \* status, whether closed_at is set, the assigned admin
  seenStatus, \* the status a replica shows
  messages,  \* the messages committed, with their senders
  latest,    \* (history) who wrote the last message, and whether an admin set the status since
  uploads,   \* the messages whose attachment is stored
  strayed,   \* (history) attachments whose deletion failed
  rwait,     \* the replies in flight
  begun,     \* messages begun
  notices    \* in-app notices of replies: written, and under way

ticketVars == <<ticket, seenStatus, messages, latest, uploads, strayed, rwait, begun, notices>>

TicketInit ==
  /\ ticket = [status |-> "none", closedAt |-> FALSE, admin |-> "none"]
  /\ seenStatus = "none"
  /\ messages = {}
  /\ latest = "none"
  /\ uploads = {}
  /\ strayed = {}
  /\ rwait = [w \in Repliers |-> ReplyIdle]
  /\ begun = 0
  /\ notices = 0

Replies(w, op, m, who) == rwait' = [rwait EXCEPT ![w] = [op |-> op, m |-> m, who |-> who]]

\* handleCreateTicket_Support, once its attachment is stored: the ticket and
\* its first message in one transaction.
CreateTicket(w) ==
  /\ rwait[w] = ReplyIdle /\ begun < MaxMessages /\ ticket.status = "none"
  /\ begun' = begun + 1
  /\ Replies(w, "create", begun + 1, "user")
  /\ uploads' \in {uploads, uploads \cup {begun + 1}}
  /\ UNCHANGED <<ticket, seenStatus, messages, latest, strayed, notices>>

\* handleSendTicketMessage and handleAdminSendMessage refuse a ticket that the
\* replica shows as ended, and then store the attachment.
BeginReply(w, who) ==
  /\ rwait[w] = ReplyIdle /\ begun < MaxMessages
  /\ seenStatus \notin TicketEnds \cup {"none"}
  /\ begun' = begun + 1
  /\ Replies(w, "reply", begun + 1, who)
  /\ uploads' \in {uploads, uploads \cup {begun + 1}}
  /\ UNCHANGED <<ticket, seenStatus, messages, latest, strayed, notices>>

CommitTicket(w) ==
  /\ rwait[w].op = "create" /\ ticket.status = "none"
  /\ Replies(w, "idle", 0, "none")
  /\ ticket' = [ticket EXCEPT !.status = "open"]
  /\ messages' = messages \cup {rwait[w].m}
  /\ latest' = "user"
  /\ UNCHANGED <<seenStatus, uploads, strayed, begun, notices>>

\* A reply of the user that reopens answered tickets only.
UserReplyOnlyAnswered(w) ==
  /\ rwait[w].op = "reply" /\ rwait[w].who = "user"
  /\ Replies(w, "idle", 0, "none")
  /\ LET s == IF ticket.status = "answered" THEN "user_replied" ELSE ticket.status IN
       ticket' = [ticket EXCEPT !.status = s]
  /\ messages' = messages \cup {rwait[w].m}
  /\ latest' = "user"
  /\ UNCHANGED <<seenStatus, uploads, strayed, begun, notices>>

\* The user's reply: every status but open becomes user_replied, an end that
\* was reached meanwhile included; closed_at stays.
UserReply(w) ==
  /\ rwait[w].op = "reply" /\ rwait[w].who = "user"
  /\ Replies(w, "idle", 0, "none")
  /\ LET s == IF ticket.status = "open" THEN "open" ELSE "user_replied" IN
       ticket' = [ticket EXCEPT !.status = s]
  /\ messages' = messages \cup {rwait[w].m}
  /\ latest' = "user"
  /\ UNCHANGED <<seenStatus, uploads, strayed, begun, notices>>

\* An admin's reply assigns the ticket when nobody has it; a goroutine then
\* writes the notice.
AdminReply(w) ==
  /\ rwait[w].op = "reply" /\ rwait[w].who \in Admins
  /\ Replies(w, "idle", 0, "none")
  /\ ticket' = [ticket EXCEPT !.status = "answered",
                              !.admin = IF @ = "none" THEN rwait[w].who ELSE @]
  /\ messages' = messages \cup {rwait[w].m}
  /\ latest' = "admin"
  /\ notices' \in {notices, notices + 1}
  /\ UNCHANGED <<seenStatus, uploads, strayed, begun>>

\* A transaction that fails deletes the attachment, or leaves it astray.
ReplyFails(w) ==
  /\ rwait[w].op \in {"create", "reply"}
  /\ Replies(w, "idle", 0, "none")
  /\ \/ uploads' = uploads \ {rwait[w].m} /\ UNCHANGED strayed
     \/ strayed' = strayed \cup ({rwait[w].m} \cap uploads) /\ UNCHANGED uploads
  /\ UNCHANGED <<ticket, seenStatus, messages, latest, begun, notices>>

\* handleCloseTicket_Support
CloseTicket ==
  /\ ticket.status \notin TicketEnds \cup {"none"}
  /\ ticket' = [ticket EXCEPT !.status = "closed", !.closedAt = TRUE]
  /\ latest' = "byHand"
  /\ UNCHANGED <<seenStatus, messages, uploads, strayed, rwait, begun, notices>>

\* handleAdminUpdateStatus: any status, and closed_at with it.
AdminUpdateStatus(s) ==
  /\ ticket.status # "none"
  /\ ticket' = [ticket EXCEPT !.status = s, !.closedAt = s \in TicketEnds]
  /\ latest' = "byHand"
  /\ UNCHANGED <<seenStatus, messages, uploads, strayed, rwait, begun, notices>>

AdminAssignTicket(a) ==
  /\ ticket.status # "none" /\ ticket.admin # a
  /\ ticket' = [ticket EXCEPT !.admin = a]
  /\ UNCHANGED <<seenStatus, messages, latest, uploads, strayed, rwait, begun, notices>>

\* The replica catches up.
ReplicaCatchesUp ==
  /\ seenStatus # ticket.status
  /\ seenStatus' = ticket.status
  /\ UNCHANGED <<ticket, messages, latest, uploads, strayed, rwait, begun, notices>>

TicketNext ==
  \/ \E w \in Repliers :
       \/ CreateTicket(w) \/ CommitTicket(w) \/ UserReply(w) \/ AdminReply(w) \/ ReplyFails(w)
       \/ \E who \in Admins \cup {"user"} : BeginReply(w, who)
  \/ CloseTicket \/ ReplicaCatchesUp
  \/ \E s \in TicketStatuses : AdminUpdateStatus(s)
  \/ \E a \in Admins : AdminAssignTicket(a)

\* A message of the user never gets lost in a ticket that looks dealt with:
\* while it is the last word (no reply, and no status set by hand, since) the
\* ticket waits for support, even if it was answered or closed while the
\* message was on its way; and an answered ticket has somebody in charge.
LastWordAwaitsSupport ==
  /\ latest = "user" => ticket.status \in {"open", "user_replied"}
  /\ latest = "admin" => ticket.status = "answered" /\ ticket.admin \in Admins
  /\ messages \cap strayed = {}
=============================================================================
