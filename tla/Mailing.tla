------------------------------ MODULE Mailing ------------------------------
(***************************************************************************)
(* What the platform writes to its users: the e-mail templates the admins  *)
(* edit, the mails sent with them, and the in-app inbox with its           *)
(* preferences.                                                            *)
(*                                                                         *)
(* The scheduler resolves a template when it renders a mail: the active    *)
(* version of email_template_versions, else email_templates.html_content,  *)
(* else the template compiled into the binary, which is all that services  *)
(* without an override store ever show.  Admins work on versions and on    *)
(* the parent row with separate statements of READ COMMITTED transactions. *)
(***************************************************************************)
EXTENDS Integers, FiniteSets, Sequences

CONSTANTS Editors,         \* admins editing one template
          MaxTemplateVersions,     \* maxVersionsPerSlug, and the trigger's limit
          VersionIds,      \* bound on the versions ever made
          Contents,        \* bodies a version or the parent may be given
          Broken,          \* those whose execution fails
          MaxEdits,        \* bound on the requests of the editors
          Mailboxes,       \* recipients of one batch; "" is a missing address
          MaxMails,        \* bound on the batches
          InboxUsers,
          NoticeIds,       \* bound on the in-app notices
          Security,        \* those of a NonDismissableTypes type; the others share a category
          ReadRetention,   \* days a read notice is kept
          MaxRetention     \* days any notice is kept

ASSUME MailingAssumption ==
  /\ IsFiniteSet(Editors) /\ MaxTemplateVersions \in Nat \ {0}
  /\ {"no", "read", "expired"} \cap InboxUsers = {}
  /\ Broken \subseteq Contents /\ Security \subseteq NoticeIds
  /\ ReadRetention \in Nat /\ MaxRetention \in Nat /\ ReadRetention < MaxRetention

VARIABLES
  versions,   \* email_template_versions of the slug: id -> [body, active]
  content,    \* email_templates.html_content, or "null"
  editor,     \* the request of each admin
  legacy,     \* (history) content was written without the versions since the last activation
  edits,      \* (history) requests so far
  reader,     \* the rendering under way
  mailBatch,      \* the batch being sent: what became of each recipient
  arrived,    \* (history) copies of the batch's mail that reached each recipient
  mailings,     \* (history) batches so far
  muted,      \* users who switched the shared category off
  mutedSeen,  \* the replica's copy of it
  inbox,    \* the notifications table
  vanished    \* (history) how each deleted notice went

templateVars == <<versions, content, editor, legacy, edits, reader>>
mailVars == <<mailBatch, arrived, mailings>>
inboxVars == <<muted, mutedSeen, inbox, vanished>>
mailingVars == <<versions, content, editor, legacy, edits, reader, mailBatch, arrived, mailings,
                 muted, mutedSeen, inbox, vanished>>

-----------------------------------------------------------------------------
(* Templates *)

NoContent == "null"
\* The template compiled in.  That there is none, or that it fails too, makes the
\* rendering an error: the "rendered" of the mails below.
EmbeddedDefault == "default"

\* off: the versions the editor's transaction has deactivated, and so locked.
EditorIdle == [pc |-> "idle", id |-> 0, body |-> NoContent, active |-> FALSE, off |-> {}]
ReaderIdle == [pc |-> "idle", shown |-> NoContent, seen |-> {}, clean |-> TRUE]

TemplatesInit ==
  /\ versions = <<>>
  /\ content = NoContent
  /\ editor = [e \in Editors |-> EditorIdle]
  /\ legacy = FALSE
  /\ edits = 0
  /\ reader = ReaderIdle

ActiveVersions == {v \in DOMAIN versions : versions[v].active}

\* executeSandboxedTemplate succeeds on what is not broken.
Executes(c) == c # NoContent /\ c \notin Broken

\* What a rendering that reads everything in one instant shows.
Resolve(vs, c) ==
  LET act == {v \in DOMAIN vs : vs[v].active /\ Executes(vs[v].body)} IN
  IF act # {} THEN vs[CHOOSE v \in act : TRUE].body
  ELSE IF Executes(c) THEN c ELSE EmbeddedDefault

\* Every change of the tables is seen by the rendering under way.
Rewrite(vs, c, byLegacy) ==
  /\ versions' = vs
  /\ content' = c
  /\ reader' = IF reader.pc = "idle" THEN reader
               ELSE [pc |-> reader.pc, shown |-> reader.shown,
                     seen |-> reader.seen \cup {Resolve(vs, c)}, clean |-> reader.clean /\ ~byLegacy]

Deactivated(off) == [v \in DOMAIN versions |-> [versions[v] EXCEPT !.active = @ /\ v \notin off]]

\* Rows whose update by another transaction is not committed yet: whoever
\* writes them waits.
RowLocked(e) == UNION {editor[x].off : x \in Editors \ {e}}

EditDone(e) == editor' = [editor EXCEPT ![e] = EditorIdle]

\* handleCreateTemplateVersion: the versions are counted, ...
CountVersions(e, body, active) ==
  /\ editor[e].pc = "idle" /\ edits < MaxEdits
  /\ Cardinality(DOMAIN versions) < MaxTemplateVersions
  /\ editor' = [editor EXCEPT ![e] = [pc |-> IF active THEN "counted" ELSE "cleared", id |-> 0,
                                     body |-> body, active |-> active, off |-> {}]]
  /\ edits' = edits + 1
  /\ UNCHANGED <<versions, content, legacy, reader>>

\* ... those active are deactivated, if the new one shall be active (and by every
\* activation), ...
DeactivateVersions(e) ==
  /\ editor[e].pc \in {"counted", "activate"}
  /\ ActiveVersions \cap RowLocked(e) = {}
  /\ editor' = [editor EXCEPT ![e] = [pc |-> IF @.pc = "counted" THEN "cleared" ELSE "activating",
                                     id |-> @.id, body |-> @.body, active |-> @.active,
                                     off |-> ActiveVersions]]
  /\ UNCHANGED <<versions, content, legacy, edits, reader>>

\* ... the trigger counts the committed ones again when the row is inserted, ...
InsertVersion(e) ==
  /\ editor[e].pc = "cleared"
  /\ editor' = [editor EXCEPT ![e] = IF Cardinality(DOMAIN versions) < MaxTemplateVersions
                                     THEN [@ EXCEPT !.pc = "inserted"] ELSE EditorIdle]
  /\ UNCHANGED <<versions, content, legacy, edits, reader>>

\* ... and the composition of an active one goes to the parent row before the
\* commit.  The unique index lets it in only if no other has become active.
CommitVersion(e) ==
  LET add(vs, v) == [i \in DOMAIN vs \cup {v} |->
                       IF i = v THEN [body |-> editor[e].body, active |-> editor[e].active] ELSE vs[i]]
  IN /\ editor[e].pc = "inserted"
     /\ VersionIds \ DOMAIN versions # {}
     /\ editor[e].active => ActiveVersions \subseteq editor[e].off
     /\ LET v == CHOOSE i \in VersionIds \ DOMAIN versions : TRUE IN
          IF editor[e].active
          THEN Rewrite(add(Deactivated(editor[e].off), v), editor[e].body, FALSE) /\ legacy' = FALSE
          ELSE Rewrite(add(versions, v), content, FALSE) /\ UNCHANGED legacy
     /\ EditDone(e)
     /\ UNCHANGED edits

\* A statement fails, a deadlock is broken, or the unique index refuses a second
\* active version: rolled back.
RollbackVersion(e) ==
  /\ editor[e].pc # "idle"
  /\ EditDone(e)
  /\ UNCHANGED <<versions, content, legacy, edits, reader>>

\* handleUpdateTemplateVersion: its own row lock makes it one step; an active
\* version is composed into the parent row again.
UpdateTemplateVersion(v, body) ==
  /\ edits < MaxEdits
  /\ v \in DOMAIN versions /\ \A e \in Editors : v \notin editor[e].off
  /\ LET vs == [versions EXCEPT ![v] = [body |-> body, active |-> versions[v].active]] IN
       IF versions[v].active
       THEN Rewrite(vs, body, FALSE) /\ legacy' = FALSE
       ELSE Rewrite(vs, content, FALSE) /\ UNCHANGED legacy
  /\ edits' = edits + 1
  /\ UNCHANGED editor

\* handleActivateTemplateVersion and handleDeleteTemplateVersion look at the
\* version without locking its row.
CheckVersion(e, v, op) ==
  /\ editor[e].pc = "idle" /\ edits < MaxEdits
  /\ v \in DOMAIN versions
  /\ op = "delete" => ~versions[v].active
  /\ editor' = [editor EXCEPT ![e] = [pc |-> op, id |-> v, body |-> NoContent, active |-> FALSE, off |-> {}]]
  /\ edits' = edits + 1
  /\ UNCHANGED <<versions, content, legacy, reader>>

\* An activation that leaves the parent row as it is.
ActivateAlone(e) ==
  LET v == editor[e].id IN
  /\ editor[e].pc = "activating" /\ v \in DOMAIN versions \ RowLocked(e)
  /\ ActiveVersions \subseteq editor[e].off \cup {v}
  /\ Rewrite([Deactivated(editor[e].off) EXCEPT ![v] = [body |-> versions[v].body, active |-> TRUE]],
             content, FALSE)
  /\ legacy' = FALSE
  /\ EditDone(e)
  /\ UNCHANGED edits

\* The chosen one is activated and composed into the parent row.  One that is gone
\* fails, and so does the unique index when another has become active: rolled back.
ActivateTemplateVersion(e) ==
  LET v == editor[e].id IN
  /\ editor[e].pc = "activating" /\ v \in DOMAIN versions \ RowLocked(e)
  /\ ActiveVersions \subseteq editor[e].off \cup {v}
  /\ Rewrite([Deactivated(editor[e].off) EXCEPT ![v] = [body |-> versions[v].body, active |-> TRUE]],
             versions[v].body, FALSE)
  /\ legacy' = FALSE
  /\ EditDone(e)
  /\ UNCHANGED edits

\* DELETE names id and slug only: a version activated since the check goes too.
DeleteTemplateVersion(e) ==
  /\ editor[e].pc = "delete" /\ editor[e].id \notin RowLocked(e)
  /\ Rewrite([v \in DOMAIN versions \ {editor[e].id} |-> versions[v]], content, FALSE)
  /\ EditDone(e)
  /\ UNCHANGED <<legacy, edits>>

\* handleUpdateEmailTemplate, UpdateTemplate: the parent row alone.
UpdateEmailTemplate(body) ==
  /\ edits < MaxEdits
  /\ Rewrite(versions, body, TRUE)
  /\ legacy' = TRUE
  /\ edits' = edits + 1
  /\ UNCHANGED editor

\* handleResetEmailTemplate, ResetTemplate: html_content goes, an active version stays.
ResetEmailTemplate ==
  /\ edits < MaxEdits
  /\ Rewrite(versions, NoContent, TRUE)
  /\ legacy' = TRUE
  /\ edits' = edits + 1
  /\ UNCHANGED editor

\* A preview of the content in the request reads nothing else, and shows it
\* outside the sandbox: what fails in a mail may pass here.
PreviewContent(body) ==
  /\ reader.pc = "idle"
  /\ reader' = [pc |-> "done", shown |-> body, seen |-> {body}, clean |-> TRUE]
  /\ UNCHANGED <<versions, content, editor, legacy, edits>>

\* A mail of a service without an override store, and the preview of the template
\* in force (the admins' service has none either), show what is compiled in.
RenderEmbedded ==
  /\ reader.pc = "idle"
  /\ reader' = [pc |-> "done", shown |-> EmbeddedDefault, seen |-> {Resolve(versions, content)}, clean |-> FALSE]
  /\ UNCHANGED <<versions, content, editor, legacy, edits>>

\* renderTemplateWithContext, for a mail of the scheduler.
Render ==
  /\ reader.pc = "idle"
  /\ reader' = [pc |-> "start", shown |-> NoContent, seen |-> {Resolve(versions, content)}, clean |-> TRUE]
  /\ UNCHANGED <<versions, content, editor, legacy, edits>>

Shown(c, ok) == [pc |-> "done", shown |-> c, seen |-> reader.seen, clean |-> ok]

GetActiveVersion ==
  /\ reader.pc = "start"
  /\ LET act == {v \in ActiveVersions : Executes(versions[v].body)} IN
       reader' = IF act # {} THEN Shown(versions[CHOOSE v \in act : TRUE].body, reader.clean)
                 ELSE [reader EXCEPT !.pc = "custom"]
  /\ UNCHANGED <<versions, content, editor, legacy, edits>>

GetTemplate ==
  /\ reader.pc = "custom"
  /\ reader' = Shown(IF Executes(content) THEN content ELSE EmbeddedDefault, reader.clean)
  /\ UNCHANGED <<versions, content, editor, legacy, edits>>

\* A read fails: the next source is tried.
TemplateReadFails ==
  /\ reader.pc \in {"start", "custom"}
  /\ reader' = IF reader.pc = "start"
               THEN [pc |-> "custom", shown |-> NoContent, seen |-> reader.seen, clean |-> FALSE]
               ELSE Shown(EmbeddedDefault, FALSE)
  /\ UNCHANGED <<versions, content, editor, legacy, edits>>

RenderReturns ==
  /\ reader.pc = "done"
  /\ reader' = ReaderIdle
  /\ UNCHANGED <<versions, content, editor, legacy, edits>>

TemplatesNext ==
  \/ \E e \in Editors :
       \/ \E body \in Contents, active \in BOOLEAN : CountVersions(e, body, active)
       \/ \E v \in VersionIds, op \in {"activate", "delete"} : CheckVersion(e, v, op)
       \/ DeactivateVersions(e) \/ InsertVersion(e) \/ CommitVersion(e) \/ RollbackVersion(e)
       \/ ActivateTemplateVersion(e) \/ DeleteTemplateVersion(e)
  \/ \E v \in VersionIds, body \in Contents : UpdateTemplateVersion(v, body)
  \/ \E body \in Contents : UpdateEmailTemplate(body) \/ PreviewContent(body)
  \/ ResetEmailTemplate
  \/ RenderEmbedded \/ Render \/ GetActiveVersion \/ GetTemplate \/ TemplateReadFails \/ RenderReturns

\* Whatever two admins do at once, at most one version is active; its body is
\* the parent's content unless the parent was written on its own since; the
\* limit on versions is passed at most by the creations under way together;
\* and a rendering with the override store that no failed read and no edit of
\* the parent disturbs shows what some instant of it resolves to.
TemplatesHold ==
  /\ Cardinality(ActiveVersions) <= 1
  /\ ~legacy => \A v \in ActiveVersions : content = versions[v].body
  /\ Cardinality(DOMAIN versions) <= MaxTemplateVersions + Cardinality(Editors) - 1
  /\ reader.pc = "done" /\ reader.clean => reader.shown \in reader.seen

-----------------------------------------------------------------------------
(* Mails *)

MailsInit ==
  /\ mailBatch = <<>>
  /\ arrived = [r \in Mailboxes |-> 0]
  /\ mailings = 0

\* SendContestStartingReminderBatch and its like: the template is rendered once, then one goroutine per
\* recipient; a render error fails them all.
SendBatch(to, rendered) ==
  /\ mailBatch = <<>> /\ mailings < MaxMails
  /\ to # {}
  /\ mailBatch' = [r \in to |-> IF rendered THEN "new" ELSE "failed"]
  /\ arrived' = [r \in Mailboxes |-> 0]
  /\ mailings' = mailings + 1

\* SendPrizeWonBatch, SendContestCancelledBatch, SendContestEndedBatch: every
\* goroutine renders the mail of its recipient; a missing address or a render
\* error fails that one.
SendPersonalBatch(to, unrendered) ==
  /\ mailBatch = <<>> /\ mailings < MaxMails
  /\ to # {}
  /\ mailBatch' = [r \in to |-> IF r = "" \/ r \in unrendered THEN "failed" ELSE "new"]
  /\ arrived' = [r \in Mailboxes |-> 0]
  /\ mailings' = mailings + 1

\* SendWelcomeEmail, SendWithdrawalApproved, SendDepositConfirmed and the other
\* notices to one user: refused without an address, or when rendering fails.
SendNotice(r, rendered) ==
  /\ mailBatch = <<>> /\ mailings < MaxMails
  /\ mailBatch' = [x \in {r} |-> IF r # "" /\ rendered THEN "new" ELSE "failed"]
  /\ arrived' = [x \in Mailboxes |-> 0]
  /\ mailings' = mailings + 1

\* SendPasswordReset, SendEmailVerification: a mail without the link or code it
\* is about is refused too.
SendCode(r, hasCode, rendered) ==
  /\ mailBatch = <<>> /\ mailings < MaxMails
  /\ mailBatch' = [x \in {r} |-> IF r # "" /\ hasCode /\ rendered THEN "new" ELSE "failed"]
  /\ arrived' = [x \in Mailboxes |-> 0]
  /\ mailings' = mailings + 1

\* SendPasswordResetCode: when the language's template cannot be rendered (there
\* is none in English), the common one is.
SendPasswordResetCode(r, hasCode, rendered, fallback) ==
  /\ mailBatch = <<>> /\ mailings < MaxMails
  /\ mailBatch' = [x \in {r} |-> IF r # "" /\ hasCode /\ (rendered \/ fallback) THEN "new" ELSE "failed"]
  /\ arrived' = [x \in Mailboxes |-> 0]
  /\ mailings' = mailings + 1

\* SendEmail of one goroutine: the circuit breaker lets it through, or is open.
\* The batch of one text does not look at the addresses.
SendEmail(r, open) ==
  /\ r \in DOMAIN mailBatch /\ mailBatch[r] = "new"
  /\ mailBatch' = [mailBatch EXCEPT ![r] = IF open THEN "failed" ELSE "sending"]
  /\ UNCHANGED <<arrived, mailings>>

\* The provider takes the mail and says so (it refuses one without an address), ...
MailSent(r) ==
  /\ r \in DOMAIN mailBatch /\ mailBatch[r] = "sending" /\ r # ""
  /\ mailBatch' = [mailBatch EXCEPT ![r] = "ok"]
  /\ arrived' = [arrived EXCEPT ![r] = @ + 1]
  /\ UNCHANGED mailings

\* ... or the call fails, the mail taken or not: the breaker reports what took
\* longer than its timeout as failed, whatever the provider answered, and a
\* panic in a batch's goroutine is recovered and counts as a failure.
MailFails(r, taken) ==
  /\ r \in DOMAIN mailBatch /\ mailBatch[r] = "sending"
  /\ taken => r # ""
  /\ mailBatch' = [mailBatch EXCEPT ![r] = "failed"]
  /\ arrived' = [arrived EXCEPT ![r] = IF taken THEN @ + 1 ELSE @]
  /\ UNCHANGED mailings

\* wg.Wait: the result lists are complete.
BatchReturns ==
  /\ mailBatch # <<>>
  /\ \A r \in DOMAIN mailBatch : mailBatch[r] \in {"ok", "failed"}
  /\ mailBatch' = <<>>
  /\ UNCHANGED <<arrived, mailings>>

MailsNext ==
  \/ \E to \in SUBSET Mailboxes, rendered \in BOOLEAN : SendBatch(to, rendered)
  \/ \E to, unrendered \in SUBSET Mailboxes : SendPersonalBatch(to, unrendered)
  \/ \E r \in Mailboxes :
       \/ \E b \in BOOLEAN : SendNotice(r, b) \/ SendEmail(r, b) \/ MailFails(r, b)
       \/ \E hasCode, rendered \in BOOLEAN :
            \/ SendCode(r, hasCode, rendered)
            \/ \E fallback \in BOOLEAN : SendPasswordResetCode(r, hasCode, rendered, fallback)
       \/ MailSent(r)
  \/ BatchReturns

\* A recipient gets at most one copy per call, one reported as successful got
\* it, and one who got it is among the batch's results.
MailsAccounted ==
  \A r \in Mailboxes :
    /\ arrived[r] <= 1
    /\ r \in DOMAIN mailBatch /\ mailBatch[r] = "ok" => arrived[r] = 1
    /\ mailBatch # <<>> /\ arrived[r] = 1 => r \in DOMAIN mailBatch /\ mailBatch[r] # "new"

-----------------------------------------------------------------------------
(* The inbox *)

NoNotice == [state |-> "none", owner |-> "none", age |-> 0, read |-> FALSE, rightly |-> TRUE]

InboxInit ==
  /\ muted = {}
  /\ mutedSeen = {}
  /\ inbox = [n \in NoticeIds |-> NoNotice]
  /\ vanished = [n \in NoticeIds |-> "no"]

\* SetPreference.  SetBulkPreferences is one such upsert after the other on the
\* primary, outside any transaction, and the first that fails ends it: what it
\* leaves behind is what some of these steps leave behind.
SavePreference(u, off) ==
  /\ off # (u \in muted)
  /\ muted' = IF off THEN muted \cup {u} ELSE muted \ {u}
  /\ UNCHANGED <<mutedSeen, inbox, vanished>>

PrefsReplicated ==
  /\ mutedSeen # muted
  /\ mutedSeen' = muted
  /\ UNCHANGED <<muted, inbox, vanished>>

\* IsEnabled, IsEnabledBatch: what the copy asked has switched off is not; every
\* caller takes an error for a no.  Rows that stop coming after the query was
\* accepted are not told from rows that are not there.
Reads == {"complete", "cut", "refused"}
IsEnabled(u, copy, read) == read = "cut" \/ (read = "complete" /\ u \notin copy)

\* The callers ask the replica, or the primary (settlement, payments); the
\* password notice is created without asking.
CheckEnabled(n, u, copy, read) ==
  /\ inbox[n].state = "none"
  /\ inbox' = [inbox EXCEPT ![n] =
       IF n \in Security \/ IsEnabled(u, copy, read)
       THEN [state |-> "allowed", owner |-> u, age |-> 0, read |-> FALSE,
             rightly |-> (u \notin muted \/ copy # muted \/ read = "cut")]
       ELSE [@ EXCEPT !.state = "refused"]]
  /\ UNCHANGED <<muted, mutedSeen, vanished>>

\* CreateNotification, one chunk of CreateNotificationBatch: the row is written; an
\* error is the caller's to log.
CreateNotification(n, written) ==
  /\ inbox[n].state = "allowed"
  /\ inbox' = [inbox EXCEPT ![n] = IF written THEN [@ EXCEPT !.state = "kept"]
                                     ELSE [NoNotice EXCEPT !.state = "failed"]]
  /\ UNCHANGED <<muted, mutedSeen, vanished>>

\* MarkAsRead updates this row, MarkAllAsRead all such rows.
OwnUnread(n, u) == inbox[n].state = "kept" /\ inbox[n].owner = u /\ ~inbox[n].read

\* handleMarkNotificationRead: a second call, or another user's, changes nothing.
MarkAsRead(n, u) ==
  /\ OwnUnread(n, u)
  /\ inbox' = [inbox EXCEPT ![n].read = TRUE]
  /\ UNCHANGED <<muted, mutedSeen, vanished>>

MarkAllAsRead(u) ==
  /\ \E n \in NoticeIds : OwnUnread(n, u)
  /\ inbox' = [n \in NoticeIds |-> [inbox[n] EXCEPT !.read = @ \/ OwnUnread(n, u)]]
  /\ UNCHANGED <<muted, mutedSeen, vanished>>

DeleteNotification(n, u) ==
  /\ inbox[n].state = "kept" /\ inbox[n].owner = u
  /\ inbox' = [inbox EXCEPT ![n].state = "deleted"]
  /\ vanished' = [vanished EXCEPT ![n] = u]
  /\ UNCHANGED <<muted, mutedSeen>>

OlderThan(days) == {n \in NoticeIds : inbox[n].state = "kept" /\ inbox[n].age > days}

\* CleanupOldNotifications: first the read ones, then all that are too old; the
\* second statement may fail, what the first deleted stays deleted.
CleanupOldNotifications(both) ==
  LET stale == {n \in OlderThan(ReadRetention) : inbox[n].read}
      gone  == stale \cup IF both THEN OlderThan(MaxRetention) ELSE {}
  IN /\ gone # {}
     /\ inbox' = [n \in NoticeIds |-> IF n \in gone THEN [inbox[n] EXCEPT !.state = "deleted"] ELSE inbox[n]]
     /\ vanished' = [n \in NoticeIds |-> IF n \in stale THEN "read"
                                        ELSE IF n \in gone THEN "expired" ELSE vanished[n]]
     /\ UNCHANGED <<muted, mutedSeen>>

\* Ages past the longest retention are not told apart.
DayPasses ==
  /\ \E n \in NoticeIds : inbox[n].state = "kept" /\ inbox[n].age <= MaxRetention
  /\ inbox' = [n \in NoticeIds |-> IF inbox[n].state = "kept" /\ inbox[n].age <= MaxRetention
                                   THEN [inbox[n] EXCEPT !.age = @ + 1] ELSE inbox[n]]
  /\ UNCHANGED <<muted, mutedSeen, vanished>>

InboxNext ==
  \/ \E u \in InboxUsers :
       \/ \E off \in BOOLEAN : SavePreference(u, off)
       \/ MarkAllAsRead(u)
       \/ \E n \in NoticeIds :
            \/ \E copy \in {muted, mutedSeen}, read \in Reads : CheckEnabled(n, u, copy, read)
            \/ MarkAsRead(n, u) \/ DeleteNotification(n, u)
  \/ \E n \in NoticeIds, written \in BOOLEAN : CreateNotification(n, written)
  \/ \E both \in BOOLEAN : CleanupOldNotifications(both)
  \/ PrefsReplicated \/ DayPasses

\* A user who switched a category off gets a notice of it only while the replica
\* lags or when the answer was cut off; a security notice is refused to nobody; and an unread notice
\* goes only by its owner's hand or once it is older than the longest retention.
InboxHolds ==
  \A n \in NoticeIds :
    /\ n \in Security => inbox[n].state # "refused"
    /\ n \notin Security /\ inbox[n].state \in {"allowed", "kept"} => inbox[n].rightly
    /\ vanished[n] \notin InboxUsers \cup {"no"} /\ ~inbox[n].read => inbox[n].age > MaxRetention
    /\ vanished[n] \in InboxUsers => vanished[n] = inbox[n].owner

MailingHolds == TemplatesHold /\ MailsAccounted /\ InboxHolds
=============================================================================
