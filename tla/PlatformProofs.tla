--------------------------- MODULE PlatformProofs ---------------------------
(***************************************************************************)
(* The parts of the platform under the specification that explores them:   *)
(* the lemmas of ServicesProofs and ContestProofs say what every step of a *)
(* part keeps, and a step of any other part leaves its variables alone.    *)
(***************************************************************************)
EXTENDS MCPlatform, ServicesProofs, ContestProofs

platformVars == <<part, accountVars, codeVars, adminVars, kycVars, ticketVars, notifyVars,
                  aggregatorVars, mailingVars, catVars, ceVars, lbVars, resilienceVars, poolVars>>

CodesInv ==
  /\ part = "otp" => OTPInv
  /\ part = "reset" => ResetInv
  /\ part = "verification" => VerifInv

AccountsInv == SessionInv /\ TotpInv /\ RegistrationInv

NotificationsInv == AlertsInv /\ RemindersInv

GuardsInv == BreakerInv /\ WindowInv /\ BucketInv /\ PoolInv

\* Support tickets, whatever part of the platform moves (ticket_handlers.go,
\* handlers_tickets.go): a user's last word leaves the ticket waiting for
\* support, however replies and an administrator's decisions interleave.
THEOREM TicketsAlwaysRight == Spec => []TicketsRight
<1>1. Init => TicketsInv
  BY TicketsStart DEF Init
<1>2. TicketsInv /\ [Next]_platformVars => TicketsInv'
  <2> SUFFICES ASSUME TicketsInv, [Next]_platformVars PROVE TicketsInv'
    OBVIOUS
  <2>1. [TicketNext]_ticketVars
    BY DEF Next, platformVars
  <2> QED BY <2>1, TicketsStep
<1>3. TicketsInv => TicketsRight
  BY DEF TicketsInv, TicketsRight
<1> QED BY <1>1, <1>2, <1>3, PTL DEF Spec, platformVars

\* Identity checks (kyc_handlers.go, handlers_kyc.go): an undecided document
\* belongs to a row in review, and documents and stored images match, for any
\* number of workers and submissions.
THEOREM KycAlwaysRight == Spec => []KycRight
<1>1. Init => KycInv
  BY KycStart DEF Init
<1>2. KycInv /\ [Next]_platformVars => KycInv'
  <2> SUFFICES ASSUME KycInv, [Next]_platformVars PROVE KycInv'
    OBVIOUS
  <2>1. [KycNext]_kycVars
    BY DEF Next, platformVars
  <2> QED BY <2>1, KycStep
<1>3. KycInv => KycRight
  BY DEF KycInv, KycRight
<1> QED BY <1>1, <1>2, <1>3, PTL DEF Spec, platformVars

\* Operational alerts (alerts.go): every occurrence of an error is counted in
\* an alert or held back for one, for every window and time to live.
THEOREM AlertingAlwaysRight == Spec => []AlertingRight
<1>1. Init => AlertingInv
  BY AlertingStart DEF Init
<1>2. AlertingInv /\ [Next]_platformVars => AlertingInv'
  <2> SUFFICES ASSUME AlertingInv, [Next]_platformVars PROVE AlertingInv'
    OBVIOUS
  <2>1. [AggregatorNext]_aggregatorVars
    BY DEF Next, platformVars
  <2> QED BY <2>1, AlertingStep
<1>3. AlertingInv => AlertingRight
  BY DEF AlertingInv, AlertingRight
<1> QED BY <1>1, <1>2, <1>3, PTL DEF Spec, platformVars

\* One-time codes (otp.go, forgot_password_handlers.go): no code is accepted
\* twice or after too many guesses, and every password set by a reset was paid
\* for by an accepted code, for any number of requests, codes and guesses.
THEOREM CodesAlwaysRight == Spec => []CodesRight
<1>1. Init => CodesInv
  BY OTPStart, ResetStart, VerifStart DEF Init, CodesInv
<1>2. CodesInv /\ [Next]_platformVars => CodesInv'
  <2> SUFFICES ASSUME CodesInv, [Next]_platformVars PROVE CodesInv'
    OBVIOUS
  <2>1. /\ part' = part
        /\ part = "otp" => [OTPNext]_codeVars
        /\ part = "reset" => [ResetNext]_codeVars
        /\ part = "verification" => [VerificationNext]_codeVars
    BY DEF Next, platformVars
  <2> QED BY <2>1, OTPStep, ResetStep, VerifStep DEF CodesInv
<1>3. CodesInv => CodesRight
  BY CodesFollow DEF CodesInv, CodesRight
<1> QED BY <1>1, <1>2, <1>3, PTL DEF Spec, platformVars

\* Alerts and reminders (notification-service): an accepted alert is sent, and
\* a recipient gets no more copies of a reminder than there were schedulers
\* passing at once, for any number of alerts, recipients and schedulers.
THEOREM NotificationsAlwaysRight == Spec => []NotificationsRight
<1>1. Init => NotificationsInv
  BY AlertsStart, RemindersStart DEF Init, NotificationsInv
<1>2. NotificationsInv /\ [Next]_platformVars => NotificationsInv'
  <2> SUFFICES ASSUME NotificationsInv, [Next]_platformVars PROVE NotificationsInv'
    OBVIOUS
  <2>1. [AlertNext]_alertVars /\ [ReminderNext]_reminderVars
    BY DEF Next, platformVars, notifyVars, alertVars, reminderVars
  <2> QED BY <2>1, AlertsStep, RemindersStep DEF NotificationsInv
<1>3. NotificationsInv => NotificationsRight
  BY AlertsFollow, RemindersFollow DEF NotificationsInv, NotificationsRight
<1> QED BY <1>1, <1>2, <1>3, PTL DEF Spec, platformVars

\* Accounts (session.go, auth_handlers.go, phone_auth.go): a session once
\* revoked never authenticates again, a second factor asked for at login was
\* shown to be held, and whoever registration or OAuth lets in owns the identity
\* it came with, for any number of requests, sessions, secrets and users.
THEOREM AccountsAlwaysRight == Spec => []AccountsRight
<1>1. Init => AccountsInv
  BY SessionStart, TotpStart, RegistrationStart DEF Init, AccountsInv
<1>2. AccountsInv /\ [Next]_platformVars => AccountsInv'
  <2> SUFFICES ASSUME AccountsInv, [Next]_platformVars PROVE AccountsInv'
    OBVIOUS
  <2>1. [SessionNext]_sessionVars /\ [TotpNext]_totpVars /\ [RegistrationNext]_regVars
    BY DEF Next, platformVars, accountVars, sessionVars, totpVars, regVars
  <2> QED BY <2>1, SessionStep, TotpStep, RegistrationStep DEF AccountsInv
<1>3. AccountsInv => AccountsRight
  BY AccountsFollow DEF AccountsInv, AccountsRight
<1> QED BY <1>1, <1>2, <1>3, PTL DEF Spec, platformVars

\* The admin panel (admin_mfa.go, reauthentication.go,
\* handlers_user_management.go): a challenge, a TOTP counter and a recovery code
\* each let a Super Admin in at most once, a grant pays for at most one action,
\* and no sweep lifts a permanent ban, for any number of requests and factors.
THEOREM AdminAccessAlwaysRight == Spec => []AdminAccessRight
<1>1. Init => AdminInv
  BY AdminStart DEF Init
<1>2. AdminInv /\ [Next]_platformVars => AdminInv'
  <2> SUFFICES ASSUME AdminInv, [Next]_platformVars PROVE AdminInv'
    OBVIOUS
  <2>1. \/ MFANext /\ UNCHANGED <<grantVars, lockout, account>>
        \/ GrantNext /\ UNCHANGED <<mfaVars, lockout, account>>
        \/ AccountNext /\ UNCHANGED <<mfaVars, fp, grantVars>>
        \/ UNCHANGED adminVars
    BY DEF Next, platformVars
  <2> QED BY <2>1, AdminStep
<1>3. AdminInv => AdminAccessRight
  BY AdminFollows DEF AdminAccessRight
<1> QED BY <1>1, <1>2, <1>3, PTL DEF Spec, platformVars

\* What guards the dependencies (breaker.go, sliding_window.go, user_limiter.go,
\* replica.go): a half-open breaker tries again, no window admits more than its
\* limit, an idle bucket gives nothing away and a vouched-for replica is fresh,
\* for any number of callers, processes and replicas, and any limits.
THEOREM GuardsAlwaysRight == Spec => []GuardsRight
<1>1. Init => GuardsInv
  BY BreakerStart, WindowStart, BucketStart, PoolStart DEF Init, GuardsInv
<1>2. GuardsInv /\ [Next]_platformVars => GuardsInv'
  <2> SUFFICES ASSUME GuardsInv, [Next]_platformVars PROVE GuardsInv'
    OBVIOUS
  <2>1. /\ [BreakerNext]_breakerVars /\ [WindowNext]_windowVars
        /\ [BucketNext]_bucketVars /\ [PoolNext]_poolVars
    BY DEF Next, platformVars, resilienceVars, breakerVars, windowVars, bucketVars
  <2> QED BY <2>1, BreakerStep, WindowStep, BucketStep, PoolStep DEF GuardsInv
<1>3. GuardsInv => GuardsRight
  BY BreakerFollows, WindowFollows, BucketFollows, PoolFollows DEF GuardsInv, GuardsRight
<1> QED BY <1>1, <1>2, <1>3, PTL DEF Spec, platformVars

-----------------------------------------------------------------------------
(* Mails. *)

\* No copy has gone to who is not in the batch or still waits for an answer.
MailsInv ==
  /\ arrived \in [Mailboxes -> {0, 1}]
  /\ mailBatch \in [DOMAIN mailBatch -> {"new", "sending", "ok", "failed"}]
  /\ mailBatch # <<>> =>
       \A r \in Mailboxes :
         /\ r \in DOMAIN mailBatch /\ mailBatch[r] = "ok" => arrived[r] = 1
         /\ r \notin DOMAIN mailBatch \/ mailBatch[r] \in {"new", "sending"} => arrived[r] = 0

\* Before the first batch nothing has arrived.
LEMMA MailsStart == MailsInit => MailsInv
BY DEF MailsInit, MailsInv

\* Every batch begins with nothing arrived; every answer is counted once.
LEMMA MailsStep == MailsInv /\ [MailsNext]_mailVars => MailsInv'
<1> SUFFICES ASSUME MailsInv, [MailsNext]_mailVars PROVE MailsInv'
  OBVIOUS
<1>1. ASSUME NEW to \in SUBSET Mailboxes, NEW rendered \in BOOLEAN, SendBatch(to, rendered)
      PROVE  MailsInv'
  BY <1>1 DEF MailsInv, SendBatch
<1>2. ASSUME NEW to \in SUBSET Mailboxes, NEW u \in SUBSET Mailboxes, SendPersonalBatch(to, u)
      PROVE  MailsInv'
  BY <1>2 DEF MailsInv, SendPersonalBatch
<1>3. ASSUME NEW r \in Mailboxes, NEW b \in BOOLEAN, SendNotice(r, b)
      PROVE  MailsInv'
  BY <1>3 DEF MailsInv, SendNotice
<1>4. ASSUME NEW r \in Mailboxes, NEW h \in BOOLEAN, NEW b \in BOOLEAN, SendCode(r, h, b)
      PROVE  MailsInv'
  BY <1>4 DEF MailsInv, SendCode
<1>5. ASSUME NEW r \in Mailboxes, NEW h \in BOOLEAN, NEW b \in BOOLEAN, NEW f \in BOOLEAN,
             SendPasswordResetCode(r, h, b, f)
      PROVE  MailsInv'
  BY <1>5 DEF MailsInv, SendPasswordResetCode
<1>6. ASSUME NEW r \in Mailboxes, NEW b \in BOOLEAN, SendEmail(r, b)
      PROVE  MailsInv'
  <2>1. /\ mailBatch' = [mailBatch EXCEPT ![r] = IF b THEN "failed" ELSE "sending"]
        /\ r \in DOMAIN mailBatch /\ mailBatch[r] = "new" /\ arrived' = arrived
    BY <1>6 DEF SendEmail
  <2>2. mailBatch # <<>>
    BY <2>1
  <2>3. DOMAIN mailBatch' = DOMAIN mailBatch
    BY <2>1
  <2> QED BY <2>1, <2>2, <2>3 DEF MailsInv
<1>7. ASSUME NEW r \in Mailboxes, MailSent(r)
      PROVE  MailsInv'
  <2>1. /\ mailBatch' = [mailBatch EXCEPT ![r] = "ok"] /\ arrived' = [arrived EXCEPT ![r] = @ + 1]
        /\ r \in DOMAIN mailBatch /\ mailBatch[r] = "sending"
    BY <1>7 DEF MailSent
  <2>2. mailBatch # <<>>
    BY <2>1
  <2>3. DOMAIN mailBatch' = DOMAIN mailBatch
    BY <2>1
  <2>4. arrived[r] = 0
    BY <2>1, <2>2 DEF MailsInv
  <2> QED BY <2>1, <2>2, <2>3, <2>4 DEF MailsInv
<1>8. ASSUME NEW r \in Mailboxes, NEW b \in BOOLEAN, MailFails(r, b)
      PROVE  MailsInv'
  <2>1. /\ mailBatch' = [mailBatch EXCEPT ![r] = "failed"]
        /\ arrived' = [arrived EXCEPT ![r] = IF b THEN @ + 1 ELSE @]
        /\ r \in DOMAIN mailBatch /\ mailBatch[r] = "sending"
    BY <1>8 DEF MailFails
  <2>2. mailBatch # <<>>
    BY <2>1
  <2>3. DOMAIN mailBatch' = DOMAIN mailBatch
    BY <2>1
  <2>4. arrived[r] = 0
    BY <2>1, <2>2 DEF MailsInv
  <2> QED BY <2>1, <2>2, <2>3, <2>4 DEF MailsInv
<1>9. ASSUME BatchReturns PROVE MailsInv'
  BY <1>9 DEF MailsInv, BatchReturns
<1> QED BY <1>1, <1>2, <1>3, <1>4, <1>5, <1>6, <1>7, <1>8, <1>9 DEF MailsNext, mailVars, MailsInv

\* So each recipient's copies are accounted for.
LEMMA MailsHold == MailsInv => MailsAccounted
BY DEF MailsInv, MailsAccounted

-----------------------------------------------------------------------------
(* The inbox. *)

\* What a row of the inbox may be.
Notices == [state : {"none", "allowed", "refused", "failed", "kept", "deleted"},
            owner : InboxUsers \cup {"none"}, age : Nat, read : BOOLEAN, rightly : BOOLEAN]

\* A notice of the inbox and how it went: only one that was deleted has gone.
NoticeRight(n, becomes, how) ==
  /\ becomes \in Notices /\ how \in InboxUsers \cup {"no", "read", "expired"}
  /\ becomes.state # "deleted" => how = "no"
  /\ n \in Security => becomes.state # "refused"
  /\ n \notin Security /\ becomes.state \in {"allowed", "kept"} => becomes.rightly
  /\ how \notin InboxUsers \cup {"no"} /\ ~becomes.read => becomes.age > MaxRetention
  /\ how \in InboxUsers => how = becomes.owner

InboxInv ==
  /\ inbox = [n \in NoticeIds |-> inbox[n]]
  /\ vanished = [n \in NoticeIds |-> vanished[n]]
  /\ \A n \in NoticeIds : NoticeRight(n, inbox[n], vanished[n])

\* At first the inbox is empty.
LEMMA InboxStart == InboxInit => InboxInv
<1> SUFFICES ASSUME InboxInit PROVE InboxInv
  OBVIOUS
<1>1. \A n \in NoticeIds : NoticeRight(n, NoNotice, "no")
  BY MailingAssumption DEF NoticeRight, NoNotice, Notices
<1> QED BY <1>1 DEF InboxInit, InboxInv

\* A step that changes one notice, and that one rightly, keeps the promise.
LEMMA OneNotice ==
  ASSUME InboxInv, NEW n \in NoticeIds, NEW becomes, inbox' = [inbox EXCEPT ![n] = becomes],
         NEW how, vanished' = [vanished EXCEPT ![n] = how], NoticeRight(n, becomes, how)
  PROVE  InboxInv'
<1>1. inbox' = [i \in NoticeIds |-> IF i = n THEN becomes ELSE inbox[i]]
  BY DEF InboxInv
<1>2. vanished' = [i \in NoticeIds |-> IF i = n THEN how ELSE vanished[i]]
  BY DEF InboxInv
<1>3. \A i \in NoticeIds : NoticeRight(i, inbox'[i], vanished'[i])
  <2> SUFFICES ASSUME NEW i \in NoticeIds PROVE NoticeRight(i, inbox'[i], vanished'[i])
    OBVIOUS
  <2>1. CASE i = n
    BY <1>1, <1>2, <2>1
  <2>2. CASE i # n
    BY <1>1, <1>2, <2>2 DEF InboxInv
  <2> QED BY <2>1, <2>2
<1> QED BY <1>1, <1>2, <1>3 DEF InboxInv, NoticeRight

\* A user who asks to be left alone is refused what may be refused.
LEMMA CheckKept ==
  ASSUME InboxInv, NEW u \in InboxUsers, NEW n \in NoticeIds, NEW copy \in {muted, mutedSeen},
         NEW read \in Reads, CheckEnabled(n, u, copy, read)
  PROVE  InboxInv'
<1> DEFINE ok == n \in Security \/ IsEnabled(u, copy, read)
           right == u \notin muted \/ copy # muted \/ read = "cut"
           becomes == IF ok THEN [state |-> "allowed", owner |-> u, age |-> 0, read |-> FALSE, rightly |-> right]
                      ELSE [inbox[n] EXCEPT !.state = "refused"]
<1>1. NoticeRight(n, inbox[n], vanished[n]) /\ inbox[n].state = "none" /\ vanished[n] = "no"
  BY DEF InboxInv, NoticeRight, CheckEnabled
<1>2. inbox' = [inbox EXCEPT ![n] = becomes] /\ vanished' = [vanished EXCEPT ![n] = vanished[n]]
  BY DEF CheckEnabled, InboxInv
<1>3. ok /\ n \notin Security => right
  BY DEF IsEnabled
<1>4. NoticeRight(n, becomes, vanished[n])
  <2> HIDE DEF ok, right
  <2> right \in BOOLEAN
    BY DEF right
  <2>1. CASE ok
    <3>1. becomes = [state |-> "allowed", owner |-> u, age |-> 0, read |-> FALSE, rightly |-> right]
      BY <2>1
    <3> HIDE DEF becomes
    <3> QED BY <1>1, <1>3, <2>1, <3>1, MailingAssumption DEF NoticeRight, Notices
  <2>2. CASE ~ok
    <3>1. becomes = [inbox[n] EXCEPT !.state = "refused"] /\ n \notin Security
      BY <2>2 DEF ok
    <3> HIDE DEF becomes
    <3> QED BY <1>1, <3>1 DEF NoticeRight, Notices
  <2> QED BY <2>1, <2>2
<1> HIDE DEF becomes
<1> QED BY <1>2, <1>4, OneNotice

\* Every step of the inbox keeps the promise.
LEMMA InboxStep == InboxInv /\ [InboxNext]_inboxVars => InboxInv'
<1> SUFFICES ASSUME InboxInv, [InboxNext]_inboxVars PROVE InboxInv'
  OBVIOUS
<1> USE MailingAssumption
<1>1. ASSUME NEW u \in InboxUsers, NEW off \in BOOLEAN, SavePreference(u, off)
      PROVE  InboxInv'
  BY <1>1 DEF InboxInv, SavePreference, NoticeRight
<1>3. ASSUME NEW n \in NoticeIds, NEW written \in BOOLEAN, CreateNotification(n, written)
      PROVE  InboxInv'
  <2> DEFINE becomes == IF written THEN [inbox[n] EXCEPT !.state = "kept"] ELSE [NoNotice EXCEPT !.state = "failed"]
  <2>1. NoticeRight(n, inbox[n], vanished[n]) /\ inbox[n].state = "allowed" /\ vanished[n] = "no"
    BY <1>3 DEF InboxInv, NoticeRight, CreateNotification
  <2>2. inbox' = [inbox EXCEPT ![n] = becomes] /\ vanished' = [vanished EXCEPT ![n] = vanished[n]]
    BY <1>3 DEF CreateNotification, InboxInv
  <2>3. NoticeRight(n, becomes, vanished[n])
    BY <2>1 DEF NoticeRight, Notices, NoNotice
  <2> HIDE DEF becomes
  <2> QED BY <2>2, <2>3, OneNotice
<1>4. ASSUME NEW u \in InboxUsers, NEW n \in NoticeIds, MarkAsRead(n, u)
      PROVE  InboxInv'
  <2>1. NoticeRight(n, inbox[n], vanished[n]) /\ inbox[n].state = "kept" /\ vanished[n] = "no"
    BY <1>4 DEF InboxInv, NoticeRight, MarkAsRead, OwnUnread
  <2>2. /\ inbox' = [inbox EXCEPT ![n] = [inbox[n] EXCEPT !.read = TRUE]]
        /\ vanished' = [vanished EXCEPT ![n] = vanished[n]]
    BY <1>4 DEF MarkAsRead, InboxInv
  <2>3. NoticeRight(n, [inbox[n] EXCEPT !.read = TRUE], vanished[n])
    BY <2>1 DEF NoticeRight, Notices
  <2> QED BY <2>2, <2>3, OneNotice
<1>5. ASSUME NEW u \in InboxUsers, MarkAllAsRead(u)
      PROVE  InboxInv'
  <2>1. /\ vanished' = vanished
        /\ inbox' = [n \in NoticeIds |-> [inbox[n] EXCEPT !.read = inbox[n].read \/ OwnUnread(n, u)]]
    BY <1>5 DEF MarkAllAsRead
  <2>2. ASSUME NEW n \in NoticeIds PROVE NoticeRight(n, inbox'[n], vanished'[n])
    <3> DEFINE own == OwnUnread(n, u)
    <3>1. NoticeRight(n, inbox[n], vanished[n]) /\ (own => inbox[n].state = "kept")
      BY DEF InboxInv, OwnUnread
    <3>2. inbox'[n] = [inbox[n] EXCEPT !.read = inbox[n].read \/ own]
      BY <2>1
    <3> HIDE DEF own
    <3> QED BY <2>1, <3>1, <3>2 DEF NoticeRight, Notices
  <2> QED BY <2>1, <2>2 DEF InboxInv
<1>6. ASSUME NEW u \in InboxUsers, NEW n \in NoticeIds, DeleteNotification(n, u)
      PROVE  InboxInv'
  <2>1. NoticeRight(n, inbox[n], vanished[n]) /\ inbox[n].state = "kept" /\ inbox[n].owner = u
    BY <1>6 DEF InboxInv, DeleteNotification
  <2>2. /\ inbox' = [inbox EXCEPT ![n] = [inbox[n] EXCEPT !.state = "deleted"]]
        /\ vanished' = [vanished EXCEPT ![n] = u]
    BY <1>6 DEF DeleteNotification
  <2>3. NoticeRight(n, [inbox[n] EXCEPT !.state = "deleted"], u)
    BY <2>1 DEF NoticeRight, Notices
  <2> QED BY <2>2, <2>3, OneNotice
<1>7. ASSUME NEW both \in BOOLEAN, CleanupOldNotifications(both)
      PROVE  InboxInv'
  <2> DEFINE stale == {n \in OlderThan(ReadRetention) : inbox[n].read}
             gone == stale \cup IF both THEN OlderThan(MaxRetention) ELSE {}
  <2>1. /\ inbox' = [n \in NoticeIds |-> IF n \in gone THEN [inbox[n] EXCEPT !.state = "deleted"] ELSE inbox[n]]
        /\ vanished' = [n \in NoticeIds |-> IF n \in stale THEN "read"
                                            ELSE IF n \in gone THEN "expired" ELSE vanished[n]]
    BY <1>7 DEF CleanupOldNotifications
  <2>2. ASSUME NEW n \in NoticeIds PROVE NoticeRight(n, inbox'[n], vanished'[n])
    <3>1. /\ NoticeRight(n, inbox[n], vanished[n])
          /\ n \in stale => n \in gone /\ inbox[n].read
          /\ n \in gone /\ n \notin stale => inbox[n].age > MaxRetention
      BY DEF InboxInv, OlderThan
    <3> HIDE DEF stale, gone
    <3> QED BY <2>1, <3>1 DEF NoticeRight, Notices
  <2> QED BY <2>1, <2>2 DEF InboxInv
<1>8. ASSUME PrefsReplicated \/ UNCHANGED inboxVars PROVE InboxInv'
  BY <1>8 DEF InboxInv, PrefsReplicated, inboxVars, NoticeRight
<1>9. ASSUME DayPasses PROVE InboxInv'
  <2>1. /\ vanished' = vanished
        /\ inbox' = [n \in NoticeIds |-> IF inbox[n].state = "kept" /\ inbox[n].age <= MaxRetention
                                         THEN [inbox[n] EXCEPT !.age = @ + 1] ELSE inbox[n]]
    BY <1>9 DEF DayPasses
  <2>2. ASSUME NEW n \in NoticeIds PROVE NoticeRight(n, inbox'[n], vanished'[n])
    <3>1. NoticeRight(n, inbox[n], vanished[n])
      BY DEF InboxInv
    <3> QED BY <2>1, <3>1 DEF NoticeRight, Notices
  <2> QED BY <2>1, <2>2 DEF InboxInv
<1> QED BY <1>1, CheckKept, <1>3, <1>4, <1>5, <1>6, <1>7, <1>8, <1>9 DEF InboxNext

\* Which is the promise.
LEMMA InboxKept == InboxInv => InboxHolds
BY DEF InboxInv, NoticeRight, InboxHolds

-----------------------------------------------------------------------------
(* Templates. *)

\* Creations that only have the commit before them.
Inserted == {e \in Editors : editor[e].pc = "inserted"}

\* What every editor's request looks like.
EditorsTyped ==
  editor \in [Editors -> [pc : {"idle", "counted", "cleared", "inserted", "activate", "activating", "delete"},
                          id : VersionIds \cup {0}, body : Contents \cup {NoContent},
                          active : BOOLEAN, off : SUBSET VersionIds]]

\* Versions, and what is composed of the active one.
VersionsRight ==
  /\ DOMAIN versions \subseteq VersionIds /\ IsFiniteSet(DOMAIN versions)
  /\ versions \in [DOMAIN versions -> [body : Contents \cup {NoContent}, active : BOOLEAN]]
  /\ \A v, w \in ActiveVersions : v = w
  /\ ~legacy => \A v \in ActiveVersions : content = versions[v].body
  /\ Cardinality(DOMAIN versions) + Cardinality(Inserted) <= MaxTemplateVersions + Cardinality(Editors) - 1

\* A rendering remembers what it could show at each instant.
ReaderRight ==
  /\ reader \in [pc : {"idle", "start", "custom", "done"}, shown : Contents \cup {NoContent, EmbeddedDefault},
                 seen : SUBSET (Contents \cup {NoContent, EmbeddedDefault}), clean : BOOLEAN]
  /\ reader.pc = "start" => Resolve(versions, content) \in reader.seen
  /\ reader.pc = "custom" /\ reader.clean =>
       (IF Executes(content) THEN content ELSE EmbeddedDefault) \in reader.seen
  /\ reader.pc = "done" /\ reader.clean => reader.shown \in reader.seen

TemplatesInv == EditorsTyped /\ VersionsRight /\ ReaderRight /\ content \in Contents \cup {NoContent}

\* A rendering shows a body, or what is compiled in.
LEMMA ResolveTyped ==
  ASSUME NEW vs, vs \in [DOMAIN vs -> [body : Contents \cup {NoContent}, active : BOOLEAN]],
         NEW c \in Contents \cup {NoContent}
  PROVE  Resolve(vs, c) \in Contents \cup {NoContent, EmbeddedDefault}
<1> DEFINE act == {v \in DOMAIN vs : vs[v].active /\ Executes(vs[v].body)}
<1>1. CASE act # {}
  <2>1. (CHOOSE v \in act : TRUE) \in act
    BY <1>1
  <2>2. vs[CHOOSE v \in act : TRUE].body \in Contents \cup {NoContent}
    BY <2>1
  <2> QED BY <1>1, <2>2 DEF Resolve
<1>2. CASE act = {}
  BY <1>2 DEF Resolve
<1> QED BY <1>1, <1>2

\* With one version active, a rendering in one instant shows its composition.
LEMMA ResolveActive ==
  ASSUME NEW vs, NEW v \in DOMAIN vs, vs[v].active, \A w \in DOMAIN vs : vs[w].active => w = v
  PROVE  Resolve(vs, vs[v].body) = IF Executes(vs[v].body) THEN vs[v].body ELSE EmbeddedDefault
<1> DEFINE act == {w \in DOMAIN vs : vs[w].active /\ Executes(vs[w].body)}
<1>1. CASE Executes(vs[v].body)
  <2>1. act = {v}
    BY <1>1
  <2>2. (CHOOSE w \in act : TRUE) = v
    BY <2>1
  <2> QED BY <1>1, <2>1, <2>2 DEF Resolve
<1>2. CASE ~Executes(vs[v].body)
  <2>1. act = {}
    BY <1>2
  <2> QED BY <1>2, <2>1 DEF Resolve
<1> QED BY <1>1, <1>2

\* A rendering under way sees every change of the tables, and none but one of the
\* parent on its own can take away what it may show.
LEMMA RewriteKept ==
  ASSUME ReaderRight, content \in Contents \cup {NoContent},
         NEW vs, vs \in [DOMAIN vs -> [body : Contents \cup {NoContent}, active : BOOLEAN]],
         NEW c \in Contents \cup {NoContent}, NEW byLegacy \in BOOLEAN, Rewrite(vs, c, byLegacy),
         byLegacy \/ c = content \/ Resolve(vs, c) = (IF Executes(c) THEN c ELSE EmbeddedDefault)
  PROVE  ReaderRight' /\ versions' = vs /\ content' = c /\ content' \in Contents \cup {NoContent}
<1> DEFINE shows == IF Executes(c) THEN c ELSE EmbeddedDefault
           now == Resolve(vs, c)
<1>1. now \in Contents \cup {NoContent, EmbeddedDefault}
  BY ResolveTyped
<1>2. versions' = vs /\ content' = c
  BY DEF Rewrite
<1>3. Resolve(versions', content') = now /\ (IF Executes(content') THEN content' ELSE EmbeddedDefault) = shows
  BY <1>2
<1>4. byLegacy \/ shows = (IF Executes(content) THEN content ELSE EmbeddedDefault) \/ now = shows
  OBVIOUS
<1>5. reader' = IF reader.pc = "idle" THEN reader
                ELSE [pc |-> reader.pc, shown |-> reader.shown,
                      seen |-> reader.seen \cup {now}, clean |-> reader.clean /\ ~byLegacy]
  BY DEF Rewrite
<1> HIDE DEF shows, now
<1>6. ReaderRight'
  <2>1. CASE reader.pc = "idle"
    BY <1>5, <2>1 DEF ReaderRight
  <2>2. CASE reader.pc # "idle"
    <3>1. reader' = [pc |-> reader.pc, shown |-> reader.shown,
                     seen |-> reader.seen \cup {now}, clean |-> reader.clean /\ ~byLegacy]
      BY <1>5, <2>2
    <3>2. reader' \in [pc : {"idle", "start", "custom", "done"}, shown : Contents \cup {NoContent, EmbeddedDefault},
                       seen : SUBSET (Contents \cup {NoContent, EmbeddedDefault}), clean : BOOLEAN]
      BY <1>1, <3>1 DEF ReaderRight
    <3>3. now \in reader'.seen
      BY <3>1
    <3>4. reader'.pc = "custom" /\ reader'.clean => shows \in reader'.seen
      BY <1>4, <3>1 DEF ReaderRight
    <3>5. reader'.pc = "done" /\ reader'.clean => reader'.shown \in reader'.seen
      BY <3>1 DEF ReaderRight
    <3> QED BY <1>3, <3>2, <3>3, <3>4, <3>5 DEF ReaderRight
  <2> QED BY <2>1, <2>2
<1> QED BY <1>2, <1>6

\* A step of one editor leaves the others' requests, and moves its own in or out
\* of those about to commit.
LEMMA InsertedMoves ==
  ASSUME EditorsTyped, NEW e \in Editors, NEW x, editor' = [editor EXCEPT ![e] = x]
  PROVE  /\ x.pc # "inserted" => Inserted' = Inserted \ {e}
         /\ x.pc = "inserted" => Inserted' = Inserted \cup {e}
         /\ IsFiniteSet(Inserted) /\ Cardinality(Inserted) \in Nat
         /\ IsFiniteSet(Inserted') /\ Cardinality(Inserted') \in Nat
         /\ Cardinality(Inserted') <= Cardinality(Editors) /\ Cardinality(Editors) \in Nat
         /\ x.pc # "inserted" => Cardinality(Inserted') <= Cardinality(Inserted)
         /\ x.pc # "inserted" /\ editor[e].pc = "inserted"
              => Cardinality(Inserted') = Cardinality(Inserted) - 1
<1>1. \A f \in Editors : editor'[f] = IF f = e THEN x ELSE editor[f]
  BY DEF EditorsTyped
<1>2. /\ x.pc # "inserted" => Inserted' = Inserted \ {e}
      /\ x.pc = "inserted" => Inserted' = Inserted \cup {e}
  BY <1>1 DEF Inserted
<1>3. Inserted \subseteq Editors /\ Inserted' \subseteq Editors
  BY DEF Inserted
<1>4. /\ IsFiniteSet(Inserted) /\ Cardinality(Inserted) \in Nat
      /\ IsFiniteSet(Inserted') /\ Cardinality(Inserted') \in Nat
      /\ Cardinality(Inserted') <= Cardinality(Editors) /\ Cardinality(Editors) \in Nat
  BY <1>3, MailingAssumption, FS_Subset, FS_CardinalityType
<1>5. Cardinality(Inserted \ {e}) = IF e \in Inserted THEN Cardinality(Inserted) - 1 ELSE Cardinality(Inserted)
  BY <1>4, FS_RemoveElement
<1>6. editor[e].pc = "inserted" => e \in Inserted
  BY DEF Inserted
<1> HIDE DEF Inserted
<1> QED BY <1>2, <1>4, <1>5, <1>6

\* At first there are no versions.
LEMMA TemplatesStart == TemplatesInit => TemplatesInv
<1> SUFFICES ASSUME TemplatesInit PROVE TemplatesInv
  OBVIOUS
<1>1. EditorsTyped
  BY DEF TemplatesInit, EditorsTyped, EditorIdle
<1>2. Inserted = {} /\ DOMAIN versions = {} /\ ActiveVersions = {}
  BY DEF TemplatesInit, Inserted, EditorIdle, ActiveVersions
<1>3. VersionsRight
  <2>1. Cardinality({}) = 0 /\ IsFiniteSet({}) /\ Cardinality(Editors) \in Nat
    BY FS_EmptySet, FS_CardinalityType, MailingAssumption
  <2>2. versions \in [DOMAIN versions -> [body : Contents \cup {NoContent}, active : BOOLEAN]]
    BY <1>2 DEF TemplatesInit
  <2> QED BY <1>2, <2>1, <2>2, MailingAssumption DEF VersionsRight
<1> QED BY <1>1, <1>3 DEF TemplatesInit, TemplatesInv, ReaderRight, ReaderIdle

\* A request that only moves on.
LEMMA EditorMoves ==
  ASSUME TemplatesInv, NEW e \in Editors,
         NEW x \in [pc : {"idle", "counted", "cleared", "inserted", "activate", "activating", "delete"},
                    id : VersionIds \cup {0}, body : Contents \cup {NoContent},
                    active : BOOLEAN, off : SUBSET VersionIds],
         editor' = [editor EXCEPT ![e] = x], UNCHANGED <<versions, content, legacy, reader>>,
         x.pc = "inserted" => Cardinality(DOMAIN versions) < MaxTemplateVersions
  PROVE  TemplatesInv'
<1>1. EditorsTyped'
  BY DEF TemplatesInv, EditorsTyped
<1>2. VersionsRight'
  <2>1. /\ IsFiniteSet(DOMAIN versions) /\ Cardinality(DOMAIN versions) \in Nat
        /\ Cardinality(DOMAIN versions) + Cardinality(Inserted) <= MaxTemplateVersions + Cardinality(Editors) - 1
    BY FS_CardinalityType DEF TemplatesInv, VersionsRight
  <2>2. /\ Cardinality(Inserted) \in Nat /\ Cardinality(Inserted') \in Nat /\ Cardinality(Editors) \in Nat
        /\ Cardinality(Inserted') <= Cardinality(Editors)
        /\ x.pc # "inserted" => Cardinality(Inserted') <= Cardinality(Inserted)
    BY InsertedMoves DEF TemplatesInv
  <2>3. Cardinality(DOMAIN versions') + Cardinality(Inserted') <= MaxTemplateVersions + Cardinality(Editors) - 1
    BY <2>1, <2>2, MailingAssumption
  <2>4. ActiveVersions' = ActiveVersions
    BY DEF ActiveVersions
  <2> QED BY <2>3, <2>4 DEF TemplatesInv, VersionsRight
<1>3. ReaderRight' /\ content' \in Contents \cup {NoContent}
  BY DEF TemplatesInv, ReaderRight, Resolve
<1> QED BY <1>1, <1>2, <1>3 DEF TemplatesInv

\* A request that ends is none of those about to commit any more.
LEMMA EditorEnds ==
  ASSUME EditorsTyped, NEW e \in Editors, editor' = [editor EXCEPT ![e] = EditorIdle]
  PROVE  /\ EditorsTyped'
         /\ Cardinality(Inserted) \in Nat /\ Cardinality(Inserted') \in Nat /\ Cardinality(Editors) \in Nat
         /\ Cardinality(Inserted') <= Cardinality(Inserted)
         /\ editor[e].pc = "inserted" => Cardinality(Inserted') = Cardinality(Inserted) - 1
<1>1. EditorIdle.pc # "inserted"
  BY DEF EditorIdle
<1>2. EditorsTyped'
  BY DEF EditorsTyped, EditorIdle
<1>3. PICK x : x = EditorIdle
  OBVIOUS
<1>4. editor' = [editor EXCEPT ![e] = x] /\ x.pc # "inserted"
  BY <1>1, <1>3
<1> QED BY <1>2, <1>4, InsertedMoves

\* A new version, or one that replaces those before it, is added by its commit.
LEMMA CommitKept ==
  ASSUME TemplatesInv, NEW e \in Editors, CommitVersion(e)
  PROVE  TemplatesInv'
<1> DEFINE v == CHOOSE i \in VersionIds \ DOMAIN versions : TRUE
           x == editor[e]
           base == IF x.active THEN Deactivated(x.off) ELSE versions
           vs == [i \in DOMAIN versions \cup {v} |->
                    IF i = v THEN [body |-> x.body, active |-> x.active] ELSE base[i]]
           c == IF x.active THEN x.body ELSE content
<1>1. v \in VersionIds /\ v \notin DOMAIN versions
  BY DEF CommitVersion
<1>2. /\ x.pc = "inserted" /\ (x.active => ActiveVersions \subseteq x.off)
      /\ x.active \in BOOLEAN /\ x.body \in Contents \cup {NoContent}
  BY DEF CommitVersion, TemplatesInv, EditorsTyped
<1>3. editor' = [editor EXCEPT ![e] = EditorIdle]
  BY DEF CommitVersion, EditDone
<1>4. Rewrite(vs, c, FALSE) /\ (x.active => legacy' = FALSE) /\ (~x.active => legacy' = legacy)
  <2>1. DOMAIN Deactivated(x.off) = DOMAIN versions
    BY DEF Deactivated
  <2>2. CASE x.active
    BY <2>1, <2>2 DEF CommitVersion
  <2>3. CASE ~x.active
    BY <2>3 DEF CommitVersion
  <2> QED BY <2>2, <2>3
<1>5. DOMAIN base = DOMAIN versions /\ base \in [DOMAIN versions -> [body : Contents \cup {NoContent}, active : BOOLEAN]]
  BY DEF Deactivated, TemplatesInv, VersionsRight
<1>6. \A i \in DOMAIN versions : base[i].body = versions[i].body
                               /\ (base[i].active <=> versions[i].active /\ (x.active => i \notin x.off))
  BY DEF Deactivated, TemplatesInv, VersionsRight
<1> HIDE DEF v, base
<1>7. vs \in [DOMAIN vs -> [body : Contents \cup {NoContent}, active : BOOLEAN]]
      /\ DOMAIN vs = DOMAIN versions \cup {v} /\ c \in Contents \cup {NoContent}
  BY <1>2, <1>5 DEF TemplatesInv
<1>8. vs[v] = [body |-> x.body, active |-> x.active] /\ \A i \in DOMAIN versions : vs[i] = base[i]
  BY <1>1
<1>9. x.active => (\A w \in DOMAIN vs : vs[w].active => w = v)
  BY <1>2, <1>6, <1>7, <1>8 DEF ActiveVersions
<1>10. c = content \/ Resolve(vs, c) = (IF Executes(c) THEN c ELSE EmbeddedDefault)
  <2>1. CASE x.active
    <3>1. c = vs[v].body /\ v \in DOMAIN vs /\ vs[v].active
      BY <1>7, <1>8, <2>1
    <3> HIDE DEF vs, c
    <3> QED BY <1>9, <2>1, <3>1, ResolveActive
  <2> QED BY <2>1
<1> HIDE DEF vs, c
<1>11. ReaderRight' /\ versions' = vs /\ content' = c /\ content' \in Contents \cup {NoContent}
  BY <1>4, <1>7, <1>10, RewriteKept DEF TemplatesInv
<1>12. EditorsTyped'
  BY <1>3 DEF TemplatesInv, EditorsTyped, EditorIdle
<1>13. /\ \A i, j \in ActiveVersions' : i = j
       /\ ~legacy' => \A i \in ActiveVersions' : content' = versions'[i].body
  <2>1. CASE x.active
    <3>1. ActiveVersions' \subseteq {v}
      BY <1>9, <1>11, <2>1 DEF ActiveVersions
    <3> QED BY <1>8, <1>11, <2>1, <3>1 DEF c
  <2>2. CASE ~x.active
    <3>1. ActiveVersions' = ActiveVersions /\ \A i \in ActiveVersions : versions'[i].body = versions[i].body
      BY <1>6, <1>7, <1>8, <1>11, <2>2 DEF ActiveVersions
    <3> QED BY <1>4, <1>11, <2>2, <3>1 DEF c, TemplatesInv, VersionsRight
  <2> QED BY <2>1, <2>2
<1>14. /\ DOMAIN versions' = DOMAIN versions \cup {v} /\ IsFiniteSet(DOMAIN versions')
       /\ Cardinality(DOMAIN versions') = Cardinality(DOMAIN versions) + 1 /\ Cardinality(DOMAIN versions) \in Nat
  BY <1>1, <1>7, <1>11, FS_AddElement, FS_CardinalityType DEF TemplatesInv, VersionsRight
<1>15. /\ Cardinality(Inserted) \in Nat /\ Cardinality(Inserted') \in Nat
       /\ Cardinality(Inserted') = Cardinality(Inserted) - 1
  BY <1>2, <1>3, EditorEnds DEF TemplatesInv
<1>16. Cardinality(DOMAIN versions') + Cardinality(Inserted') <= MaxTemplateVersions + Cardinality(Editors) - 1
  BY <1>14, <1>15 DEF TemplatesInv, VersionsRight
<1>17. VersionsRight'
  BY <1>1, <1>7, <1>11, <1>13, <1>14, <1>16 DEF TemplatesInv, VersionsRight
<1> QED BY <1>11, <1>12, <1>17 DEF TemplatesInv

\* The body of one version changes in place.
LEMMA UpdateKept ==
  ASSUME TemplatesInv, NEW v \in VersionIds, NEW body \in Contents, UpdateTemplateVersion(v, body)
  PROVE  TemplatesInv'
<1> DEFINE vs == [versions EXCEPT ![v] = [body |-> body, active |-> versions[v].active]]
           act == versions[v].active
           c == IF act THEN body ELSE content
<1>1. v \in DOMAIN versions /\ editor' = editor /\ act \in BOOLEAN
  BY DEF UpdateTemplateVersion, TemplatesInv, VersionsRight
<1>2. Rewrite(vs, c, FALSE) /\ (act => legacy' = FALSE) /\ (~act => legacy' = legacy)
  BY DEF UpdateTemplateVersion
<1>3. /\ DOMAIN vs = DOMAIN versions /\ c \in Contents \cup {NoContent}
      /\ vs \in [DOMAIN vs -> [body : Contents \cup {NoContent}, active : BOOLEAN]]
      /\ vs[v] = [body |-> body, active |-> act]
      /\ \A i \in DOMAIN versions : i # v => vs[i] = versions[i]
  BY <1>1 DEF TemplatesInv, VersionsRight
<1> HIDE DEF act
<1>4. {i \in DOMAIN vs : vs[i].active} = ActiveVersions
  BY <1>1, <1>3 DEF ActiveVersions, act
<1>5. act => \A w \in DOMAIN vs : vs[w].active => w = v
  <2>1. act => v \in ActiveVersions
    BY <1>1 DEF act, ActiveVersions
  <2> QED BY <1>4, <2>1 DEF TemplatesInv, VersionsRight
<1>6. c = content \/ Resolve(vs, c) = (IF Executes(c) THEN c ELSE EmbeddedDefault)
  <2>1. CASE act
    <3>1. c = vs[v].body /\ v \in DOMAIN vs /\ vs[v].active
      BY <1>1, <1>3, <2>1
    <3> HIDE DEF vs, c
    <3> QED BY <1>5, <2>1, <3>1, ResolveActive
  <2> QED BY <2>1
<1> HIDE DEF vs, c
<1>7. ReaderRight' /\ versions' = vs /\ content' = c /\ content' \in Contents \cup {NoContent}
  BY <1>2, <1>3, <1>6, RewriteKept DEF TemplatesInv
<1>8. Inserted' = Inserted /\ EditorsTyped'
  BY <1>1 DEF Inserted, TemplatesInv, EditorsTyped
<1>9. ActiveVersions' = ActiveVersions
  BY <1>4, <1>7 DEF ActiveVersions
<1>10. ~legacy' => \A i \in ActiveVersions' : content' = versions'[i].body
  <2>1. CASE act
    BY <1>3, <1>5, <1>7, <2>1 DEF c, ActiveVersions
  <2>2. CASE ~act
    <3>1. \A i \in ActiveVersions : i # v /\ i \in DOMAIN versions
      BY <2>2 DEF act, ActiveVersions
    <3> QED BY <1>2, <1>3, <1>7, <1>9, <2>2, <3>1 DEF c, TemplatesInv, VersionsRight
  <2> QED BY <2>1, <2>2
<1>11. VersionsRight'
  BY <1>3, <1>7, <1>8, <1>9, <1>10 DEF TemplatesInv, VersionsRight
<1> QED BY <1>7, <1>8, <1>11 DEF TemplatesInv

\* An activation leaves one version active, composed into the parent row.
LEMMA ActivateKept ==
  ASSUME TemplatesInv, NEW e \in Editors, ActivateTemplateVersion(e)
  PROVE  TemplatesInv'
<1> DEFINE v == editor[e].id
           base == Deactivated(editor[e].off)
           c == versions[v].body
           vs == [base EXCEPT ![v] = [body |-> c, active |-> TRUE]]
<1>1. /\ v \in DOMAIN versions /\ ActiveVersions \subseteq editor[e].off \cup {v}
      /\ editor' = [editor EXCEPT ![e] = EditorIdle] /\ Rewrite(vs, c, FALSE) /\ legacy' = FALSE
  BY DEF ActivateTemplateVersion, EditDone
<1>2. /\ DOMAIN base = DOMAIN versions
      /\ base \in [DOMAIN versions -> [body : Contents \cup {NoContent}, active : BOOLEAN]]
      /\ \A i \in DOMAIN versions : base[i].active <=> versions[i].active /\ i \notin editor[e].off
  BY DEF Deactivated, TemplatesInv, VersionsRight
<1>3. c \in Contents \cup {NoContent}
  BY <1>1 DEF TemplatesInv, VersionsRight
<1> HIDE DEF base, c, v
<1>4. /\ DOMAIN vs = DOMAIN versions /\ vs[v] = [body |-> c, active |-> TRUE]
      /\ vs \in [DOMAIN vs -> [body : Contents \cup {NoContent}, active : BOOLEAN]]
      /\ \A i \in DOMAIN versions : i # v => vs[i] = base[i]
  BY <1>1, <1>2, <1>3
<1>5. \A w \in DOMAIN vs : vs[w].active => w = v
  BY <1>1, <1>2, <1>4 DEF ActiveVersions
<1> HIDE DEF vs
<1>6. Resolve(vs, c) = (IF Executes(c) THEN c ELSE EmbeddedDefault)
  <2>1. c = vs[v].body /\ v \in DOMAIN vs /\ vs[v].active
    BY <1>1, <1>4
  <2> QED BY <1>5, <2>1, ResolveActive
<1>7. ReaderRight' /\ versions' = vs /\ content' = c /\ content' \in Contents \cup {NoContent}
  BY <1>1, <1>3, <1>4, <1>6, RewriteKept DEF TemplatesInv
<1>8. EditorsTyped'
  BY <1>1 DEF TemplatesInv, EditorsTyped, EditorIdle
<1>9. ActiveVersions' = {v}
  BY <1>1, <1>4, <1>5, <1>7 DEF ActiveVersions
<1>10. /\ Cardinality(Inserted) \in Nat /\ Cardinality(Inserted') \in Nat /\ Cardinality(Editors) \in Nat
       /\ Cardinality(Inserted') <= Cardinality(Inserted) /\ Cardinality(DOMAIN versions) \in Nat
  BY <1>1, EditorEnds, FS_CardinalityType DEF TemplatesInv, VersionsRight
<1>11. VersionsRight'
  BY <1>4, <1>7, <1>9, <1>10, MailingAssumption DEF TemplatesInv, VersionsRight
<1> QED BY <1>7, <1>8, <1>11 DEF TemplatesInv

\* A deletion may take the active version with it.
LEMMA DeleteKept ==
  ASSUME TemplatesInv, NEW e \in Editors, DeleteTemplateVersion(e)
  PROVE  TemplatesInv'
<1> DEFINE v == editor[e].id
           vs == [i \in DOMAIN versions \ {v} |-> versions[i]]
<1>1. editor' = [editor EXCEPT ![e] = EditorIdle] /\ Rewrite(vs, content, FALSE) /\ legacy' = legacy
  BY DEF DeleteTemplateVersion, EditDone
<1>2. /\ DOMAIN vs = DOMAIN versions \ {v} /\ \A i \in DOMAIN vs : vs[i] = versions[i]
      /\ vs \in [DOMAIN vs -> [body : Contents \cup {NoContent}, active : BOOLEAN]]
  BY DEF TemplatesInv, VersionsRight
<1> HIDE DEF vs, v
<1>3. ReaderRight' /\ versions' = vs /\ content' = content /\ content' \in Contents \cup {NoContent}
  BY <1>1, <1>2, RewriteKept DEF TemplatesInv
<1>4. EditorsTyped'
  BY <1>1 DEF TemplatesInv, EditorsTyped, EditorIdle
<1>5. ActiveVersions' \subseteq ActiveVersions /\ \A i \in ActiveVersions' : versions'[i] = versions[i]
  BY <1>2, <1>3 DEF ActiveVersions
<1>6. /\ Cardinality(Inserted) \in Nat /\ Cardinality(Inserted') \in Nat /\ Cardinality(Editors) \in Nat
      /\ Cardinality(Inserted') <= Cardinality(Inserted)
  BY <1>1, EditorEnds DEF TemplatesInv
<1>7. /\ IsFiniteSet(DOMAIN versions') /\ Cardinality(DOMAIN versions') \in Nat
      /\ Cardinality(DOMAIN versions) \in Nat /\ Cardinality(DOMAIN versions') <= Cardinality(DOMAIN versions)
  BY <1>2, <1>3, FS_Subset, FS_CardinalityType DEF TemplatesInv, VersionsRight
<1>8. VersionsRight'
  BY <1>1, <1>2, <1>3, <1>5, <1>6, <1>7, MailingAssumption DEF TemplatesInv, VersionsRight
<1> QED BY <1>3, <1>4, <1>8 DEF TemplatesInv

\* The parent row alone is written: renderings under way are not vouched for.
LEMMA LegacyKept ==
  ASSUME TemplatesInv, NEW c \in Contents \cup {NoContent}, Rewrite(versions, c, TRUE),
         legacy' = TRUE, editor' = editor
  PROVE  TemplatesInv'
<1>1. ReaderRight' /\ versions' = versions /\ content' = c /\ content' \in Contents \cup {NoContent}
  BY RewriteKept DEF TemplatesInv, VersionsRight
<1>2. EditorsTyped' /\ Inserted' = Inserted /\ ActiveVersions' = ActiveVersions
  BY <1>1 DEF TemplatesInv, EditorsTyped, Inserted, ActiveVersions
<1> QED BY <1>1, <1>2 DEF TemplatesInv, VersionsRight

\* What a rendering does changes nothing but the rendering.
LEMMA ReaderMoves ==
  ASSUME TemplatesInv, ReaderRight', UNCHANGED <<versions, content, editor, legacy, edits>>
  PROVE  TemplatesInv'
<1>1. EditorsTyped' /\ Inserted' = Inserted /\ ActiveVersions' = ActiveVersions
  BY DEF TemplatesInv, EditorsTyped, Inserted, ActiveVersions
<1> QED BY <1>1 DEF TemplatesInv, VersionsRight

\* The rendering reads one source after the other.
LEMMA ReadKept ==
  ASSUME TemplatesInv,
         \/ \E body \in Contents : PreviewContent(body)
         \/ RenderEmbedded \/ Render \/ GetActiveVersion \/ GetTemplate \/ TemplateReadFails \/ RenderReturns
  PROVE  TemplatesInv'
<1> DEFINE shows == IF Executes(content) THEN content ELSE EmbeddedDefault
           Bodies == Contents \cup {NoContent, EmbeddedDefault}
           now == Resolve(versions, content)
<1>1. now \in Bodies /\ shows \in Bodies /\ NoContent \in Bodies /\ EmbeddedDefault \in Bodies
  BY ResolveTyped DEF TemplatesInv, VersionsRight
<1>2. UNCHANGED <<versions, content, editor, legacy, edits>>
  BY DEF PreviewContent, RenderEmbedded, Render, GetActiveVersion, GetTemplate, TemplateReadFails, RenderReturns
<1>3. now' = now /\ shows' = shows
  BY <1>2 DEF Resolve, Executes
<1>4. /\ reader \in [pc : {"idle", "start", "custom", "done"}, shown : Bodies, seen : SUBSET Bodies, clean : BOOLEAN]
      /\ reader.pc = "start" => now \in reader.seen
      /\ reader.pc = "custom" /\ reader.clean => shows \in reader.seen
  BY DEF TemplatesInv, ReaderRight
<1>5. ASSUME NEW r \in [pc : {"idle", "start", "custom", "done"}, shown : Bodies, seen : SUBSET Bodies, clean : BOOLEAN],
             reader' = r, r.pc = "start" => now \in r.seen,
             r.pc = "custom" /\ r.clean => shows \in r.seen,
             r.pc = "done" /\ r.clean => r.shown \in r.seen
      PROVE  TemplatesInv'
  <2>1. ReaderRight'
    BY <1>3, <1>5 DEF ReaderRight
  <2> QED BY <1>2, <2>1, ReaderMoves
<1>6. CASE \E body \in Contents : PreviewContent(body)
  <2>1. PICK body \in Contents : reader' = [pc |-> "done", shown |-> body, seen |-> {body}, clean |-> TRUE]
    BY <1>6 DEF PreviewContent
  <2> DEFINE r == [pc |-> "done", shown |-> body, seen |-> {body}, clean |-> TRUE]
  <2>2. r \in [pc : {"idle", "start", "custom", "done"}, shown : Bodies, seen : SUBSET Bodies, clean : BOOLEAN]
    OBVIOUS
  <2>3. r.pc = "done" /\ r.shown \in r.seen
    OBVIOUS
  <2> HIDE DEF r, shows, now, Bodies
  <2> QED BY <1>5, <2>1, <2>2, <2>3 DEF r
<1>7. CASE RenderEmbedded
  <2>1. reader' = [pc |-> "done", shown |-> EmbeddedDefault, seen |-> {now}, clean |-> FALSE]
    BY <1>7 DEF RenderEmbedded
  <2> DEFINE r == [pc |-> "done", shown |-> EmbeddedDefault, seen |-> {now}, clean |-> FALSE]
  <2> HIDE DEF shows, now, Bodies
  <2>2. r \in [pc : {"idle", "start", "custom", "done"}, shown : Bodies, seen : SUBSET Bodies, clean : BOOLEAN]
    BY <1>1
  <2>3. r.pc = "done" /\ ~r.clean
    OBVIOUS
  <2> HIDE DEF r
  <2> QED BY <1>5, <2>1, <2>2, <2>3 DEF r
<1>8. CASE Render
  <2>1. reader' = [pc |-> "start", shown |-> NoContent, seen |-> {now}, clean |-> TRUE]
    BY <1>8 DEF Render
  <2> DEFINE r == [pc |-> "start", shown |-> NoContent, seen |-> {now}, clean |-> TRUE]
  <2> HIDE DEF shows, now, Bodies
  <2>2. r \in [pc : {"idle", "start", "custom", "done"}, shown : Bodies, seen : SUBSET Bodies, clean : BOOLEAN]
    BY <1>1
  <2>3. r.pc = "start" /\ now \in r.seen
    OBVIOUS
  <2> HIDE DEF r
  <2> QED BY <1>5, <2>1, <2>2, <2>3 DEF r
<1>9. CASE GetActiveVersion
  <2> DEFINE act == {v \in ActiveVersions : Executes(versions[v].body)}
  <2>1. reader.pc = "start" /\ act = {v \in DOMAIN versions : versions[v].active /\ Executes(versions[v].body)}
    BY <1>9 DEF GetActiveVersion, ActiveVersions
  <2>2. CASE act # {}
    <3> DEFINE r == Shown(now, reader.clean)
    <3>1. now = versions[CHOOSE v \in act : TRUE].body
      BY <2>1, <2>2 DEF Resolve
    <3>2. reader' = r
      BY <1>9, <2>2, <3>1 DEF GetActiveVersion
    <3> HIDE DEF now, shows, Bodies
    <3>3. r \in [pc : {"idle", "start", "custom", "done"}, shown : Bodies, seen : SUBSET Bodies, clean : BOOLEAN]
      BY <1>1, <1>4 DEF Shown
    <3>4. r.pc = "done" /\ r.shown \in r.seen
      BY <1>4, <2>1 DEF Shown
    <3> HIDE DEF r
    <3> QED BY <1>5, <3>2, <3>3, <3>4
  <2>3. CASE act = {}
    <3>1. now = shows
      BY <2>1, <2>3 DEF Resolve
    <3>2. reader' = [reader EXCEPT !.pc = "custom"]
      BY <1>9, <2>3 DEF GetActiveVersion
    <3> DEFINE r == [reader EXCEPT !.pc = "custom"]
    <3> HIDE DEF now, shows, Bodies
    <3>3. r \in [pc : {"idle", "start", "custom", "done"}, shown : Bodies, seen : SUBSET Bodies, clean : BOOLEAN]
      BY <1>4
    <3>4. r.pc = "custom" /\ shows \in r.seen
      BY <1>4, <2>1, <3>1
    <3> HIDE DEF r
    <3> QED BY <1>5, <3>2, <3>3, <3>4 DEF r
  <2> QED BY <2>2, <2>3
<1>10. CASE GetTemplate
  <2> DEFINE r == Shown(shows, reader.clean)
  <2>1. reader.pc = "custom" /\ reader' = r
    BY <1>10 DEF GetTemplate
  <2> HIDE DEF now, shows, Bodies
  <2>2. r \in [pc : {"idle", "start", "custom", "done"}, shown : Bodies, seen : SUBSET Bodies, clean : BOOLEAN]
    BY <1>1, <1>4 DEF Shown
  <2>3. r.pc = "done" /\ (r.clean => r.shown \in r.seen)
    BY <1>4, <2>1 DEF Shown
  <2> HIDE DEF r
  <2> QED BY <1>5, <2>1, <2>2, <2>3
<1>11. CASE TemplateReadFails
  <2> DEFINE r == IF reader.pc = "start"
                  THEN [pc |-> "custom", shown |-> NoContent, seen |-> reader.seen, clean |-> FALSE]
                  ELSE Shown(EmbeddedDefault, FALSE)
  <2>1. reader' = r
    BY <1>11 DEF TemplateReadFails
  <2> HIDE DEF now, shows, Bodies
  <2>2. r \in [pc : {"idle", "start", "custom", "done"}, shown : Bodies, seen : SUBSET Bodies, clean : BOOLEAN]
    BY <1>1, <1>4 DEF Shown
  <2>3. r.pc # "start" /\ ~r.clean
    BY DEF Shown
  <2> HIDE DEF r
  <2> QED BY <1>5, <2>1, <2>2, <2>3
<1>12. CASE RenderReturns
  <2>1. reader' = ReaderIdle
    BY <1>12 DEF RenderReturns
  <2> HIDE DEF now, shows, Bodies
  <2>2. ReaderIdle \in [pc : {"idle", "start", "custom", "done"}, shown : Bodies, seen : SUBSET Bodies, clean : BOOLEAN]
    BY <1>1 DEF ReaderIdle
  <2>3. ReaderIdle.pc = "idle"
    BY DEF ReaderIdle
  <2> QED BY <1>5, <2>1, <2>2, <2>3
<1> QED BY <1>6, <1>7, <1>8, <1>9, <1>10, <1>11, <1>12

\* Each step of a creation, an activation or a deletion before its last.
LEMMA RequestMoves ==
  ASSUME TemplatesInv, NEW e \in Editors,
         \/ \E body \in Contents, active \in BOOLEAN : CountVersions(e, body, active)
         \/ \E v \in VersionIds, op \in {"activate", "delete"} : CheckVersion(e, v, op)
         \/ DeactivateVersions(e) \/ InsertVersion(e) \/ RollbackVersion(e)
  PROVE  TemplatesInv'
<1> DEFINE Requests == [pc : {"idle", "counted", "cleared", "inserted", "activate", "activating", "delete"},
                        id : VersionIds \cup {0}, body : Contents \cup {NoContent},
                        active : BOOLEAN, off : SUBSET VersionIds]
<1>1. UNCHANGED <<versions, content, legacy, reader>>
  BY DEF CountVersions, CheckVersion, DeactivateVersions, InsertVersion, RollbackVersion
<1>2. editor[e] \in Requests /\ editor \in [Editors -> Requests] /\ EditorIdle \in Requests
  BY DEF TemplatesInv, EditorsTyped, EditorIdle
<1>3. ASSUME NEW x \in Requests, editor' = [editor EXCEPT ![e] = x],
             x.pc = "inserted" => Cardinality(DOMAIN versions) < MaxTemplateVersions
      PROVE  TemplatesInv'
  BY <1>1, <1>3, EditorMoves
<1>4. CASE \E body \in Contents, active \in BOOLEAN : CountVersions(e, body, active)
  <2>1. PICK body \in Contents, active \in BOOLEAN : CountVersions(e, body, active)
    BY <1>4
  <2> DEFINE x == [pc |-> IF active THEN "counted" ELSE "cleared", id |-> 0,
                   body |-> body, active |-> active, off |-> {}]
  <2>2. editor' = [editor EXCEPT ![e] = x]
    BY <2>1 DEF CountVersions
  <2>3. x \in Requests /\ x.pc # "inserted"
    OBVIOUS
  <2> HIDE DEF x, Requests
  <2> QED BY <1>3, <2>2, <2>3
<1>5. CASE \E v \in VersionIds, op \in {"activate", "delete"} : CheckVersion(e, v, op)
  <2>1. PICK v \in VersionIds, op \in {"activate", "delete"} : CheckVersion(e, v, op)
    BY <1>5
  <2> DEFINE x == [pc |-> op, id |-> v, body |-> NoContent, active |-> FALSE, off |-> {}]
  <2>2. editor' = [editor EXCEPT ![e] = x]
    BY <2>1 DEF CheckVersion
  <2>3. x \in Requests /\ x.pc # "inserted"
    OBVIOUS
  <2> HIDE DEF x, Requests
  <2> QED BY <1>3, <2>2, <2>3
<1>6. CASE DeactivateVersions(e)
  <2> DEFINE x == [pc |-> IF editor[e].pc = "counted" THEN "cleared" ELSE "activating",
                   id |-> editor[e].id, body |-> editor[e].body, active |-> editor[e].active,
                   off |-> ActiveVersions]
  <2>1. editor' = [editor EXCEPT ![e] = x]
    BY <1>2, <1>6 DEF DeactivateVersions
  <2>2. ActiveVersions \subseteq VersionIds
    BY DEF ActiveVersions, TemplatesInv, VersionsRight
  <2>3. x \in Requests /\ x.pc # "inserted"
    BY <1>2, <2>2
  <2> HIDE DEF x, Requests
  <2> QED BY <1>3, <2>1, <2>3
<1>7. CASE InsertVersion(e)
  <2>1. CASE Cardinality(DOMAIN versions) < MaxTemplateVersions
    <3> DEFINE x == [editor[e] EXCEPT !.pc = "inserted"]
    <3>1. editor' = [editor EXCEPT ![e] = x]
      BY <1>2, <1>7, <2>1 DEF InsertVersion
    <3>2. x \in Requests
      BY <1>2
    <3> HIDE DEF x, Requests
    <3> QED BY <1>3, <2>1, <3>1, <3>2
  <2>2. CASE ~(Cardinality(DOMAIN versions) < MaxTemplateVersions)
    <3>1. editor' = [editor EXCEPT ![e] = EditorIdle] /\ EditorIdle.pc # "inserted"
      BY <1>7, <2>2 DEF InsertVersion, EditorIdle
    <3> HIDE DEF Requests
    <3> QED BY <1>2, <1>3, <3>1
  <2> QED BY <2>1, <2>2
<1>8. CASE RollbackVersion(e)
  <2>1. editor' = [editor EXCEPT ![e] = EditorIdle] /\ EditorIdle.pc # "inserted"
    BY <1>8 DEF RollbackVersion, EditDone, EditorIdle
  <2> HIDE DEF Requests
  <2> QED BY <1>2, <1>3, <2>1
<1> QED BY <1>4, <1>5, <1>6, <1>7, <1>8

\* Whatever the admins and the renderings do keeps the templates right.
LEMMA TemplatesStep == TemplatesInv /\ [TemplatesNext]_templateVars => TemplatesInv'
<1> SUFFICES ASSUME TemplatesInv, [TemplatesNext]_templateVars PROVE TemplatesInv'
  OBVIOUS
<1>1. ASSUME NEW e \in Editors,
             \/ \E body \in Contents, active \in BOOLEAN : CountVersions(e, body, active)
             \/ \E v \in VersionIds, op \in {"activate", "delete"} : CheckVersion(e, v, op)
             \/ DeactivateVersions(e) \/ InsertVersion(e) \/ RollbackVersion(e)
      PROVE  TemplatesInv'
  BY <1>1, RequestMoves
<1>2. ASSUME NEW e \in Editors, CommitVersion(e) PROVE TemplatesInv'
  BY <1>2, CommitKept
<1>3. ASSUME NEW e \in Editors, ActivateTemplateVersion(e) PROVE TemplatesInv'
  BY <1>3, ActivateKept
<1>4. ASSUME NEW e \in Editors, DeleteTemplateVersion(e) PROVE TemplatesInv'
  BY <1>4, DeleteKept
<1>5. ASSUME NEW v \in VersionIds, NEW body \in Contents, UpdateTemplateVersion(v, body) PROVE TemplatesInv'
  BY <1>5, UpdateKept
<1>6. ASSUME NEW body \in Contents, UpdateEmailTemplate(body) PROVE TemplatesInv'
  BY <1>6, LegacyKept DEF UpdateEmailTemplate
<1>7. CASE ResetEmailTemplate
  BY <1>7, LegacyKept DEF ResetEmailTemplate
<1>8. CASE \/ \E body \in Contents : PreviewContent(body)
           \/ RenderEmbedded \/ Render \/ GetActiveVersion \/ GetTemplate \/ TemplateReadFails \/ RenderReturns
  BY <1>8, ReadKept
<1>9. CASE UNCHANGED templateVars
  <2>1. ReaderRight' /\ UNCHANGED <<versions, content, editor, legacy, edits>>
    BY <1>9 DEF templateVars, TemplatesInv, ReaderRight, Resolve, Executes
  <2> QED BY <2>1, ReaderMoves
<1> QED BY <1>1, <1>2, <1>3, <1>4, <1>5, <1>6, <1>7, <1>8, <1>9 DEF TemplatesNext

\* What is kept says what is asked of the templates.
LEMMA TemplatesKept == TemplatesInv => TemplatesHold
<1> SUFFICES ASSUME TemplatesInv PROVE TemplatesHold
  OBVIOUS
<1>1. Cardinality(ActiveVersions) <= 1
  <2>1. CASE ActiveVersions = {}
    BY <2>1, FS_EmptySet
  <2>2. CASE ActiveVersions # {}
    <3>1. PICK v : v \in ActiveVersions
      BY <2>2
    <3>2. ActiveVersions = {v}
      BY <3>1 DEF TemplatesInv, VersionsRight
    <3> QED BY <3>2, FS_Singleton
  <2> QED BY <2>1, <2>2
<1>2. /\ Cardinality(Inserted) \in Nat /\ Cardinality(Editors) \in Nat /\ Cardinality(DOMAIN versions) \in Nat
  <2>1. Inserted \subseteq Editors
    BY DEF Inserted
  <2> QED BY <2>1, MailingAssumption, FS_Subset, FS_CardinalityType DEF TemplatesInv, VersionsRight
<1>3. Cardinality(DOMAIN versions) <= MaxTemplateVersions + Cardinality(Editors) - 1
  BY <1>2, MailingAssumption DEF TemplatesInv, VersionsRight
<1> QED BY <1>1, <1>3 DEF TemplatesHold, TemplatesInv, VersionsRight, ReaderRight

MailingInv == TemplatesInv /\ MailsInv /\ InboxInv

\* Mails and the inbox (handlers_email_versions.go, email.go, inapp.go): one
\* version of a template is active and is what an undisturbed mail shows, no
\* recipient gets a mail twice or unaccounted for, and an unread notice goes only
\* by its owner or by age, for any number of admins, versions, recipients and
\* notices.
THEOREM MailingAlwaysRight == Spec => []MailingRight
<1>1. Init => MailingInv
  BY TemplatesStart, MailsStart, InboxStart DEF Init, MailingInv
<1>2. MailingInv /\ [Next]_platformVars => MailingInv'
  <2> SUFFICES ASSUME MailingInv, [Next]_platformVars PROVE MailingInv'
    OBVIOUS
  <2>1. [TemplatesNext]_templateVars /\ [MailsNext]_mailVars /\ [InboxNext]_inboxVars
    BY DEF Next, platformVars, mailingVars, templateVars, mailVars, inboxVars
  <2> QED BY <2>1, TemplatesStep, MailsStep, InboxStep DEF MailingInv
<1>3. MailingInv => MailingRight
  BY TemplatesKept, MailsHold, InboxKept DEF MailingInv, MailingRight, MailingHolds
<1> QED BY <1>1, <1>2, <1>3, PTL DEF Spec, platformVars

-----------------------------------------------------------------------------
(* Contests. *)

CatalogueInv == CalendarInv /\ FreegenInv /\ ArchiveInv /\ CatalogInv /\ PlanningInv

\* The catalogue (calendar.go, free_contest_generator.go, cleanup.go,
\* handlers_contest.go, handlers_template.go): a slot of the calendar makes one
\* contest and none is passed unseen, an hour has one free contest, a contest is
\* archived once, partial updates leave fees and prizes consistent, and plans
\* stay sound, for any number of pods and tiers and without any bound on slots.
THEOREM CatalogAlwaysRight == Spec => []CatalogRight
<1>1. Init => CatalogueInv
  BY CalendarStart, FreegenStart, ArchiveStart, CatalogStart, PlanningStart DEF Init, CatalogueInv
<1>2. CatalogueInv /\ [Next]_platformVars => CatalogueInv'
  <2> SUFFICES ASSUME CatalogueInv, [Next]_platformVars PROVE CatalogueInv'
    OBVIOUS
  <2>1. /\ [CalendarNext]_calendarVars /\ [FreegenNext]_freegenVars /\ [ArchiveNext]_archiveVars
        /\ [CatalogNext]_catalogVars /\ [PlanningNext]_planningVars
    BY DEF Next, platformVars, catVars
  <2> QED BY <2>1, CalendarStep, FreegenStep, ArchiveStep, CatalogStep, PlanningStep DEF CatalogueInv
<1>3. CatalogueInv => CatalogRight
  BY CalendarKept DEF CatalogueInv, CatalogRight, CatalogSafe, FreegenInv, ArchiveInv, CatalogInv, PlanningInv
<1> QED BY <1>1, <1>2, <1>3, PTL DEF Spec, platformVars

\* The pauses and the effects of a contest's transitions (contest_transitions.go,
\* contest_handlers.go): a pause moves the end by its length and the scheduler
\* ends no contest before it, every score is what the positions earned, every
\* unit of QTY is free, used or reserved, and ranks follow scores, whatever step
\* fails or is lost, for any participants, gains and length.
THEOREM EffectsAlwaysRight == Spec => []EffectsRight
<1>1. Init => PausesInv /\ EffectsInv
  BY PausesStart, EffectsStart DEF Init
<1>2. PausesInv /\ EffectsInv /\ [Next]_platformVars => (PausesInv /\ EffectsInv)'
  <2> SUFFICES ASSUME PausesInv, EffectsInv, [Next]_platformVars PROVE (PausesInv /\ EffectsInv)'
    OBVIOUS
  <2>1. [PausesNext]_pausesVars /\ [EffectsNext]_effectsVars
    BY DEF Next, platformVars, ceVars
  <2> QED BY <2>1, PausesStep, EffectsStep
<1>3. PausesInv /\ EffectsInv => EffectsRight
  BY PausesKept, EffectsKept DEF EffectsRight, EffectsHold
<1> QED BY <1>1, <1>2, <1>3, PTL DEF Spec, platformVars

=============================================================================
