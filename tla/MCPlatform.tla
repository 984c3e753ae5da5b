----------------------------- MODULE MCPlatform -----------------------------
(***************************************************************************)
(* The services around the contests, each explored on its own: accounts,   *)
(* admin access, identity checks, support, alerts and mails, the           *)
(* catalogue, the effects and the leaderboards of the contests, and the    *)
(* breakers, limiters and read replicas that guard the calls.              *)
(***************************************************************************)
EXTENDS Accounts, SecurityCodes, AdminAccess, Kyc, Tickets, Notifications, Alerting,
        Mailing, ContestCatalog, ContestEffects, Leaderboard, Resilience, ReadPool

VARIABLE part   \* the service a behaviour is about

Init ==
  /\ part \in {"sessions", "totp", "registration", "otp", "reset", "verification", "mfa",
               "grants", "account", "kyc", "tickets", "alerts", "reminders", "aggregator",
               "templates", "mails", "inbox", "calendar", "freegen", "archive", "catalog",
               "planning", "pauses", "effects", "board", "tops", "details", "global",
               "finals", "notices", "breaker", "windows", "buckets", "pool"}
  /\ IF part = "reminders" THEN TRUE ELSE contest = "ahead"
  /\ IF part = "aggregator" THEN TRUE ELSE sender = CHOOSE s \in Senders : TRUE
  /\ IF part = "windows" THEN TRUE ELSE skew = [p \in Limiters |-> 0]
  /\ IF part = "breaker" THEN TRUE ELSE preset = DefaultSetting
  /\ IF part = "catalog" THEN TRUE ELSE edit = [p \in Processors |-> [at |-> "idle", ranks |-> {1}, seen |-> {}]]
  /\ IF part = "notices" THEN TRUE ELSE wants = {}
  /\ SessionInit /\ TotpInit /\ RegistrationInit /\ CodesInit /\ AdminInit /\ KycInit /\
     TicketInit /\ NotifyInit /\ AggregatorInit /\ TemplatesInit /\ MailsInit /\ InboxInit
     /\ CalendarInit /\ FreegenInit /\ ArchiveInit /\ CatalogInit /\ PlanningInit /\
     PausesInit /\ EffectsInit /\ BoardInit /\ TopsInit /\ DetailsInit /\ GlobalInit /\
     FinalsInit /\ NoticesInit /\ BreakerInit /\ WindowInit /\ BucketInit /\ PoolInit

Next ==
  /\ UNCHANGED part
  /\ \/ /\ \/ part = "sessions" /\ SessionNext /\ UNCHANGED <<totpVars, regVars>>
           \/ part = "totp" /\ TotpNext /\ UNCHANGED <<sessionVars, regVars>>
           \/ part = "registration" /\ RegistrationNext /\ UNCHANGED <<sessionVars, totpVars>>
        /\ UNCHANGED <<codeVars, adminVars, kycVars, ticketVars, notifyVars, aggregatorVars,
                       mailingVars, catVars, ceVars, lbVars, resilienceVars, poolVars>>
     \/ /\ \/ part = "otp" /\ OTPNext
           \/ part = "reset" /\ ResetNext
           \/ part = "verification" /\ VerificationNext
        /\ UNCHANGED <<accountVars, adminVars, kycVars, ticketVars, notifyVars,
                       aggregatorVars, mailingVars, catVars, ceVars, lbVars, resilienceVars,
                       poolVars>>
     \/ /\ \/ part = "mfa" /\ MFANext /\ UNCHANGED <<grantVars, lockout, account>>
           \/ part = "grants" /\ GrantNext /\ UNCHANGED <<mfaVars, lockout, account>>
           \/ part = "account" /\ AccountNext /\ UNCHANGED <<mfaVars, fp, grantVars>>
        /\ UNCHANGED <<accountVars, codeVars, kycVars, ticketVars, notifyVars,
                       aggregatorVars, mailingVars, catVars, ceVars, lbVars, resilienceVars,
                       poolVars>>
     \/ /\ part = "kyc" /\ KycNext
        /\ UNCHANGED <<accountVars, codeVars, adminVars, ticketVars, notifyVars,
                       aggregatorVars, mailingVars, catVars, ceVars, lbVars, resilienceVars,
                       poolVars>>
     \/ /\ part = "tickets" /\ TicketNext
        /\ UNCHANGED <<accountVars, codeVars, adminVars, kycVars, notifyVars,
                       aggregatorVars, mailingVars, catVars, ceVars, lbVars, resilienceVars,
                       poolVars>>
     \/ /\ \/ part = "alerts" /\ AlertNext /\ UNCHANGED <<reminderVars>>
           \/ part = "reminders" /\ ReminderNext /\ UNCHANGED <<alertVars>>
        /\ UNCHANGED <<accountVars, codeVars, adminVars, kycVars, ticketVars,
                       aggregatorVars, mailingVars, catVars, ceVars, lbVars, resilienceVars,
                       poolVars>>
     \/ /\ part = "aggregator" /\ AggregatorNext
        /\ UNCHANGED <<accountVars, codeVars, adminVars, kycVars, ticketVars, notifyVars,
                       mailingVars, catVars, ceVars, lbVars, resilienceVars, poolVars>>
     \/ /\ \/ part = "templates" /\ TemplatesNext /\ UNCHANGED <<mailVars, inboxVars>>
           \/ part = "mails" /\ MailsNext /\ UNCHANGED <<templateVars, inboxVars>>
           \/ part = "inbox" /\ InboxNext /\ UNCHANGED <<templateVars, mailVars>>
        /\ UNCHANGED <<accountVars, codeVars, adminVars, kycVars, ticketVars, notifyVars,
                       aggregatorVars, catVars, ceVars, lbVars, resilienceVars, poolVars>>
     \/ /\ \/ part = "calendar" /\ CalendarNext /\ UNCHANGED <<freegenVars, archiveVars, catalogVars, planningVars>>
           \/ part = "freegen" /\ FreegenNext /\ UNCHANGED <<calendarVars, archiveVars, catalogVars, planningVars>>
           \/ part = "archive" /\ ArchiveNext /\ UNCHANGED <<calendarVars, freegenVars, catalogVars, planningVars>>
           \/ part = "catalog" /\ CatalogNext /\ UNCHANGED <<calendarVars, freegenVars, archiveVars, planningVars>>
           \/ part = "planning" /\ PlanningNext /\ UNCHANGED <<calendarVars, freegenVars, archiveVars, catalogVars>>
        /\ UNCHANGED <<accountVars, codeVars, adminVars, kycVars, ticketVars, notifyVars,
                       aggregatorVars, mailingVars, ceVars, lbVars, resilienceVars,
                       poolVars>>
     \/ /\ \/ part = "pauses" /\ PausesNext /\ UNCHANGED <<effectsVars>>
           \/ part = "effects" /\ EffectsNext /\ UNCHANGED <<pausesVars>>
        /\ UNCHANGED <<accountVars, codeVars, adminVars, kycVars, ticketVars, notifyVars,
                       aggregatorVars, mailingVars, catVars, lbVars, resilienceVars,
                       poolVars>>
     \/ /\ \/ part = "board" /\ BoardNext /\ UNCHANGED <<topsVars, detailVars, globalVars, finalVars, noticeVars>>
           \/ part = "tops" /\ TopsNext /\ UNCHANGED <<boardVars, detailVars, globalVars, finalVars, noticeVars>>
           \/ part = "details" /\ DetailsNext /\ UNCHANGED <<boardVars, topsVars, globalVars, finalVars, noticeVars>>
           \/ part = "global" /\ GlobalNext /\ UNCHANGED <<boardVars, topsVars, detailVars, finalVars, noticeVars>>
           \/ part = "finals" /\ FinalsNext /\ UNCHANGED <<boardVars, topsVars, detailVars, globalVars, noticeVars>>
           \/ part = "notices" /\ NoticesNext /\ UNCHANGED <<boardVars, topsVars, detailVars, globalVars, finalVars>>
        /\ UNCHANGED <<accountVars, codeVars, adminVars, kycVars, ticketVars, notifyVars,
                       aggregatorVars, mailingVars, catVars, ceVars, resilienceVars,
                       poolVars>>
     \/ /\ \/ part = "breaker" /\ BreakerNext /\ UNCHANGED <<windowVars, bucketVars>>
           \/ part = "windows" /\ WindowNext /\ UNCHANGED <<breakerVars, bucketVars>>
           \/ part = "buckets" /\ BucketNext /\ UNCHANGED <<breakerVars, windowVars>>
        /\ UNCHANGED <<accountVars, codeVars, adminVars, kycVars, ticketVars, notifyVars,
                       aggregatorVars, mailingVars, catVars, ceVars, lbVars, poolVars>>
     \/ /\ part = "pool" /\ PoolNext
        /\ UNCHANGED <<accountVars, codeVars, adminVars, kycVars, ticketVars, notifyVars,
                       aggregatorVars, mailingVars, catVars, ceVars, lbVars,
                       resilienceVars>>

Spec == Init /\ [][Next]_<<part, accountVars, codeVars, adminVars, kycVars, ticketVars,
                           notifyVars, aggregatorVars, mailingVars, catVars, ceVars, lbVars,
                           resilienceVars, poolVars>>

-----------------------------------------------------------------------------
(* Each service's properties, looked at in the behaviours that are about it. *)

\* A session once revoked never authenticates again, a second factor asked for
\* at login was shown to be held, and whoever registration or OAuth lets in
\* owns the identity (session.go, auth_handlers.go, phone_auth.go).
AccountsRight ==
  part \in {"sessions", "totp", "registration"} =>
    RevokedStaysRevoked /\ EnabledSecretVerified /\ EnteredAsOwner

\* A one-time code is accepted at most once and never after too many guesses,
\* and every forgotten password is reset on a code of its own (otp.go,
\* forgot_password_handlers.go).
CodesRight ==
  part \in {"otp", "reset", "verification"} =>
    CodeAcceptedOnce /\ ResetsBacked

\* A challenge, counter or recovery code admits once, a grant pays for one
\* sensitive action, and no sweep lifts a permanent ban (admin-bff,
\* reauthentication.go).
AdminAccessRight ==
  part \in {"mfa", "grants", "account"} =>
    FactorSpentOnce /\ GrantPaysOnce /\ PermanentBanStays

\* An undecided document belongs to a row in review, and documents and stored
\* images match, whatever uploads and decisions race (kyc_handlers.go,
\* handlers_kyc.go).
KycRight ==
  part \in {"kyc"} =>
    OpenDocsInReview /\ DocumentsHaveFiles

\* A user's last word in a ticket leaves it waiting for support
\* (ticket_handlers.go, handlers_tickets.go).
TicketsRight ==
  part \in {"tickets"} =>
    LastWordAwaitsSupport

\* An accepted alert is sent once even across a shutdown, and reminders repeat
\* only as often as passes found them unmarked (service.go, reminder.go).
NotificationsRight ==
  part \in {"alerts", "reminders"} =>
    AcceptedAlertsSent /\ RemindersBounded

\* Every occurrence of an error is counted in an alert or still held back for
\* one (alerts.go).
AlertingRight ==
  part \in {"aggregator"} =>
    OccurrencesTold

\* Whatever admins edit at once, one version of a template is active and is
\* what mails show; a batch accounts for each recipient; and an unread notice
\* goes only by its owner or by age (handlers_email_versions.go, email.go,
\* inapp.go).
MailingRight ==
  part \in {"templates", "mails", "inbox"} =>
    MailingHolds

\* A slot of the calendar makes its contests once, generated and archived
\* contests are not doubled, and edited plans stay sound (calendar.go,
\* cleanup.go, handlers_contest.go).
CatalogRight ==
  part \in {"calendar", "freegen", "archive", "catalog", "planning"} =>
    CatalogSafe

\* A pause gives its time back, final scores are what the closed positions
\* realized, and ranks follow them (contest_handlers.go, effects.go).
EffectsRight ==
  part \in {"pauses", "effects"} =>
    EffectsHold

\* Boards, cached tops, details, global ranks, final points and result notices
\* follow what was traded, whatever batches, caches and redeliveries
\* interleave (leaderboard-worker).
LeaderboardRight ==
  part \in {"board", "tops", "details", "global", "finals", "notices"} =>
    LeaderboardHolds

\* A half-open breaker always tries again, no window admits more than its
\* limit, dropping an idle bucket gives nothing away, and a vouched-for
\* replica answers with rows no older than the checks allow (breaker.go,
\* sliding_window.go, user_limiter.go, replica.go).
GuardsRight ==
  part \in {"breaker", "windows", "buckets", "pool"} =>
    HalfOpenStillTries /\ WindowsLimit /\ BucketHonest /\ ReadsFresh
=============================================================================
