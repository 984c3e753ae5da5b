--------------------------- MODULE Notifications ---------------------------
(***************************************************************************)
(* Operational alerts and contest reminders.                               *)
(*                                                                         *)
(* notification.Service hands alerts to workers over a bounded channel,    *)
(* and closes the channel when it shuts down.  ReminderService looks, once *)
(* a minute and in every scheduler process, for the reminder tiers a       *)
(* contest has not had yet, mails the participants in batches, writes      *)
(* their in-app notices, and only then marks the tier as sent.             *)
(***************************************************************************)
EXTENDS Integers, FiniteSets, Sequences

CONSTANTS MaxAlerts,    \* bound on the alerts raised
          QueueSize,    \* AsyncQueueSize
          Notifiers,    \* scheduler processes
          Recipients,   \* participants of the contest
          Tiers,        \* reminder intervals, the longest first (1 .. n)
          MaxRetries,   \* maxEmailRetries
          MaxDoubts     \* bound on sends that fail after the mail went out, and on marks that fail

ASSUME NotifiersFinite == IsFiniteSet(Notifiers)

Alerts == 1 .. MaxAlerts

\* The tier of the reminder that a running contest is about to end.
EndTier == 0
ReminderTypes == Tiers \cup {EndTier}

VARIABLES
  aqueue,    \* the channel
  alerts,    \* where each alert is
  attempts,  \* (history) how often each alert was handed to its channels
  svc,       \* the service: running, stopping, closed, drained, gaveUp or panicked
  clock,     \* the tiers whose window has opened
  contest,   \* ahead or running; past once it left that phase (its two phases share no reminder type)
  marked,    \* contest_reminders_sent
  remind,    \* the reminder pass of each process
  optOut,    \* recipients who switched contest mails off
  mails,     \* (history) copies of each tier's mail that reached each recipient
  finds,     \* (history) passes that found a tier unmarked
  doubts,    \* (history) sends that were reported failed, although the mail went out
  noted      \* (history) how often each tier's in-app notices were written

alertVars == <<aqueue, alerts, attempts, svc>>
reminderVars == <<clock, contest, marked, remind, optOut, mails, finds, doubts, noted>>
notifyVars == <<aqueue, alerts, attempts, svc, clock, contest, marked, remind, optOut, mails, finds, doubts, noted>>

Resting == [pc |-> "idle", tier |-> 0, todo |-> {}, tries |-> 0]

NotifyInit ==
  /\ aqueue = <<>>
  /\ alerts = [a \in Alerts |-> "new"]
  /\ attempts = [a \in Alerts |-> 0]
  /\ svc = "running"
  /\ clock = 0
  /\ contest \in {"ahead", "running"}
  /\ marked = {}
  /\ remind = [i \in Notifiers |-> Resting]
  /\ optOut = {}
  /\ mails = [t \in ReminderTypes |-> [r \in Recipients |-> 0]]
  /\ finds = [t \in ReminderTypes |-> 0]
  /\ doubts = 0
  /\ noted = [t \in ReminderTypes |-> 0]

-----------------------------------------------------------------------------
(* notification.Service *)

\* SendAlert and SendAlertAsync look at isShutdown under a lock they release ...
CheckShutdown(a) ==
  /\ alerts[a] = "new"
  /\ alerts' = [alerts EXCEPT ![a] = IF svc = "running" THEN "checked" ELSE "refused"]
  /\ UNCHANGED <<aqueue, attempts, svc>>

\* ... before they offer the alert to the channel: a full one sends a critical
\* alert on the spot and drops any other, a closed one panics.
QueueAlert(a, critical) ==
  /\ alerts[a] = "checked" /\ svc # "panicked"
  /\ \/ /\ svc \in {"closed", "drained", "gaveUp"}
        /\ svc' = "panicked"
        /\ UNCHANGED <<aqueue, alerts, attempts>>
     \/ /\ svc \in {"running", "stopping"} /\ Len(aqueue) < QueueSize
        /\ aqueue' = Append(aqueue, a)
        /\ alerts' = [alerts EXCEPT ![a] = "queued"]
        /\ UNCHANGED <<attempts, svc>>
     \/ /\ svc \in {"running", "stopping"} /\ Len(aqueue) = QueueSize
        /\ alerts' = [alerts EXCEPT ![a] = IF critical THEN "sent" ELSE "dropped"]
        /\ attempts' = [attempts EXCEPT ![a] = IF critical THEN @ + 1 ELSE @]
        /\ UNCHANGED <<aqueue, svc>>

\* processJob: to Discord and by mail, as the severity asks; an error is logged.
Sent(a) ==
  /\ alerts' = [alerts EXCEPT ![a] = "sent"]
  /\ attempts' = [attempts EXCEPT ![a] = @ + 1]

\* A worker that is not stopping, or that prefers the queue to stopCh.
Worker ==
  /\ svc \notin {"drained", "panicked"} /\ aqueue # <<>>
  /\ aqueue' = Tail(aqueue)
  /\ Sent(Head(aqueue))
  /\ UNCHANGED svc

\* Shutdown: the flag and stopCh, ...
Shutdown ==
  /\ svc = "running"
  /\ svc' = "stopping"
  /\ UNCHANGED <<aqueue, alerts, attempts>>

CloseQueue ==
  /\ svc = "stopping"
  /\ svc' = "closed"
  /\ UNCHANGED <<aqueue, alerts, attempts>>

\* A drain that only counts what is left.
DrainQueueCounts ==
  /\ svc = "closed"
  /\ svc' = "drained"
  /\ aqueue' = <<>>
  /\ UNCHANGED <<alerts, attempts>>

\* ... the queue closed, the workers waited for, and what is left sent.
DrainQueue ==
  /\ svc = "closed"
  /\ svc' = "drained"
  /\ aqueue' = <<>>
  /\ LET left == {aqueue[i] : i \in 1 .. Len(aqueue)} IN
       /\ alerts' = [a \in Alerts |-> IF a \in left THEN "sent" ELSE alerts[a]]
       /\ attempts' = [a \in Alerts |-> IF a \in left THEN attempts[a] + 1 ELSE attempts[a]]

\* The caller's context ends first.
ShutdownGivesUp ==
  /\ svc = "closed"
  /\ svc' = "gaveUp"
  /\ UNCHANGED <<aqueue, alerts, attempts>>

AlertNext ==
  \/ \E a \in Alerts : CheckShutdown(a) \/ \E critical \in BOOLEAN : QueueAlert(a, critical)
  \/ Worker \/ Shutdown \/ CloseQueue \/ DrainQueue \/ ShutdownGivesUp

\* An alert the service accepted is sent once: none is sent twice, and none is
\* left behind by a shutdown that ran to its end without a panic.
AcceptedAlertsSent ==
  /\ \A a \in Alerts : attempts[a] <= 1
  /\ svc = "drained" => \A a \in Alerts : alerts[a] # "queued"

-----------------------------------------------------------------------------
(* ReminderService *)

\* Time passes: the next tier's window opens; the contest leaves its phase.
WindowOpens ==
  /\ clock < Cardinality(Tiers) /\ contest = "ahead"
  /\ clock' = clock + 1
  /\ UNCHANGED <<contest, marked, remind, optOut, mails, finds, doubts, noted>>

ContestMoves ==
  /\ contest # "past"
  /\ contest' = "past"
  /\ UNCHANGED <<clock, marked, remind, optOut, mails, finds, doubts, noted>>

\* findContestsNeedingReminders reads contest_reminders_sent on the primary.
FindReminders(i, t) ==
  /\ remind[i] = Resting /\ contest = "ahead"
  /\ t <= clock /\ t \notin marked
  /\ finds' = [finds EXCEPT ![t] = @ + 1]
  /\ remind' = [remind EXCEPT ![i] = [pc |-> "send", tier |-> t, todo |-> Recipients \ optOut, tries |-> 0]]
  /\ UNCHANGED <<clock, contest, marked, optOut, mails, doubts, noted>>

\* findContestsNeedingEndReminders: the same for a running contest, under its own reminder type.
FindEndReminders(i) ==
  /\ remind[i] = Resting /\ contest = "running"
  /\ EndTier \notin marked
  /\ finds' = [finds EXCEPT ![EndTier] = @ + 1]
  /\ remind' = [remind EXCEPT ![i] = [pc |-> "send", tier |-> EndTier, todo |-> Recipients \ optOut, tries |-> 0]]
  /\ UNCHANGED <<clock, contest, marked, optOut, mails, doubts, noted>>

\* sendBatchWithRetry: one mail per recipient, and the failed ones again, three
\* times at most; an open circuit ends it early.  A send may fail after the mail went out.
SendBatchWithRetry(i) ==
  /\ remind[i].pc = "send"
  /\ \E failed \in SUBSET remind[i].todo, doubtful \in BOOLEAN :
       /\ doubtful => doubts < MaxDoubts /\ failed # {}
       /\ LET out == IF doubtful THEN remind[i].todo ELSE remind[i].todo \ failed IN
            mails' = [t \in ReminderTypes |-> [r \in Recipients |->
              IF t = remind[i].tier /\ r \in out THEN mails[t][r] + 1 ELSE mails[t][r]]]
       /\ doubts' = IF doubtful THEN doubts + 1 ELSE doubts
       /\ \/ /\ failed # {} /\ remind[i].tries < MaxRetries
             /\ remind' = [remind EXCEPT ![i].todo = failed, ![i].tries = @ + 1]
          \/ remind' = [remind EXCEPT ![i].pc = "notices"]
  /\ UNCHANGED <<clock, contest, marked, optOut, finds, noted>>

\* createInAppNotifications, in a transaction that may fail.
CreateInAppNotifications(i) ==
  /\ remind[i].pc = "notices"
  /\ remind' = [remind EXCEPT ![i].pc = "mark"]
  /\ noted' \in {noted, [noted EXCEPT ![remind[i].tier] = @ + 1]}
  /\ UNCHANGED <<clock, contest, marked, optOut, mails, finds, doubts>>

\* markReminderSent; a failure leaves the tier for the next minute.
MarkReminderSent(i) ==
  /\ remind[i].pc = "mark"
  /\ remind' = [remind EXCEPT ![i] = Resting]
  /\ \/ marked' = marked \cup {remind[i].tier} /\ UNCHANGED doubts
     \/ doubts < MaxDoubts /\ doubts' = doubts + 1 /\ UNCHANGED marked
  /\ UNCHANGED <<clock, contest, optOut, mails, finds, noted>>

\* The process dies in the middle of a pass, and starts again.
NotifierCrashes(i) ==
  /\ remind[i] # Resting /\ doubts < MaxDoubts
  /\ doubts' = doubts + 1
  /\ remind' = [remind EXCEPT ![i] = Resting]
  /\ UNCHANGED <<clock, contest, marked, optOut, mails, finds, noted>>

\* PUT of a preference.
SetPreference(r) ==
  /\ optOut' = optOut \cup {r} /\ optOut' # optOut
  /\ UNCHANGED <<clock, contest, marked, remind, mails, finds, doubts, noted>>

ReminderNext ==
  \/ WindowOpens \/ ContestMoves
  \/ \E i \in Notifiers : \/ \E t \in Tiers : FindReminders(i, t)
                          \/ FindEndReminders(i)
                          \/ SendBatchWithRetry(i) \/ CreateInAppNotifications(i)
                          \/ MarkReminderSent(i) \/ NotifierCrashes(i)
  \/ \E r \in Recipients : SetPreference(r)

\* Nobody is mailed, or shown, the same reminder more often than there were passes that
\* found it unmarked (one per process that looked before the first mark, plus
\* one per mark that failed and per crash) and sends whose answer was lost.
RemindersBounded ==
  \A r \in Recipients, t \in ReminderTypes :
    /\ mails[t][r] <= finds[t] + doubts /\ noted[t] <= finds[t]
    /\ finds[t] <= Cardinality(Notifiers) + doubts
=============================================================================
