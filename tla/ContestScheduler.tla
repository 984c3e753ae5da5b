-------------------------- MODULE ContestScheduler --------------------------
(***************************************************************************)
(* The contest-scheduler service driving the contests of ContestFunds.     *)
(* Each instance looks for contests whose schedule calls for a transition, *)
(* takes the contest's Redis lock, and executes the transition it found.   *)
(* What it found may be stale by then: users join, admins act, another     *)
(* instance runs, the lock expires, the instance stops or crashes.  The    *)
(* cleanup service of the same process cancels contests nobody joined.     *)
(***************************************************************************)
EXTENDS ContestFunds

CONSTANTS
    Schedulers,   \* instances of the service
    AutoStart,    \* contests with auto_start = TRUE
    NoHolder,     \* the lock key does not exist
    MaxOutages    \* bound: stops and crashes in one behaviour

ASSUME SchedulerTyped ==
    /\ AutoStart \subseteq Contests
    /\ NoHolder \notin Schedulers
    /\ MaxOutages \in Nat

VARIABLES
    clock,     \* the last schedule time of a contest that has passed
    job,       \* what an instance is about to do with a contest
    lock,      \* holder of the Redis key contest:lock:<id>
    reason,    \* cancellation_reason of the automatic cancellations
    stale,     \* contests the cleanup query returned and has not handled yet
    up,        \* "up", "stopped" or "crashed", by instance
    outages    \* stops and crashes so far

serviceVars == <<reason, stale, up, outages>>

schedVars == <<clock, job, lock, serviceVars>>

allVars == <<vars, schedVars>>

\* registration_opens_at, registration_deadline, starts_at, ends_at.
Opens == 1

Deadline == 2

Starts == 3

Ends == 4

NoJob == [to |-> "none", count |-> 0, phase |-> "idle"]

Jobs == [to : {"registration_open", "registration_closed", "running", "settling"},
         count : Nat, phase : {"found", "locked", "expired"}]

InPhase(j, phase) == [to |-> j.to, count |-> j.count, phase |-> phase]

SchedInit ==
    /\ Init
    /\ clock = [c \in Contests |-> 0]
    /\ job = [s \in Schedulers |-> [c \in Contests |-> NoJob]]
    /\ lock = [c \in Contests |-> NoHolder]
    /\ reason = [c \in Contests |-> "none"]
    /\ stale = {}
    /\ up = [s \in Schedulers |-> "up"]
    /\ outages = 0

-----------------------------------------------------------------------------
(* Time. *)

\* The end of a contest is moved by the length of every pause, so it is never
\* reached during one.
AdvanceClock(c) ==
    /\ clock[c] < Ends
    /\ clock[c] = Starts => lateWindow[c] = "passed" /\ status[c] # "paused"
    /\ clock' = [clock EXCEPT ![c] = @ + 1]
    /\ UNCHANGED <<vars, job, lock, serviceVars>>

\* The late-join cutoff lies between the start and the end.
ReachCutoff(c) ==
    /\ clock[c] = Starts
    /\ CutoffTimePasses(c)
    /\ UNCHANGED schedVars

-----------------------------------------------------------------------------
(* One check of an instance: find, lock, execute. *)

\* The four queries of FindContestsForAutoTransition.
AutoTransitions(c) ==
    {to \in Statuses :
        \/ /\ to = "running"
           /\ status[c] = "registration_closed" /\ c \in AutoStart /\ clock[c] >= Starts
        \/ /\ to = "settling"
           /\ status[c] = "running" /\ clock[c] = Ends
        \/ /\ to = "registration_closed"
           /\ status[c] \in {"scheduled", "registration_open"} /\ clock[c] >= Deadline
        \/ /\ to = "registration_open"
           /\ status[c] = "scheduled" /\ clock[c] >= Opens}

\* The participant count is read here and is not read again; only a start or a
\* registration close makes use of it.
FindCandidate(s, c) ==
    /\ up[s] = "up"
    /\ job[s][c] = NoJob
    /\ \E to \in AutoTransitions(c) :
          job' = [job EXCEPT ![s][c] =
                    [to    |-> to,
                     count |-> IF to \in {"running", "registration_closed"}
                               THEN Cardinality(Joined(c)) ELSE 0,
                     phase |-> "found"]]
    /\ UNCHANGED <<vars, clock, lock, serviceVars>>

\* SET NX: a contest whose lock is held is skipped until the next check.
AcquireLock(s, c) ==
    /\ job[s][c].phase = "found"
    /\ IF lock[c] = NoHolder
       THEN /\ lock' = [lock EXCEPT ![c] = s]
            /\ job' = [job EXCEPT ![s][c] = InPhase(@, "locked")]
       ELSE /\ job' = [job EXCEPT ![s][c] = NoJob]
            /\ UNCHANGED lock
    /\ UNCHANGED <<vars, clock, serviceVars>>

\* Mutant: the key is set without a TTL.
NeverExpires(c) == FALSE /\ UNCHANGED allVars

\* The TTL runs out, whether or not the holder is still at work.
ExpireLock(c) ==
    /\ lock[c] # NoHolder
    /\ lock' = [lock EXCEPT ![c] = NoHolder]
    /\ job' = [s \in Schedulers |->
                 IF s = lock[c] /\ job[s][c].phase = "locked"
                 THEN [job[s] EXCEPT ![c] = InPhase(@, "expired")] ELSE job[s]]
    /\ UNCHANGED <<vars, clock, serviceVars>>

Executing(s, c) == job[s][c].phase \in {"locked", "expired"}

\* Mutant: the key is deleted whoever holds it.
ReleaseAnyones(s, c) == lock' = [lock EXCEPT ![c] = NoHolder]

\* The key is deleted only if it still names this instance.
Release(s, c) ==
    lock' = IF lock[c] = s THEN [lock EXCEPT ![c] = NoHolder] ELSE lock

Finish(s, c) ==
    /\ job' = [job EXCEPT ![s][c] = NoJob]
    /\ Release(s, c)
    /\ UNCHANGED <<clock, stale, up, outages>>

\* A contest found without quorum is cancelled; the branch returns before the
\* side-effect handlers, which would refund.
BelowQuorum(s, c) == job[s][c].to = "running" /\ job[s][c].count < Required(c)

QuorumCancel(s, c) ==
    /\ Executing(s, c)
    /\ BelowQuorum(s, c)
    /\ CancelTransition(c)
    /\ reason' = [reason EXCEPT ![c] = "quorum"]
    /\ Finish(s, c)

\* Transition(running) starts a closed contest; it also resumes a paused one.
ExecuteRunning(s, c) ==
    /\ Executing(s, c)
    /\ job[s][c].to = "running"
    /\ ~BelowQuorum(s, c)
    /\ StartContest(c) \/ ResumeContest(c)
    /\ Finish(s, c)
    /\ UNCHANGED reason

ExecuteSimple(s, c) ==
    /\ Executing(s, c)
    /\ job[s][c].to \in {"registration_open", "settling"}
    /\ SimpleTransition(c, job[s][c].to)
    /\ Finish(s, c)
    /\ UNCHANGED reason

\* Mutant: the start is chained without a look at starts_at.
AlwaysChains(c) == TRUE

\* starts_at has already passed when registration closes.
StartChained(c) == clock[c] >= Starts

\* The same candidate, with the start as its target.
FollowUp(j) == [to |-> "running", count |-> j.count, phase |-> j.phase]

\* Closing registration is followed at once by the start when that is due, with
\* the participant count found before the close and whatever auto_start says.
ExecuteClose(s, c) ==
    /\ Executing(s, c)
    /\ job[s][c].to = "registration_closed"
    /\ SimpleTransition(c, "registration_closed")
    /\ IF StartChained(c)
       THEN /\ job' = [job EXCEPT ![s][c] = FollowUp(@)]
            /\ UNCHANGED <<clock, lock, stale, up, outages>>
       ELSE Finish(s, c)
    /\ UNCHANGED reason

\* Transition would commit what the job asks for.
Accepted(s, c) ==
    CASE BelowQuorum(s, c) -> CanTransition(status[c], "cancelled")
      [] job[s][c].to = "running" /\ ~BelowQuorum(s, c) ->
             /\ CanTransition(status[c], "running")
             /\ Cardinality(Joined(c)) >= Required(c)
             /\ status[c] = "registration_closed" =>
                    confirmed[c] /\ (lateWindow[c] = "open" \/ CutoffReconciles(c))
      [] OTHER -> CanTransition(status[c], job[s][c].to)

\* Every retry is refused, or the lock cannot be extended for the next one: the
\* contest is left to the next check.
GiveUp(s, c) ==
    /\ Executing(s, c)
    /\ ~Accepted(s, c)
    /\ Finish(s, c)
    /\ UNCHANGED <<vars, reason>>

-----------------------------------------------------------------------------
(* Stops and crashes. *)

LockKeyPrefix == 13   \* length of "contest:lock:"

ReleaseAllOffset == 14

\* The locks ReleaseAll gives back at shutdown: it cuts the contest id out of the
\* key at a fixed offset, and Release of any other id finds no key.
ReleaseAll(s) == {c \in Contests : lock[c] = s /\ ReleaseAllOffset = LockKeyPrefix}

\* A stop whose wait for the work in progress times out.
Stop(s) ==
    /\ up[s] = "up"
    /\ outages < MaxOutages
    /\ outages' = outages + 1
    /\ up' = [up EXCEPT ![s] = "stopped"]
    /\ job' = [job EXCEPT ![s] = [c \in Contests |-> NoJob]]
    /\ lock' = [c \in Contests |-> IF c \in ReleaseAll(s) THEN NoHolder ELSE lock[c]]
    /\ UNCHANGED <<vars, clock, reason, stale>>

\* A crash keeps nothing of the process; its locks stay until they expire.
Crash(s) ==
    /\ up[s] = "up"
    /\ outages < MaxOutages
    /\ outages' = outages + 1
    /\ up' = [up EXCEPT ![s] = "crashed"]
    /\ job' = [job EXCEPT ![s] = [c \in Contests |-> NoJob]]
    /\ UNCHANGED <<vars, clock, lock, reason, stale>>

Restart(s) ==
    /\ up[s] # "up"
    /\ up' = [up EXCEPT ![s] = "up"]
    /\ UNCHANGED <<vars, clock, job, lock, reason, stale, outages>>

-----------------------------------------------------------------------------
(* The cleanup service: a query, then one Cancel per contest it returned. *)

FindStale(c) ==
    /\ c \notin stale
    /\ status[c] \in {"scheduled", "registration_open"}
    /\ clock[c] >= Starts
    /\ Active(c) = {}
    /\ stale' = stale \union {c}
    /\ UNCHANGED <<vars, clock, job, lock, reason, up, outages>>

CancelStale(c) ==
    /\ c \in stale
    /\ stale' = stale \ {c}
    /\ \/ /\ CancelTransition(c)
          /\ reason' = [reason EXCEPT ![c] = "stale"]
       \/ /\ ~CanTransition(status[c], "cancelled")
          /\ UNCHANGED <<vars, reason>>
    /\ UNCHANGED <<clock, job, lock, up, outages>>

-----------------------------------------------------------------------------

SchedulerStep(s, c) ==
    \/ AcquireLock(s, c)
    \/ QuorumCancel(s, c)
    \/ ExecuteRunning(s, c)
    \/ ExecuteSimple(s, c)
    \/ ExecuteClose(s, c)
    \/ GiveUp(s, c)

\* The admin API: any transition but the bare cancellation, which only the
\* scheduler and the cleanup service use.
AdminNext ==
    \E c \in Contests :
        \/ \E to \in Statuses : SimpleTransition(c, to)
        \/ StartContest(c)
        \/ ResumeContest(c)
        \/ CancelContestAtomic(c)

\* Side effects and the cutoff sweep that precedes every check.
BackgroundNext ==
    \E c \in Contests :
        \/ LockPrizes(c)
        \/ LoseSideEffect(c)
        \/ EnsureEconomicsCutoff(c)

OthersNext ==
    /\ WalletNext \/ ParticipantNext \/ AdminNext \/ BackgroundNext
    /\ UNCHANGED schedVars

TimeNext == \E c \in Contests : AdvanceClock(c) \/ ReachCutoff(c) \/ ExpireLock(c)

ServiceNext ==
    \/ \E s \in Schedulers : Stop(s) \/ Crash(s) \/ Restart(s)
    \/ \E s \in Schedulers, c \in Contests : FindCandidate(s, c) \/ SchedulerStep(s, c)
    \/ \E c \in Contests : FindStale(c) \/ CancelStale(c)

SchedNext == OthersNext \/ TimeNext \/ ServiceNext

SchedSpec == SchedInit /\ [][SchedNext]_allVars

\* Time passes, keys expire, a stopped instance is restarted, and the loop of a
\* running instance goes on.
Fairness ==
    /\ \A c \in Contests : /\ WF_allVars(AdvanceClock(c))
                           /\ WF_allVars(ReachCutoff(c))
                           /\ WF_allVars(ExpireLock(c))
    /\ \A s \in Schedulers : WF_allVars(Restart(s))
    /\ \A s \in Schedulers, c \in Contests :
           /\ WF_allVars(FindCandidate(s, c))
           /\ WF_allVars(SchedulerStep(s, c))

FairSpec == SchedSpec /\ Fairness

-----------------------------------------------------------------------------

SchedTypeOK ==
    /\ clock \in [Contests -> 0..Ends]
    /\ job \in [Schedulers -> [Contests -> Jobs \union {NoJob}]]
    /\ lock \in [Contests -> Schedulers \union {NoHolder}]
    /\ reason \in [Contests -> {"none", "quorum", "stale"}]
    /\ stale \in SUBSET Contests
    /\ up \in [Schedulers -> {"up", "stopped", "crashed"}]
    /\ outages \in 0..MaxOutages

\* An instance whose TTL has not run out while it works on a contest holds the
\* contest's lock, so no other instance works on it under the lock: a former
\* holder that comes late never deletes the key of its successor.
LockExclusive ==
    \A s \in Schedulers, c \in Contests :
        job[s][c].phase = "locked" => lock[c] = s

\* What an instance is about to do is due: a start is never executed before
\* starts_at and an end never before ends_at, however many pauses, resumes and
\* chained transitions lie between the query and the transaction.
JobsDue ==
    \A s \in Schedulers, c \in Contests :
        /\ job[s][c].to = "running" => clock[c] >= Starts
        /\ job[s][c].to = "settling" => clock[c] = Ends

\* A contest that has started is never cancelled, whatever stale candidate the
\* scheduler or the cleanup service still holds for it.
StartedNeverCancelled ==
    [][\A c \in Contests : status[c] \in {"running", "paused", "settling"} =>
           status'[c] # "cancelled"]_allVars

\* A published contest with auto_start reaches its end, is cancelled or is paused
\* by an admin: no lost lock, stale candidate, refused transition or outage leaves
\* it behind.
PublishedEnds ==
    \A c \in AutoStart :
        status[c] \in {"scheduled", "registration_open", "registration_closed", "running"}
            ~> status[c] \in {"settling", "cancelled", "paused"}
=============================================================================
