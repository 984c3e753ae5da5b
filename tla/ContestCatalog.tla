--------------------------- MODULE ContestCatalog ---------------------------
(***************************************************************************)
(* Where contests come from and where they go.                             *)
(*                                                                         *)
(* calendar: the calendar processors of the scheduler pods create, for one *)
(* template, one contest per active tier and slot up to a horizon.  Slots  *)
(* are numbered; next_occurrence_at is the number of the next one.         *)
(*                                                                         *)
(* freegen: the free-contest generators, and the cleanup that deletes old  *)
(* free contests.  Time is counted in half hours.                          *)
(*                                                                         *)
(* archive: the daily cleanup of two scheduler pods.                       *)
(*                                                                         *)
(* catalog: what an admin may do to a contest and to the prizes of a       *)
(* template, in requests that overlap.                                     *)
(*                                                                         *)
(* planning: what an admin may do to a template, its tiers, its schedule   *)
(* and its calendar entry.                                                 *)
(***************************************************************************)
EXTENDS Integers, Sequences, FiniteSets, FiniteSetsExt

CONSTANTS Processors,  \* calendar processors, generators or cleanup workers
          EntryTiers,  \* the active tiers of the template
          MaxSlot,     \* bound on the slots the clock reaches
          SlotHorizon, \* how many slots ahead slotHorizon reaches
          MaxHalfHour  \* bound on the half hours of the generators

ASSUME CatalogAssumption == SlotHorizon \in Nat

Legacy == "legacy"  \* the tier of a contest made without tiers

VARIABLES
  slotNow,   \* the clock
  nextOccurrence, \* next_occurrence_at of the template, which stays active
  calLock,   \* who holds the Redis lock, or "free"
  cal,       \* per processor: where it is, and the entry it read
  slots,     \* the contests of the template: slot, tier, status
  failedSlots       \* slots whose creation failed, or that went by unseen

calendarVars == <<slotNow, nextOccurrence, calLock, cal, slots, failedSlots>>

VARIABLES
  halfHour,   \* the clock
  gen,        \* per generator: idle, or what its transaction has seen
  free        \* the free contests: start, status, announced

freegenVars == <<halfHour, gen, free>>

VARIABLES
  dailyLock,  \* contest:cleanup:daily
  sweeper,    \* per worker: where it is and the ids it has selected
  settled,    \* per contest: live, archived_at, deleted
  archive     \* per contest: how many rows tournaments_archive has of it

archiveVars == <<dailyLock, sweeper, settled, archive>>

VARIABLES
  row,        \* the contest's row
  edit,       \* per request: what it wants, and where it is
  tierPrizes, \* the percentages of the tier, by rank
  tierFlag    \* has_prize_override

catalogVars == <<row, edit, tierPrizes, tierFlag>>

VARIABLES
  tmpl,      \* the template: missing, active or not; free; fee
  tiers,     \* its tiers: fee, free, active
  schedule,  \* its row in tournament_schedules: none, on, off
  entry      \* its row in calendar_entries: enabled, status

planningVars == <<tmpl, tiers, schedule, entry>>
catVars == <<calendarVars, freegenVars, archiveVars, catalogVars, planningVars>>

CalIdle == [at |-> "idle", tier |-> "none", cursor |-> 0, deadline |-> 0, tiers |-> {}, todo |-> {}]

CalendarInit ==
  /\ slotNow = 0
  /\ nextOccurrence = 1
  /\ calLock = "free"
  /\ cal = [p \in Processors |-> CalIdle]
  /\ slots = {} /\ failedSlots = {}

(***************************************************************************)
(* calendar                                                                *)
(***************************************************************************)

SlotPasses ==
  /\ slotNow < MaxSlot
  /\ slotNow' = slotNow + 1
  /\ UNCHANGED <<nextOccurrence, calLock, cal, slots, failedSlots>>

\* The lock's time to live is the check interval: a long cycle outlives it.
CalendarLockExpires ==
  /\ calLock # "free"
  /\ calLock' = "free"
  /\ UNCHANGED <<slotNow, nextOccurrence, cal, slots, failedSlots>>

Todo(ts) == IF ts = {} THEN {Legacy} ELSE ts

\* findDueCalendarEntries, with the lock, and fetchActiveTiers: an error
\* reading the tiers is logged and the entry is treated as one without.
ProcessCalendarEvents(p) ==
  /\ cal[p].at = "idle" /\ calLock = "free"
  /\ nextOccurrence <= slotNow
  /\ calLock' = p
  /\ \E ts \in {EntryTiers, {}} :
       cal' = [cal EXCEPT ![p] = [at |-> "slot", tier |-> "none", cursor |-> nextOccurrence,
                                  deadline |-> slotNow + SlotHorizon, tiers |-> ts,
                                  todo |-> Todo(ts)]]
  /\ UNCHANGED <<slotNow, nextOccurrence, slots, failedSlots>>

\* One contest of the slot is dealt with; after the last of them
\* calculateNextOccurrence moves past the slot, whatever became of it.
Dealt(p, t) ==
  LET left == cal[p].todo \ {t}
  IN cal' = [cal EXCEPT ![p].at = "slot", ![p].tier = "none",
                        ![p].cursor = IF left = {} THEN @ + 1 ELSE @,
                        ![p].todo = IF left = {} THEN Todo(cal[p].tiers) ELSE left]

\* The contests of a slot are made one after the other; COUNT(*) is asked
\* outside the transaction that inserts, of the tier or of the template.
CheckSlot(p, t, existing) ==
  /\ cal[p].at = "slot" /\ cal[p].cursor <= cal[p].deadline
  /\ t = CHOOSE u \in cal[p].todo : TRUE
  /\ IF \E c \in existing : c.slot = cal[p].cursor
     THEN Dealt(p, t)
     ELSE cal' = [cal EXCEPT ![p].tier = t, ![p].at = "create"]
  /\ UNCHANGED <<slotNow, nextOccurrence, calLock, slots, failedSlots>>

CheckTier(p, t) == CheckSlot(p, t, {c \in slots : c.tier = t})
ProcessLegacyEntry(p) == CheckSlot(p, Legacy, slots)

\* The unique indexes: one contest per template and start, one per tier and
\* start, one per idempotency key.
NoIndex(t, s) == FALSE
Conflicts(t, s) == \E c \in slots : c.slot = s

\* A draft with its symbols in one transaction, which two transitions then
\* publish; where one of them fails the draft stays.
Published(s) == IF s > slotNow THEN "registration_open" ELSE "scheduled"

InsertContest(t, s) ==
  /\ ~Conflicts(t, s)
  /\ \E status \in {"draft", Published(s)} :
       slots' = slots \cup {[slot |-> s, tier |-> t, status |-> status]}
  /\ UNCHANGED failedSlots

CreationFails(s) == failedSlots' = failedSlots \cup {s} /\ UNCHANGED slots

\* A duplicate is taken for one's own work.
CreateContestFromTier(p) ==
  /\ cal[p].at = "create" /\ cal[p].tier # Legacy
  /\ LET t == cal[p].tier
         s == cal[p].cursor
     IN /\ \/ InsertContest(t, s)
           \/ Conflicts(t, s) /\ UNCHANGED <<slots, failedSlots>>
           \/ CreationFails(s)
        /\ Dealt(p, t)
  /\ UNCHANGED <<slotNow, nextOccurrence, calLock>>

\* A duplicate is an error.
CreateContestFromTemplate(p) ==
  /\ cal[p].at = "create" /\ cal[p].tier = Legacy
  /\ InsertContest(Legacy, cal[p].cursor) \/ CreationFails(cal[p].cursor)
  /\ Dealt(p, Legacy)
  /\ UNCHANGED <<slotNow, nextOccurrence, calLock>>

ReleaseCalendar(p) == calLock' = IF calLock = p THEN "free" ELSE calLock

\* The cursor is written as it is, over whatever is there.
UpdateNextOccurrence(p) ==
  /\ cal[p].at = "slot" /\ cal[p].cursor > cal[p].deadline
  /\ nextOccurrence' = cal[p].cursor
  /\ cal' = [cal EXCEPT ![p] = CalIdle]
  /\ ReleaseCalendar(p)
  /\ UNCHANGED <<slotNow, slots, failedSlots>>

\* The pod dies, or the update of the cursor fails.
CalendarCrash(p) ==
  /\ cal[p].at # "idle"
  /\ cal' = [cal EXCEPT ![p] = CalIdle]
  /\ UNCHANGED <<slotNow, nextOccurrence, calLock, slots, failedSlots>>

CalendarNext ==
  \/ SlotPasses \/ CalendarLockExpires
  \/ \E p \in Processors :
       \/ ProcessCalendarEvents(p)
       \/ \E t \in EntryTiers : CheckTier(p, t)
       \/ ProcessLegacyEntry(p)
       \/ CreateContestFromTier(p) \/ CreateContestFromTemplate(p)
       \/ UpdateNextOccurrence(p) \/ CalendarCrash(p)

\* However many processors overlap, and wherever one dies: a tier has at most
\* one contest in a slot, and every slot the stored cursor has passed was
\* given a contest or its failure was reported.  The cursor itself may go
\* back, never over a slot nobody worked on.
SlotsMadeOnce ==
  /\ \A c, d \in slots : c.slot = d.slot /\ c.tier = d.tier => c = d
  /\ \A s \in 1..(nextOccurrence - 1) : s \in failedSlots \cup {c.slot : c \in slots}

\* What the calendar says of itself: "If the template has active tiers, one
\* contest is created per tier per slot."
OneContestPerTier ==
  \A s \in 1..(nextOccurrence - 1) :
    s \in failedSlots \/ \A t \in EntryTiers : \E c \in slots : c.slot = s /\ c.tier \in {t, Legacy}

(***************************************************************************)
(* freegen                                                                 *)
(***************************************************************************)

FreegenInit ==
  /\ halfHour = 1
  /\ gen = [p \in Processors |-> <<"idle">>]
  /\ free = {}

HalfHourPasses ==
  /\ halfHour < MaxHalfHour
  /\ halfHour' = halfHour + 1
  /\ UNCHANGED <<gen, free>>

\* generateIfNeeded and handleTrigger: the transaction begins with the COUNT
\* of the contests from half an hour before to half an hour after.
BeginFreeContest(p) ==
  /\ gen[p] = <<"idle">>
  /\ LET start == halfHour + 1
     IN /\ \A c \in free : c.start \notin {start - 1, start}
        /\ gen' = [gen EXCEPT ![p] = <<"insert", start>>]
  /\ UNCHANGED <<halfHour, free>>

\* The idempotency key holds the hour, the older index the start itself.
SameHour(s, t) == s \div 2 = t \div 2
KeyTaken(s) == \E c \in free : SameHour(c.start, s)

\* The contest, its symbols, its bot and its status commit together; a
\* conflict, or a contest without symbols, rolls everything back.
GenerateFreeContest(p) ==
  /\ gen[p][1] = "insert"
  /\ LET s == gen[p][2]
     IN \/ /\ ~KeyTaken(s)
           /\ free' = free \cup {[start |-> s, status |-> "registration_open", told |-> FALSE]}
           /\ gen' = [gen EXCEPT ![p] = <<"publish", s>>]
        \/ /\ gen' = [gen EXCEPT ![p] = <<"idle">>]
           /\ UNCHANGED free
  /\ UNCHANGED halfHour

Told(S) == {[c EXCEPT !.told = TRUE] : c \in S}

\* Three attempts may fail, and the pod may die before them.
PublishContestEvent(p) ==
  /\ gen[p][1] = "publish"
  /\ LET own == {c \in free : c.start = gen[p][2]}
     IN free' \in {free, (free \ own) \cup Told(own)}
  /\ gen' = [gen EXCEPT ![p] = <<"idle">>]
  /\ UNCHANGED halfHour

ReconcileOrphanedContests ==
  /\ LET open == {c \in free : c.status = "registration_open" /\ c.start > halfHour /\ ~c.told}
     IN open # {} /\ free' = (free \ open) \cup Told(open)
  /\ UNCHANGED <<halfHour, gen>>

FreeContestEnds ==
  /\ \E c \in free :
       /\ c.status = "registration_open" /\ c.start < halfHour
       /\ free' = (free \ {c}) \cup {[c EXCEPT !.status = "completed"]}
  /\ UNCHANGED <<halfHour, gen>>

\* Prize locks, settlements and contests go in three statements.
CleanupOldContests ==
  /\ LET old == {c \in free : c.status = "completed" /\ c.start + 2 <= halfHour}
     IN old # {} /\ free' = free \ old
  /\ UNCHANGED <<halfHour, gen>>

FreegenNext ==
  \/ HalfHourPasses \/ ReconcileOrphanedContests \/ FreeContestEnds \/ CleanupOldContests
  \/ \E p \in Processors :
       BeginFreeContest(p) \/ GenerateFreeContest(p) \/ PublishContestEvent(p)

\* Two generators that count before either has committed still make one
\* contest an hour; and a contest that has not begun and of which nobody was
\* told is one that the reconciler will find.
FreeContestsDistinct ==
  /\ \A c, d \in free : SameHour(c.start, d.start) => c = d
  /\ \A c \in free : ~c.told /\ c.start > halfHour => c.status = "registration_open"

(***************************************************************************)
(* archive                                                                 *)
(***************************************************************************)

OldContests == {"older", "newer"}
Archived == "archived"

ArchiveInit ==
  /\ dailyLock = "free"
  /\ sweeper = [p \in Processors |-> [at |-> "idle", ids |-> {}, rows |-> {}]]
  /\ settled = [c \in OldContests |-> "live"]
  /\ archive = [rows |-> {}, counted |-> 0]

\* SetNX; shouldRunNow lets every pod try once in its window.
ExecuteCleanup(p) ==
  /\ sweeper[p].at = "idle" /\ dailyLock = "free"
  /\ dailyLock' = p
  /\ sweeper' = [sweeper EXCEPT ![p] = [at |-> "archive", rows |-> {},
                                        ids |-> {c \in OldContests : settled[c] = "live"}]]
  /\ UNCHANGED <<settled, archive>>

DailyLockExpires ==
  /\ dailyLock # "free"
  /\ dailyLock' = "free"
  /\ UNCHANGED <<sweeper, settled, archive>>

\* The copy waits for another transaction that copies the same contest.  Where
\* archived_at was already set, or the contest is gone, the batch is given up.
ArchiveOneContest(p) ==
  /\ sweeper[p].at = "archive"
  /\ \E c \in sweeper[p].ids :
       /\ \A q \in Processors \ {p} : c \notin sweeper[q].rows
       /\ sweeper' = [sweeper EXCEPT ![p] =
                         IF settled[c] = "live"
                         THEN [at |-> "archive", ids |-> @.ids \ {c}, rows |-> @.rows \cup {c}]
                         ELSE [at |-> "sweep", ids |-> {}, rows |-> {}]]
  /\ UNCHANGED <<dailyLock, settled, archive>>

CommitArchive(p) ==
  /\ sweeper[p].at = "archive" /\ sweeper[p].ids = {}
  /\ LET rows == sweeper[p].rows
     IN /\ settled' = [c \in OldContests |-> IF c \in rows THEN Archived ELSE settled[c]]
        /\ archive' = [rows |-> archive.rows \cup rows,
                       counted |-> archive.counted + Cardinality(rows)]
  /\ sweeper' = [sweeper EXCEPT ![p] = [at |-> "sweep", ids |-> {}, rows |-> {}]]
  /\ UNCHANGED dailyLock

\* An error, a deadlock or the end of the pod rolls the batch back.
AbortArchive(p) ==
  /\ sweeper[p].at = "archive"
  /\ sweeper' = [sweeper EXCEPT ![p] = [at |-> "sweep", ids |-> {}, rows |-> {}]]
  /\ UNCHANGED <<dailyLock, settled, archive>>

\* The lock is deleted whoever holds it by now.
FinishCleanup(p) ==
  /\ sweeper[p].at = "sweep"
  /\ dailyLock' = "free"
  /\ sweeper' = [sweeper EXCEPT ![p].at = "idle"]
  /\ UNCHANGED <<settled, archive>>

\* The generator's cleanup deletes a contest, archived or not.
DeleteSettled(c) ==
  /\ settled[c] # "deleted" /\ \A p \in Processors : c \notin sweeper[p].rows
  /\ settled' = [settled EXCEPT ![c] = "deleted"]
  /\ UNCHANGED <<dailyLock, sweeper, archive>>

ArchiveNext ==
  \/ DailyLockExpires
  \/ \E c \in OldContests : DeleteSettled(c)
  \/ \E p \in Processors :
       ExecuteCleanup(p) \/ ArchiveOneContest(p) \/ CommitArchive(p) \/ AbortArchive(p)
       \/ FinishCleanup(p)

\* The lock that one worker deletes under another does no harm: a contest is
\* archived and counted once, and archived_at is set together with the copy.
ArchivedOnce ==
  /\ archive.counted = Cardinality(archive.rows)
  /\ \A c \in OldContests : settled[c] = Archived => c \in archive.rows
  /\ \A c \in archive.rows : settled[c] # "live"

(***************************************************************************)
(* catalog                                                                 *)
(***************************************************************************)

Fees == {0, 2}
RankChoices == {{1}, {1, 2}, {2}}

CatalogInit ==
  /\ row = [status |-> "none", free |-> FALSE, fee |-> 0, lockedFee |-> -1, overridden |-> FALSE]
  /\ edit \in [Processors -> [at : {"idle"}, ranks : RankChoices, seen : {{}}]]
  /\ tierPrizes = {} /\ tierFlag = FALSE

MakeContest(status, isFree, fee) ==
  /\ row.status = "none"
  /\ row' = [status |-> status, free |-> isFree, fee |-> fee, lockedFee |-> -1,
             overridden |-> isFree /\ fee # 0]
  /\ UNCHANGED <<edit, tierPrizes, tierFlag>>

\* The status comes from the request, a draft if it names none.
HandleCreateContest(isFree, fee, status) == (isFree => fee = 0) /\ MakeContest(status, isFree, fee)

\* is_free is the template's, the fee may be the request's: nothing compares
\* them, neither here nor in the table.
HandleCreateContestFromTemplate(isFree, fee) == MakeContest("draft", isFree, fee)

HandleCreateSpecialTournament(fee) == MakeContest("draft", fee = 0, fee)

\* What the row will hold decides, not what the request holds.
PatchAllowed(isFree, fee) ==
  (IF isFree[1] THEN isFree[2] ELSE row.free) => (IF fee[1] THEN fee[2] ELSE row.fee) = 0

\* handleUpdateContest; a field that is absent is <<FALSE, anything>>.
HandleUpdateContest(isFree, fee) ==
  /\ row.status \in {"draft", "scheduled"}
  /\ fee[1] => row.lockedFee = -1
  /\ PatchAllowed(isFree, fee)
  /\ row' = [row EXCEPT !.free = IF isFree[1] THEN isFree[2] ELSE @,
                        !.fee = IF fee[1] THEN fee[2] ELSE @,
                        !.overridden = FALSE]
  /\ UNCHANGED <<edit, tierPrizes, tierFlag>>

HandleDeleteContest ==
  /\ row.status = "draft"
  /\ row' = [row EXCEPT !.status = "none"]
  /\ UNCHANGED <<edit, tierPrizes, tierFlag>>

HandlePublishContest ==
  /\ row.status = "draft"
  /\ row' = [row EXCEPT !.status = "scheduled"]
  /\ UNCHANGED <<edit, tierPrizes, tierFlag>>

OpenRegistration ==
  /\ row.status = "scheduled"
  /\ row' = [row EXCEPT !.status = "registration_open"]
  /\ UNCHANGED <<edit, tierPrizes, tierFlag>>

\* The first join locks the economics of the contest.
FirstJoin ==
  /\ row.status = "registration_open" /\ row.lockedFee = -1
  /\ row' = [row EXCEPT !.lockedFee = row.fee]
  /\ UNCHANGED <<edit, tierPrizes, tierFlag>>

\* handleUpdateTier: the flag first, on its own.
HandleUpdateTier(e) ==
  /\ edit[e].at = "idle"
  /\ tierFlag' = TRUE
  /\ edit' = [edit EXCEPT ![e].at = "replace", ![e].seen = tierPrizes]
  /\ UNCHANGED <<row, tierPrizes>>

Locked(e) == UNION {edit[f].seen : f \in {f \in Processors \ {e} : edit[f].at = "deleted"}}

\* DELETE: what it saw, less what another transaction has deleted meanwhile.
DeletePrizes(e) ==
  /\ edit[e].at = "replace" /\ edit[e].seen \cap Locked(e) = {}
  /\ edit' = [edit EXCEPT ![e].at = "deleted", ![e].seen = @ \cap tierPrizes]
  /\ UNCHANGED <<row, tierPrizes, tierFlag>>

\* INSERT under the unique (tier_id, rank), and the commit.
RankTaken(e) == \E q \in tierPrizes \ edit[e].seen : q.rank \in edit[e].ranks

ReplaceTierPrizeDistributions(e) ==
  /\ edit[e].at = "deleted"
  /\ \/ /\ ~RankTaken(e)
        /\ tierPrizes' = (tierPrizes \ edit[e].seen) \cup {[rank |-> k, by |-> e] : k \in edit[e].ranks}
     \/ UNCHANGED tierPrizes
  /\ edit' = [edit EXCEPT ![e].at = "done", ![e].seen = {}]
  /\ UNCHANGED <<row, tierFlag>>

CatalogNext ==
  \/ HandleDeleteContest \/ HandlePublishContest \/ OpenRegistration \/ FirstJoin
  \/ \E isFree \in BOOLEAN, fee \in Fees :
       \/ \E status \in {"draft", "scheduled"} : HandleCreateContest(isFree, fee, status)
       \/ HandleCreateContestFromTemplate(isFree, fee)
       \/ HandleCreateSpecialTournament(fee)
       \/ \E f, g \in BOOLEAN : HandleUpdateContest(<<f, isFree>>, <<g, fee>>)
  \/ \E e \in Processors :
       HandleUpdateTier(e) \/ DeletePrizes(e) \/ ReplaceTierPrizeDistributions(e)

\* However partial updates follow each other, a free contest costs nothing,
\* unless the fee of a free template was overridden and nobody has updated the
\* contest since; and the fee at which the first player joined stays.  The prizes of a tier are those of one
\* request, unless two requests that overlap name no rank in common.
CatalogHolds ==
  /\ row.free /\ row.fee # 0 => row.overridden
  /\ row.lockedFee # -1 => row.fee = row.lockedFee
  /\ \A q, r \in tierPrizes :
       \/ q.by = r.by
       \/ edit[q.by].ranks \cap edit[r.by].ranks = {}

(***************************************************************************)
(* planning                                                                *)
(***************************************************************************)

PlanningInit ==
  /\ tmpl = [status |-> "none", free |-> FALSE, fee |-> 0]
  /\ tiers = {}
  /\ schedule = "none"
  /\ entry = [enabled |-> FALSE, status |-> "none"]

\* The check constraint of templates and tiers.
FreeNoFee(isFree, fee) == isFree => fee = 0

\* The template and its first tiers in one transaction.
HandleCreateTemplate(isFree, fee, first) ==
  /\ tmpl.status = "none" /\ FreeNoFee(isFree, fee)
  /\ tmpl' = [status |-> "active", free |-> isFree, fee |-> fee]
  /\ tiers' = {[fee |-> f, free |-> FALSE, active |-> TRUE] : f \in first}
  /\ UNCHANGED <<schedule, entry>>

\* The validator sees the request only; the constraint sees the row.
HandleUpdateTemplate(isFree, fee) ==
  /\ tmpl.status # "none"
  /\ LET new == [tmpl EXCEPT !.free = IF isFree[1] THEN isFree[2] ELSE @,
                             !.fee = IF fee[1] THEN fee[2] ELSE @]
     IN FreeNoFee(new.free, new.fee) /\ tmpl' = new
  /\ UNCHANGED <<tiers, schedule, entry>>

HandleDeleteTemplate ==
  /\ tmpl.status = "active"
  /\ tmpl' = [tmpl EXCEPT !.status = "inactive"]
  /\ UNCHANGED <<tiers, schedule, entry>>

\* insertTierTx: unique (template_id, entry_fee), inactive tiers included.
HandleCreateTier(isFree, fee) ==
  /\ tmpl.status # "none" /\ FreeNoFee(isFree, fee)
  /\ \A t \in tiers : t.fee # fee
  /\ tiers' = tiers \cup {[fee |-> fee, free |-> isFree, active |-> TRUE]}
  /\ UNCHANGED <<tmpl, schedule, entry>>

\* All of them or none.
HandleBulkCreateTiers(fees) ==
  /\ tmpl.status # "none" /\ fees # {}
  /\ \A t \in tiers : t.fee \notin fees
  /\ tiers' = tiers \cup {[fee |-> f, free |-> FALSE, active |-> TRUE] : f \in fees}
  /\ UNCHANGED <<tmpl, schedule, entry>>

\* handleUpdateTier: any of the fields, in one statement.
PatchTier(t, new) ==
  /\ FreeNoFee(new.free, new.fee)
  /\ \A u \in tiers \ {t} : u.fee # new.fee
  /\ tiers' = (tiers \ {t}) \cup {new}
  /\ UNCHANGED <<tmpl, schedule, entry>>

HandleDeleteTier(t) ==
  /\ tiers' = (tiers \ {t}) \cup {[t EXCEPT !.active = FALSE]}
  /\ UNCHANGED <<tmpl, schedule, entry>>

HandleCreateSchedule ==
  /\ tmpl.status # "none" /\ schedule = "none"
  /\ schedule' = "on"
  /\ UNCHANGED <<tmpl, tiers, entry>>

\* handleDeleteSchedule and handlePauseSchedule do the same to the row, so
\* that a deleted schedule can be resumed.
HandleDeleteSchedule ==
  /\ schedule = "on"
  /\ schedule' = "off"
  /\ UNCHANGED <<tmpl, tiers, entry>>

HandlePauseSchedule == HandleDeleteSchedule

HandleResumeSchedule ==
  /\ schedule = "off"
  /\ schedule' = "on"
  /\ UNCHANGED <<tmpl, tiers, entry>>

\* The status is active even where the request says it is not enabled.
HandleCreateCalendarEntry(enabled) ==
  /\ tmpl.status # "none" /\ entry.status = "none"
  /\ entry' = [enabled |-> enabled, status |-> "active"]
  /\ UNCHANGED <<tmpl, tiers, schedule>>

\* Enabling brings back an entry that had been deleted.
HandleUpdateCalendarEntry(enabled) ==
  /\ entry.status # "none"
  /\ entry' = [enabled |-> enabled, status |-> IF enabled THEN "active" ELSE "paused"]
  /\ UNCHANGED <<tmpl, tiers, schedule>>

HandleDeleteCalendarEntry ==
  /\ entry.status # "none"
  /\ entry' = [enabled |-> FALSE, status |-> "ended"]
  /\ UNCHANGED <<tmpl, tiers, schedule>>

PlanningNext ==
  \/ HandleDeleteTemplate \/ HandleCreateSchedule \/ HandleDeleteSchedule
  \/ HandlePauseSchedule \/ HandleResumeSchedule \/ HandleDeleteCalendarEntry
  \/ \E isFree \in BOOLEAN, fee \in Fees :
       \/ \E first \in SUBSET Fees : HandleCreateTemplate(isFree, fee, first)
       \/ \E f, g \in BOOLEAN : HandleUpdateTemplate(<<f, isFree>>, <<g, fee>>)
       \/ HandleCreateTier(isFree, fee)
       \/ \E t \in tiers, active \in BOOLEAN :
            PatchTier(t, [fee |-> fee, free |-> isFree, active |-> active])
  \/ \E fees \in SUBSET Fees : HandleBulkCreateTiers(fees)
  \/ \E t \in tiers : HandleDeleteTier(t)
  \/ \E enabled \in BOOLEAN :
       HandleCreateCalendarEntry(enabled) \/ HandleUpdateCalendarEntry(enabled)

\* Whatever partial updates follow each other, what the calendar makes
\* contests from is consistent: a free template or tier costs nothing, no two
\* tiers cost the same, an entry that is enabled is active, and nothing
\* belongs to a template that does not exist.
PlansSound ==
  /\ FreeNoFee(tmpl.free, tmpl.fee) /\ \A t \in tiers : FreeNoFee(t.free, t.fee)
  /\ \A t, u \in tiers : t.fee = u.fee => t = u
  /\ entry.enabled => entry.status = "active"
  /\ tmpl.status = "none" => tiers = {} /\ schedule = "none" /\ entry.status = "none"

\* What the catalogue promises.
CatalogSafe ==
  SlotsMadeOnce /\ FreeContestsDistinct /\ ArchivedOnce /\ CatalogHolds /\ PlansSound
=============================================================================
