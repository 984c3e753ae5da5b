---------------------------- MODULE ContestProofs ----------------------------
(***************************************************************************)
(* Proofs about the contests beside their money: the catalogue that makes, *)
(* edits and archives them, and the pauses and the side effects of their   *)
(* transitions.  Each part gets an invariant that every step of it keeps;  *)
(* PlatformProofs puts them under the specification that runs the parts.   *)
(***************************************************************************)
EXTENDS ContestCatalog, ContestEffects, SumTheorems

-----------------------------------------------------------------------------
(* The catalogue. *)

Covered == failedSlots \cup {c.slot : c \in slots}

CalendarTypes ==
  /\ slotNow \in Int /\ nextOccurrence \in Nat
  /\ cal \in [Processors -> [at : {"idle", "slot", "create"}, tier : EntryTiers \cup {"none", Legacy},
                             cursor : Nat, deadline : Int, tiers : SUBSET EntryTiers,
                             todo : SUBSET (EntryTiers \cup {Legacy})]]

\* A slot has one contest, and whatever a cursor has passed was worked on.
CalendarInv ==
  /\ CalendarTypes
  /\ \A c, d \in slots : c.slot = d.slot => c = d
  /\ 1..(nextOccurrence - 1) \subseteq Covered
  /\ \A p \in Processors : 1..(cal[p].cursor - 1) \subseteq Covered

FreeContest == [start : Int, status : {"registration_open", "completed"}, told : BOOLEAN]

FreegenInv ==
  /\ halfHour \in Int
  /\ gen \in [Processors -> {<<"idle">>} \cup ({"insert", "publish"} \X Int)]
  /\ free \subseteq FreeContest
  /\ FreeContestsDistinct

ArchiveTypes ==
  /\ sweeper \in [Processors -> [at : {"idle", "archive", "sweep"}, ids : SUBSET OldContests,
                                 rows : SUBSET OldContests]]
  /\ settled \in [OldContests -> {"live", Archived, "deleted"}]
  /\ archive \in [rows : SUBSET OldContests, counted : Nat]

\* The contests a batch has copied are live, and no other batch's.
ArchiveInv ==
  /\ ArchiveTypes
  /\ \A p \in Processors : \A c \in sweeper[p].rows : settled[c] = "live"
  /\ \A p, q \in Processors : p # q => sweeper[p].rows \cap sweeper[q].rows = {}
  /\ ArchivedOnce

Prize == [rank : Int, by : Processors]

\* The prizes of a request that has inserted its prizes, all of them or none.
Whole(S) ==
  \A q \in S : /\ edit[q.by].at = "done" /\ q.rank \in edit[q.by].ranks
               /\ \A k \in edit[q.by].ranks : [rank |-> k, by |-> q.by] \in S

CatalogTypes ==
  /\ row \in [status : {"none", "draft", "scheduled", "registration_open"}, free : BOOLEAN,
              fee : Fees, lockedFee : Fees \cup {-1}, overridden : BOOLEAN]
  /\ edit \in [Processors -> [at : {"idle", "replace", "deleted", "done"}, ranks : SUBSET Int,
                              seen : SUBSET Prize]]
  /\ tierPrizes \in SUBSET Prize

CatalogInv ==
  /\ CatalogTypes
  /\ Whole(tierPrizes)
  /\ \A e \in Processors : Whole(edit[e].seen)
  /\ CatalogHolds

PlanTypes ==
  /\ tmpl \in [status : {"none", "active", "inactive"}, free : BOOLEAN, fee : Fees]
  /\ tiers \in SUBSET [fee : Fees, free : BOOLEAN, active : BOOLEAN]
  /\ entry \in [enabled : BOOLEAN, status : {"none", "active", "paused", "ended"}]

PlanningInv == PlanTypes /\ PlansSound

\* The calendar begins with nothing made and nothing passed.
LEMMA CalendarStart == CalendarInit => CalendarInv
<1> SUFFICES ASSUME CalendarInit PROVE CalendarInv
  OBVIOUS
<1>1. slotNow = 0 /\ nextOccurrence = 1 /\ slots = {}
  BY DEF CalendarInit
<1>2. cal = [p \in Processors |-> CalIdle]
  BY DEF CalendarInit
<1>3. CalendarTypes
  BY <1>1, <1>2 DEF CalendarTypes, CalIdle
<1>4. \A p \in Processors : cal[p].cursor = 0
  BY <1>2 DEF CalIdle
<1>5. 1..(nextOccurrence - 1) = {} /\ \A p \in Processors : 1..(cal[p].cursor - 1) = {}
  BY <1>1, <1>4
<1> QED BY <1>1, <1>3, <1>5 DEF CalendarInv

\* A processor that goes on from where the slots before its cursor are covered
\* disturbs no other.
LEMMA ProcessorMoves ==
  ASSUME CalendarInv, NEW p \in Processors,
         NEW x \in [at : {"idle", "slot", "create"}, tier : EntryTiers \cup {"none", Legacy},
                    cursor : Nat, deadline : Int, tiers : SUBSET EntryTiers,
                    todo : SUBSET (EntryTiers \cup {Legacy})],
         cal' = [cal EXCEPT ![p] = x], slotNow' = slotNow,
         nextOccurrence' \in {nextOccurrence, cal[p].cursor},
         Covered \subseteq Covered', 1..(x.cursor - 1) \subseteq Covered',
         \A c, d \in slots' : c.slot = d.slot => c = d
  PROVE  CalendarInv'
<1>1. CalendarTypes'
  <2>1. nextOccurrence' \in Nat
    BY DEF CalendarInv, CalendarTypes
  <2>2. cal' \in [Processors -> [at : {"idle", "slot", "create"}, tier : EntryTiers \cup {"none", Legacy},
                                 cursor : Nat, deadline : Int, tiers : SUBSET EntryTiers,
                                 todo : SUBSET (EntryTiers \cup {Legacy})]]
    BY DEF CalendarInv, CalendarTypes
  <2> QED BY <2>1, <2>2 DEF CalendarInv, CalendarTypes
<1>2. 1..(nextOccurrence' - 1) \subseteq Covered'
  BY DEF CalendarInv
<1>3. ASSUME NEW q \in Processors PROVE 1..(cal'[q].cursor - 1) \subseteq Covered'
  <2>1. cal'[q] = IF q = p THEN x ELSE cal[q]
    BY DEF CalendarInv, CalendarTypes
  <2> QED BY <2>1 DEF CalendarInv
<1> QED BY <1>1, <1>2, <1>3 DEF CalendarInv

\* A contest of the slot at the cursor is dealt with once the slot is covered.
LEMMA DealtKept ==
  ASSUME CalendarInv, NEW p \in Processors, NEW t, Dealt(p, t),
         slotNow' = slotNow, nextOccurrence' = nextOccurrence,
         Covered \subseteq Covered', cal[p].cursor \in Covered',
         \A c, d \in slots' : c.slot = d.slot => c = d
  PROVE  CalendarInv'
<1> DEFINE left == cal[p].todo \ {t}
           x == [cal[p] EXCEPT !.at = "slot", !.tier = "none",
                               !.cursor = IF left = {} THEN @ + 1 ELSE @,
                               !.todo = IF left = {} THEN Todo(cal[p].tiers) ELSE left]
<1>1. cal[p] \in [at : {"idle", "slot", "create"}, tier : EntryTiers \cup {"none", Legacy},
                  cursor : Nat, deadline : Int, tiers : SUBSET EntryTiers,
                  todo : SUBSET (EntryTiers \cup {Legacy})]
  BY DEF CalendarInv, CalendarTypes
<1>2. cal' = [cal EXCEPT ![p] = x]
  BY DEF Dealt, CalendarInv, CalendarTypes
<1>3. Todo(cal[p].tiers) \in SUBSET (EntryTiers \cup {Legacy})
  BY <1>1 DEF Todo
<1>4. x \in [at : {"idle", "slot", "create"}, tier : EntryTiers \cup {"none", Legacy},
             cursor : Nat, deadline : Int, tiers : SUBSET EntryTiers,
             todo : SUBSET (EntryTiers \cup {Legacy})]
  <2>1. left \in SUBSET (EntryTiers \cup {Legacy})
    BY <1>1
  <2>2. (IF left = {} THEN Todo(cal[p].tiers) ELSE left) \in SUBSET (EntryTiers \cup {Legacy})
    BY <1>3, <2>1
  <2>3. (IF left = {} THEN cal[p].cursor + 1 ELSE cal[p].cursor) \in Nat
    BY <1>1
  <2>4. "slot" \in {"idle", "slot", "create"} /\ "none" \in EntryTiers \cup {"none", Legacy}
    OBVIOUS
  <2> HIDE DEF left
  <2> QED BY <1>1, <2>2, <2>3, <2>4
<1>5. x.cursor \in {cal[p].cursor, cal[p].cursor + 1}
  BY <1>1
<1>6. 1..(cal[p].cursor - 1) \subseteq Covered'
  BY DEF CalendarInv
<1>7. 1..(x.cursor - 1) \subseteq Covered'
  <2> HIDE DEF x, left
  <2>1. cal[p].cursor \in Nat
    BY <1>1
  <2>2. CASE x.cursor = cal[p].cursor
    BY <1>6, <2>2
  <2>3. CASE x.cursor = cal[p].cursor + 1
    <3>1. 1..(x.cursor - 1) \subseteq 1..(cal[p].cursor - 1) \cup {cal[p].cursor}
      BY <2>1, <2>3
    <3> QED BY <1>6, <3>1
  <2> QED BY <1>5, <2>2, <2>3
<1> HIDE DEF x, left
<1> QED BY <1>2, <1>4, <1>7, ProcessorMoves

\* Asking for the contests of a slot finds it covered, or goes on to make one.
LEMMA CheckSlotKept ==
  ASSUME CalendarInv, NEW p \in Processors, NEW t \in EntryTiers \cup {Legacy},
         NEW found \in SUBSET slots, CheckSlot(p, t, found)
  PROVE  CalendarInv'
<1>1. Covered' = Covered /\ slots' = slots /\ slotNow' = slotNow /\ nextOccurrence' = nextOccurrence
  BY DEF CheckSlot, Covered
<1>2. \A c, d \in slots' : c.slot = d.slot => c = d
  BY <1>1 DEF CalendarInv
<1>3. CASE \E c \in found : c.slot = cal[p].cursor
  <2>1. Dealt(p, t) /\ cal[p].cursor \in Covered'
    BY <1>1, <1>3 DEF CheckSlot, Covered
  <2> QED BY <1>1, <1>2, <2>1, DealtKept
<1>4. CASE ~ \E c \in found : c.slot = cal[p].cursor
  <2> DEFINE x == [cal[p] EXCEPT !.tier = t, !.at = "create"]
  <2>1. cal[p] \in [at : {"idle", "slot", "create"}, tier : EntryTiers \cup {"none", Legacy},
                    cursor : Nat, deadline : Int, tiers : SUBSET EntryTiers,
                    todo : SUBSET (EntryTiers \cup {Legacy})]
    BY DEF CalendarInv, CalendarTypes
  <2>2. cal' = [cal EXCEPT ![p] = x]
    BY <1>4 DEF CheckSlot, CalendarInv, CalendarTypes
  <2>3. x \in [at : {"idle", "slot", "create"}, tier : EntryTiers \cup {"none", Legacy},
               cursor : Nat, deadline : Int, tiers : SUBSET EntryTiers,
               todo : SUBSET (EntryTiers \cup {Legacy})] /\ x.cursor = cal[p].cursor
    BY <2>1
  <2>4. 1..(cal[p].cursor - 1) \subseteq Covered'
    BY <1>1 DEF CalendarInv
  <2> HIDE DEF x
  <2> QED BY <1>1, <1>2, <2>2, <2>3, <2>4, ProcessorMoves
<1> QED BY <1>3, <1>4

\* A contest is inserted only where the template has none at that start.
LEMMA InsertCovers ==
  ASSUME CalendarInv, NEW t, NEW s, InsertContest(t, s)
  PROVE  Covered \subseteq Covered' /\ s \in Covered' /\ \A c, d \in slots' : c.slot = d.slot => c = d
<1>1. PICK status \in {"draft", Published(s)} :
        slots' = slots \cup {[slot |-> s, tier |-> t, status |-> status]}
  BY DEF InsertContest
<1>2. \A c \in slots : c.slot # s
  BY DEF InsertContest, Conflicts
<1>3. failedSlots' = failedSlots
  BY DEF InsertContest
<1>4. s \in {c.slot : c \in slots'}
  <2>1. [slot |-> s, tier |-> t, status |-> status].slot = s
    OBVIOUS
  <2> QED BY <1>1, <2>1
<1>5. \A c, d \in slots' : c.slot = d.slot => c = d
  BY <1>1, <1>2 DEF CalendarInv
<1> QED BY <1>1, <1>3, <1>4, <1>5 DEF Covered

\* A creation that fails is reported, and the slot counts as worked on.
LEMMA FailureCovers ==
  ASSUME CalendarInv, NEW s, CreationFails(s)
  PROVE  Covered \subseteq Covered' /\ s \in Covered' /\ \A c, d \in slots' : c.slot = d.slot => c = d
BY DEF CreationFails, Covered, CalendarInv

\* Each step of a processor leaves the slots made once.
LEMMA CalendarProcessorKept ==
  ASSUME CalendarInv, NEW p \in Processors,
         \/ ProcessCalendarEvents(p)
         \/ \E t \in EntryTiers : CheckTier(p, t)
         \/ ProcessLegacyEntry(p)
         \/ CreateContestFromTier(p) \/ CreateContestFromTemplate(p)
         \/ UpdateNextOccurrence(p) \/ CalendarCrash(p)
  PROVE  CalendarInv'
<1>1. CalIdle \in [at : {"idle", "slot", "create"}, tier : EntryTiers \cup {"none", Legacy},
                   cursor : Nat, deadline : Int, tiers : SUBSET EntryTiers,
                   todo : SUBSET (EntryTiers \cup {Legacy})] /\ 1..(CalIdle.cursor - 1) = {}
  BY DEF CalIdle
<1>2. CASE ProcessCalendarEvents(p)
  <2>1. PICK ts \in {EntryTiers, {}} :
          cal' = [cal EXCEPT ![p] = [at |-> "slot", tier |-> "none", cursor |-> nextOccurrence,
                                     deadline |-> slotNow + SlotHorizon, tiers |-> ts,
                                     todo |-> Todo(ts)]]
    BY <1>2 DEF ProcessCalendarEvents
  <2> DEFINE x == [at |-> "slot", tier |-> "none", cursor |-> nextOccurrence,
                   deadline |-> slotNow + SlotHorizon, tiers |-> ts, todo |-> Todo(ts)]
  <2>2. UNCHANGED <<slotNow, nextOccurrence, slots, failedSlots>>
    BY <1>2 DEF ProcessCalendarEvents
  <2>3. slotNow + SlotHorizon \in Int /\ nextOccurrence \in Nat
    BY CatalogAssumption DEF CalendarInv, CalendarTypes
  <2>4. Todo(ts) \in SUBSET (EntryTiers \cup {Legacy})
    BY DEF Todo
  <2>5. x \in [at : {"idle", "slot", "create"}, tier : EntryTiers \cup {"none", Legacy},
               cursor : Nat, deadline : Int, tiers : SUBSET EntryTiers,
               todo : SUBSET (EntryTiers \cup {Legacy})] /\ x.cursor = nextOccurrence
    BY <2>3, <2>4
  <2>6. Covered' = Covered /\ 1..(nextOccurrence - 1) \subseteq Covered
    BY <2>2 DEF Covered, CalendarInv
  <2>7. \A c, d \in slots' : c.slot = d.slot => c = d
    BY <2>2 DEF CalendarInv
  <2> HIDE DEF x
  <2> QED BY <2>1, <2>2, <2>5, <2>6, <2>7, ProcessorMoves DEF x
<1>3. CASE \E t \in EntryTiers : CheckTier(p, t)
  BY <1>3, CheckSlotKept DEF CheckTier
<1>4. CASE ProcessLegacyEntry(p)
  BY <1>4, CheckSlotKept DEF ProcessLegacyEntry
<1>5. CASE CreateContestFromTier(p)
  <2> DEFINE t == cal[p].tier
             s == cal[p].cursor
  <2>1. Dealt(p, t) /\ slotNow' = slotNow /\ nextOccurrence' = nextOccurrence
    BY <1>5 DEF CreateContestFromTier
  <2>2. InsertContest(t, s) \/ (Conflicts(t, s) /\ UNCHANGED <<slots, failedSlots>>) \/ CreationFails(s)
    BY <1>5 DEF CreateContestFromTier
  <2>3. ASSUME Conflicts(t, s), UNCHANGED <<slots, failedSlots>>
        PROVE  Covered \subseteq Covered' /\ s \in Covered' /\ \A c, d \in slots' : c.slot = d.slot => c = d
    BY <2>3 DEF Conflicts, Covered, CalendarInv
  <2>4. Covered \subseteq Covered' /\ s \in Covered' /\ \A c, d \in slots' : c.slot = d.slot => c = d
    BY <2>2, <2>3, InsertCovers, FailureCovers
  <2> QED BY <2>1, <2>4, DealtKept
<1>6. CASE CreateContestFromTemplate(p)
  <2>1. Dealt(p, Legacy) /\ slotNow' = slotNow /\ nextOccurrence' = nextOccurrence
    BY <1>6 DEF CreateContestFromTemplate
  <2>2. InsertContest(Legacy, cal[p].cursor) \/ CreationFails(cal[p].cursor)
    BY <1>6 DEF CreateContestFromTemplate
  <2>3. Covered \subseteq Covered' /\ cal[p].cursor \in Covered' /\ \A c, d \in slots' : c.slot = d.slot => c = d
    BY <2>2, InsertCovers, FailureCovers
  <2> QED BY <2>1, <2>3, DealtKept
<1>7. CASE UpdateNextOccurrence(p)
  <2>1. /\ cal' = [cal EXCEPT ![p] = CalIdle] /\ nextOccurrence' = cal[p].cursor
        /\ slotNow' = slotNow /\ Covered' = Covered /\ slots' = slots
    BY <1>7 DEF UpdateNextOccurrence, Covered
  <2> QED BY <1>1, <2>1, ProcessorMoves DEF CalendarInv
<1>8. CASE CalendarCrash(p)
  <2>1. /\ cal' = [cal EXCEPT ![p] = CalIdle] /\ nextOccurrence' = nextOccurrence
        /\ slotNow' = slotNow /\ Covered' = Covered /\ slots' = slots
    BY <1>8 DEF CalendarCrash, Covered
  <2> QED BY <1>1, <2>1, ProcessorMoves DEF CalendarInv
<1> QED BY <1>2, <1>3, <1>4, <1>5, <1>6, <1>7, <1>8

\* Whatever the processors, the clock and the lock do keeps the slots right.
LEMMA CalendarStep == CalendarInv /\ [CalendarNext]_calendarVars => CalendarInv'
<1> SUFFICES ASSUME CalendarInv, [CalendarNext]_calendarVars PROVE CalendarInv'
  OBVIOUS
<1>1. CASE SlotPasses \/ CalendarLockExpires \/ UNCHANGED calendarVars
  <2>1. UNCHANGED <<nextOccurrence, cal, slots, failedSlots>> /\ slotNow' \in {slotNow, slotNow + 1}
    BY <1>1 DEF SlotPasses, CalendarLockExpires, calendarVars
  <2>2. CalendarTypes'
    BY <2>1 DEF CalendarInv, CalendarTypes
  <2>3. Covered' = Covered
    BY <2>1 DEF Covered
  <2> QED BY <2>1, <2>2, <2>3 DEF CalendarInv
<1>2. ASSUME NEW p \in Processors,
             \/ ProcessCalendarEvents(p)
             \/ \E t \in EntryTiers : CheckTier(p, t)
             \/ ProcessLegacyEntry(p)
             \/ CreateContestFromTier(p) \/ CreateContestFromTemplate(p)
             \/ UpdateNextOccurrence(p) \/ CalendarCrash(p)
      PROVE  CalendarInv'
  BY <1>2, CalendarProcessorKept
<1> QED BY <1>1, <1>2 DEF CalendarNext

\* Slots covered are slots made or reported.
LEMMA CalendarKept == CalendarInv => SlotsMadeOnce
BY DEF CalendarInv, SlotsMadeOnce, Covered

\* The generators begin with no contest.
LEMMA FreegenStart == FreegenInit => FreegenInv
<1> SUFFICES ASSUME FreegenInit PROVE FreegenInv
  OBVIOUS
<1>1. halfHour \in Int /\ free = {}
  BY DEF FreegenInit
<1>2. gen \in [Processors -> {<<"idle">>} \cup ({"insert", "publish"} \X Int)]
  BY DEF FreegenInit
<1> QED BY <1>1, <1>2 DEF FreegenInv, FreeContestsDistinct

\* A step that leaves at most one successor of each contest, at its start, and
\* makes nothing of one that was told untold, keeps one contest an hour.
LEMMA SuccessorsDistinct ==
  ASSUME FreegenInv, NEW succ, NEW S \in SUBSET free,
         \A c \in free : succ[c] \in FreeContest /\ succ[c].start = c.start,
         free' = {succ[c] : c \in S}, halfHour' = halfHour,
         \A c \in S : ~succ[c].told /\ succ[c].start > halfHour => succ[c].status = "registration_open",
         gen' \in [Processors -> {<<"idle">>} \cup ({"insert", "publish"} \X Int)]
  PROVE  FreegenInv'
<1>1. free' \subseteq FreeContest
  OBVIOUS
<1>2. ASSUME NEW a \in free', NEW b \in free', SameHour(a.start, b.start) PROVE a = b
  <2>1. PICK c \in S : a = succ[c]
    OBVIOUS
  <2>2. PICK d \in S : b = succ[d]
    OBVIOUS
  <2>3. a.start = c.start /\ b.start = d.start
    BY <2>1, <2>2
  <2>4. SameHour(c.start, d.start)
    BY <1>2, <2>3
  <2>5. c = d
    BY <2>4 DEF FreegenInv, FreeContestsDistinct
  <2> QED BY <2>1, <2>2, <2>5
<1>3. ASSUME NEW a \in free', ~a.told, a.start > halfHour' PROVE a.status = "registration_open"
  BY <1>3
<1>4. FreeContestsDistinct'
  BY <1>2, <1>3 DEF FreeContestsDistinct, SameHour
<1> QED BY <1>1, <1>4 DEF FreegenInv

\* Telling of some contests changes nothing else about them.
LEMMA TellingKept ==
  ASSUME FreegenInv, NEW own \in SUBSET free, free' = (free \ own) \cup Told(own), halfHour' = halfHour,
         gen' \in [Processors -> {<<"idle">>} \cup ({"insert", "publish"} \X Int)]
  PROVE  FreegenInv'
<1> DEFINE succ == [c \in free |-> IF c \in own THEN [c EXCEPT !.told = TRUE] ELSE c]
<1>1. ASSUME NEW c \in free
      PROVE  /\ succ[c] \in FreeContest /\ succ[c].start = c.start
             /\ ~succ[c].told /\ succ[c].start > halfHour => succ[c].status = "registration_open"
  <2>1. c \in FreeContest
    BY DEF FreegenInv
  <2>2. CASE c \in own
    BY <2>1, <2>2 DEF FreeContest
  <2>3. CASE c \notin own
    BY <2>1, <2>3 DEF FreegenInv, FreeContestsDistinct
  <2> QED BY <2>2, <2>3
<1>2. free' = {succ[c] : c \in free}
  BY DEF Told
<1> HIDE DEF succ
<1> QED BY <1>1, <1>2, SuccessorsDistinct

\* Each step of the generators, the reconciler and the cleanup keeps one free
\* contest an hour.
LEMMA FreegenStep == FreegenInv /\ [FreegenNext]_freegenVars => FreegenInv'
<1> SUFFICES ASSUME FreegenInv, [FreegenNext]_freegenVars PROVE FreegenInv'
  OBVIOUS
<1>1. /\ halfHour \in Int /\ free \subseteq FreeContest /\ FreeContestsDistinct
      /\ gen \in [Processors -> {<<"idle">>} \cup ({"insert", "publish"} \X Int)]
  BY DEF FreegenInv
<1>2. CASE HalfHourPasses
  <2>1. halfHour' = halfHour + 1 /\ gen' = gen /\ free' = free
    BY <1>2 DEF HalfHourPasses
  <2>2. ASSUME NEW c \in free, ~c.told, c.start > halfHour + 1 PROVE c.status = "registration_open"
    <3>1. c.start \in Int
      BY <1>1 DEF FreeContest
    <3>2. c.start > halfHour
      BY <1>1, <2>2, <3>1
    <3> QED BY <1>1, <2>2, <3>2 DEF FreeContestsDistinct
  <2>3. FreeContestsDistinct'
    BY <1>1, <2>1, <2>2 DEF FreeContestsDistinct, SameHour
  <2> QED BY <1>1, <2>1, <2>3 DEF FreegenInv
<1>3. CASE ReconcileOrphanedContests
  <2>1. UNCHANGED <<halfHour, gen>>
    BY <1>3 DEF ReconcileOrphanedContests
  <2>2. PICK own \in SUBSET free : free' = (free \ own) \cup Told(own)
    BY <1>3 DEF ReconcileOrphanedContests
  <2> QED BY <1>1, <2>1, <2>2, TellingKept
<1>4. CASE FreeContestEnds
  <2>1. PICK c \in free : /\ c.status = "registration_open" /\ c.start < halfHour
                          /\ free' = (free \ {c}) \cup {[c EXCEPT !.status = "completed"]}
    BY <1>4 DEF FreeContestEnds
  <2>2. UNCHANGED <<halfHour, gen>>
    BY <1>4 DEF FreeContestEnds
  <2> DEFINE succ == [d \in free |-> IF d = c THEN [d EXCEPT !.status = "completed"] ELSE d]
  <2>3. ASSUME NEW d \in free
        PROVE  /\ succ[d] \in FreeContest /\ succ[d].start = d.start
               /\ ~succ[d].told /\ succ[d].start > halfHour => succ[d].status = "registration_open"
    <3>1. d \in FreeContest
      BY <1>1
    <3>2. CASE d = c
      BY <1>1, <2>1, <3>1, <3>2 DEF FreeContest
    <3>3. CASE d # c
      BY <1>1, <3>1, <3>3 DEF FreeContestsDistinct
    <3> QED BY <3>2, <3>3
  <2>4. free' = {succ[d] : d \in free}
    BY <2>1
  <2> HIDE DEF succ
  <2> QED BY <1>1, <2>2, <2>3, <2>4, SuccessorsDistinct
<1>5. CASE CleanupOldContests
  <2>1. UNCHANGED <<halfHour, gen>> /\ free' \subseteq free
    BY <1>5 DEF CleanupOldContests
  <2>2. FreeContestsDistinct'
    BY <1>1, <2>1 DEF FreeContestsDistinct, SameHour
  <2> QED BY <1>1, <2>1, <2>2 DEF FreegenInv
<1>6. ASSUME NEW p \in Processors, BeginFreeContest(p) PROVE FreegenInv'
  <2>1. UNCHANGED <<halfHour, free>> /\ gen' = [gen EXCEPT ![p] = <<"insert", halfHour + 1>>]
    BY <1>6 DEF BeginFreeContest
  <2>2. <<"insert", halfHour + 1>> \in {"insert", "publish"} \X Int
    BY <1>1
  <2>3. gen' \in [Processors -> {<<"idle">>} \cup ({"insert", "publish"} \X Int)]
    BY <1>1, <2>1, <2>2
  <2>4. FreeContestsDistinct'
    BY <1>1, <2>1 DEF FreeContestsDistinct, SameHour
  <2> QED BY <1>1, <2>1, <2>3, <2>4 DEF FreegenInv
<1>7. ASSUME NEW p \in Processors, GenerateFreeContest(p) PROVE FreegenInv'
  <2> DEFINE s == gen[p][2]
             x == [start |-> s, status |-> "registration_open", told |-> FALSE]
  <2>1. halfHour' = halfHour /\ gen[p][1] = "insert"
    BY <1>7 DEF GenerateFreeContest
  <2>2. gen[p] \in {"insert", "publish"} \X Int
    <3>1. <<"idle">>[1] # "insert"
      OBVIOUS
    <3> QED BY <1>1, <2>1, <3>1
  <2>3. s \in Int /\ <<"publish", s>> \in {"insert", "publish"} \X Int
    BY <2>2
  <2>4. CASE gen' = [gen EXCEPT ![p] = <<"idle">>] /\ free' = free
    <3>1. gen' \in [Processors -> {<<"idle">>} \cup ({"insert", "publish"} \X Int)]
      BY <1>1, <2>4
    <3>2. FreeContestsDistinct'
      BY <1>1, <2>1, <2>4 DEF FreeContestsDistinct, SameHour
    <3> QED BY <1>1, <2>1, <2>4, <3>1, <3>2 DEF FreegenInv
  <2>5. CASE /\ ~KeyTaken(s) /\ free' = free \cup {x}
             /\ gen' = [gen EXCEPT ![p] = <<"publish", s>>]
    <3>1. gen' \in [Processors -> {<<"idle">>} \cup ({"insert", "publish"} \X Int)]
      BY <1>1, <2>3, <2>5
    <3>2. x \in FreeContest /\ x.start = s /\ x.status = "registration_open"
      BY <2>3 DEF FreeContest
    <3>3. \A c \in free : ~SameHour(c.start, s) /\ ~SameHour(s, c.start)
      BY <2>5 DEF KeyTaken, SameHour
    <3> HIDE DEF x, s
    <3>4. \A c, d \in free' : SameHour(c.start, d.start) => c = d
      BY <1>1, <2>5, <3>2, <3>3 DEF FreeContestsDistinct
    <3>5. FreeContestsDistinct'
      BY <1>1, <2>1, <2>5, <3>2, <3>4 DEF FreeContestsDistinct, SameHour
    <3> QED BY <1>1, <2>1, <2>5, <3>1, <3>2, <3>5 DEF FreegenInv
  <2> QED BY <1>7, <2>4, <2>5 DEF GenerateFreeContest
<1>8. ASSUME NEW p \in Processors, PublishContestEvent(p) PROVE FreegenInv'
  <2>1. halfHour' = halfHour /\ gen' = [gen EXCEPT ![p] = <<"idle">>]
    BY <1>8 DEF PublishContestEvent
  <2>2. gen' \in [Processors -> {<<"idle">>} \cup ({"insert", "publish"} \X Int)]
    BY <1>1, <2>1
  <2>3. PICK own \in SUBSET free : free' = (free \ own) \cup Told(own)
    <3>1. Told({}) = {}
      BY DEF Told
    <3>2. {c \in free : c.start = gen[p][2]} \in SUBSET free /\ {} \in SUBSET free
      OBVIOUS
    <3> QED BY <1>8, <3>1, <3>2 DEF PublishContestEvent
  <2> QED BY <2>1, <2>2, <2>3, TellingKept
<1>9. CASE UNCHANGED freegenVars
  <2>1. UNCHANGED <<halfHour, gen, free>>
    BY <1>9 DEF freegenVars
  <2>2. FreeContestsDistinct'
    BY <1>1, <2>1 DEF FreeContestsDistinct, SameHour
  <2> QED BY <1>1, <2>1, <2>2 DEF FreegenInv
<1> QED BY <1>2, <1>3, <1>4, <1>5, <1>6, <1>7, <1>8, <1>9 DEF FreegenNext

\* The cleanup begins with every contest live and nothing archived.
LEMMA ArchiveStart == ArchiveInit => ArchiveInv
<1> SUFFICES ASSUME ArchiveInit PROVE ArchiveInv
  OBVIOUS
<1>1. /\ sweeper = [p \in Processors |-> [at |-> "idle", ids |-> {}, rows |-> {}]]
      /\ settled = [c \in OldContests |-> "live"] /\ archive = [rows |-> {}, counted |-> 0]
  BY DEF ArchiveInit
<1>2. ArchiveTypes
  <2>1. sweeper \in [Processors -> [at : {"idle", "archive", "sweep"}, ids : SUBSET OldContests,
                                    rows : SUBSET OldContests]]
    BY <1>1
  <2>2. settled \in [OldContests -> {"live", Archived, "deleted"}]
    BY <1>1
  <2>3. archive \in [rows : SUBSET OldContests, counted : Nat]
    BY <1>1
  <2> QED BY <2>1, <2>2, <2>3 DEF ArchiveTypes
<1>3. \A p \in Processors : sweeper[p].rows = {}
  BY <1>1
<1>4. ArchivedOnce
  BY <1>1, FS_EmptySet DEF ArchivedOnce, Archived
<1> QED BY <1>2, <1>3, <1>4 DEF ArchiveInv

\* A worker that drops rows, or copies one no other batch has, disturbs nothing.
LEMMA SweeperMoves ==
  ASSUME ArchiveInv, NEW p \in Processors, UNCHANGED <<settled, archive>>,
         NEW x \in [at : {"idle", "archive", "sweep"}, ids : SUBSET OldContests, rows : SUBSET OldContests],
         sweeper' = [sweeper EXCEPT ![p] = x],
         \A c \in x.rows \ sweeper[p].rows :
           settled[c] = "live" /\ \A q \in Processors \ {p} : c \notin sweeper[q].rows
  PROVE  ArchiveInv'
<1>1. ArchiveTypes'
  BY DEF ArchiveInv, ArchiveTypes
<1>2. \A q \in Processors : sweeper'[q] = IF q = p THEN x ELSE sweeper[q]
  BY DEF ArchiveInv, ArchiveTypes
<1>3. \A q \in Processors : \A c \in sweeper'[q].rows : settled[c] = "live"
  BY <1>2 DEF ArchiveInv
<1>4. \A q, r \in Processors : q # r => sweeper'[q].rows \cap sweeper'[r].rows = {}
  BY <1>2 DEF ArchiveInv
<1>5. ArchivedOnce'
  BY DEF ArchiveInv, ArchivedOnce
<1> QED BY <1>1, <1>3, <1>4, <1>5 DEF ArchiveInv

\* What a batch commits was live, so that it is in no archive yet.
LEMMA CommitArchiveKept ==
  ASSUME ArchiveInv, NEW p \in Processors, CommitArchive(p)
  PROVE  ArchiveInv'
<1> DEFINE R == sweeper[p].rows
           x == [at |-> "sweep", ids |-> {}, rows |-> {}]
<1>1. /\ settled' = [c \in OldContests |-> IF c \in R THEN Archived ELSE settled[c]]
      /\ archive' = [rows |-> archive.rows \cup R, counted |-> archive.counted + Cardinality(R)]
      /\ sweeper' = [sweeper EXCEPT ![p] = x]
  BY DEF CommitArchive
<1>2. /\ sweeper \in [Processors -> [at : {"idle", "archive", "sweep"}, ids : SUBSET OldContests,
                                     rows : SUBSET OldContests]]
      /\ settled \in [OldContests -> {"live", Archived, "deleted"}]
      /\ archive \in [rows : SUBSET OldContests, counted : Nat]
  BY DEF ArchiveInv, ArchiveTypes
<1>3. R \subseteq OldContests /\ archive.rows \subseteq OldContests /\ archive.counted \in Nat
  BY <1>2
<1>4. IsFiniteSet(OldContests)
  <2>1. IsFiniteSet({} \cup {"older"})
    BY FS_EmptySet, FS_AddElement
  <2>2. IsFiniteSet(({} \cup {"older"}) \cup {"newer"})
    BY <2>1, FS_AddElement
  <2>3. OldContests = ({} \cup {"older"}) \cup {"newer"}
    BY DEF OldContests
  <2> QED BY <2>2, <2>3
<1>5. IsFiniteSet(R) /\ IsFiniteSet(archive.rows) /\ Cardinality(R) \in Nat
  BY <1>3, <1>4, FS_Subset, FS_CardinalityType
<1>6. /\ \A c \in R : settled[c] = "live"
      /\ \A c \in archive.rows : settled[c] # "live"
      /\ archive.counted = Cardinality(archive.rows)
      /\ \A c \in OldContests : settled[c] = Archived => c \in archive.rows
  BY DEF ArchiveInv, ArchivedOnce
<1>7. archive.rows \cap R = {}
  BY <1>6
<1> HIDE DEF R
<1>8. Cardinality(archive.rows \cup R) = Cardinality(archive.rows) + Cardinality(R)
  <2>1. Cardinality(archive.rows \cup R) = Cardinality(archive.rows) + Cardinality(R) - Cardinality(archive.rows \cap R)
    BY <1>5, FS_Union
  <2>2. Cardinality(archive.rows \cap R) = 0
    BY <1>7, FS_EmptySet
  <2>3. Cardinality(archive.rows) \in Nat
    BY <1>5, FS_CardinalityType
  <2> QED BY <1>5, <2>1, <2>2, <2>3
<1>9. \A c \in OldContests : settled'[c] = IF c \in R THEN Archived ELSE settled[c]
  BY <1>1
<1>10. archive'.rows = archive.rows \cup R /\ archive'.counted = archive.counted + Cardinality(R)
  BY <1>1
<1>11. ArchivedOnce'
  BY <1>3, <1>6, <1>8, <1>9, <1>10 DEF ArchivedOnce, Archived
<1>12. \A q \in Processors : sweeper'[q] = IF q = p THEN x ELSE sweeper[q]
  BY <1>1, <1>2
<1>13. \A q, r \in Processors : q # r => sweeper'[q].rows \cap sweeper'[r].rows = {}
  BY <1>12 DEF ArchiveInv
<1>14. ASSUME NEW q \in Processors, NEW c \in sweeper'[q].rows PROVE settled'[c] = "live"
  <2>1. q # p /\ c \in sweeper[q].rows
    BY <1>12, <1>14
  <2>2. c \notin R /\ c \in OldContests /\ settled[c] = "live"
    BY <1>2, <2>1 DEF ArchiveInv, R
  <2> QED BY <1>9, <2>2
<1>15. ArchiveTypes'
  <2>1. sweeper' \in [Processors -> [at : {"idle", "archive", "sweep"}, ids : SUBSET OldContests,
                                     rows : SUBSET OldContests]]
    BY <1>1, <1>2
  <2>2. settled' \in [OldContests -> {"live", Archived, "deleted"}]
    BY <1>1, <1>2
  <2>3. archive' \in [rows : SUBSET OldContests, counted : Nat]
    BY <1>1, <1>3, <1>5
  <2> QED BY <2>1, <2>2, <2>3 DEF ArchiveTypes
<1> QED BY <1>11, <1>13, <1>14, <1>15 DEF ArchiveInv

\* Each step of the workers, the lock and the generator's cleanup keeps the
\* archive right.
LEMMA ArchiveStep == ArchiveInv /\ [ArchiveNext]_archiveVars => ArchiveInv'
<1> SUFFICES ASSUME ArchiveInv, [ArchiveNext]_archiveVars PROVE ArchiveInv'
  OBVIOUS
<1>1. /\ sweeper \in [Processors -> [at : {"idle", "archive", "sweep"}, ids : SUBSET OldContests,
                                     rows : SUBSET OldContests]]
      /\ settled \in [OldContests -> {"live", Archived, "deleted"}]
  BY DEF ArchiveInv, ArchiveTypes
<1>2. CASE DailyLockExpires \/ UNCHANGED archiveVars
  <2>1. UNCHANGED <<sweeper, settled, archive>>
    BY <1>2 DEF DailyLockExpires, archiveVars
  <2>2. ArchiveTypes' /\ ArchivedOnce'
    BY <2>1 DEF ArchiveInv, ArchiveTypes, ArchivedOnce
  <2> QED BY <2>1, <2>2 DEF ArchiveInv
<1>3. ASSUME NEW c \in OldContests, DeleteSettled(c) PROVE ArchiveInv'
  <2>1. /\ \A p \in Processors : c \notin sweeper[p].rows
        /\ settled' = [settled EXCEPT ![c] = "deleted"] /\ UNCHANGED <<sweeper, archive>>
    BY <1>3 DEF DeleteSettled
  <2>2. \A d \in OldContests : settled'[d] = IF d = c THEN "deleted" ELSE settled[d]
    BY <1>1, <2>1
  <2>3. ArchiveTypes'
    BY <2>1 DEF ArchiveInv, ArchiveTypes
  <2>4. archive.rows \subseteq OldContests
    BY DEF ArchiveInv, ArchiveTypes
  <2>5. ArchivedOnce'
    BY <2>1, <2>2, <2>4 DEF ArchiveInv, ArchivedOnce, Archived
  <2>6. ASSUME NEW p \in Processors, NEW d \in sweeper[p].rows PROVE settled'[d] = "live"
    <3>1. d \in OldContests
      BY <1>1
    <3> QED BY <2>1, <2>2, <3>1 DEF ArchiveInv
  <2> QED BY <2>1, <2>3, <2>5, <2>6 DEF ArchiveInv
<1>4. ASSUME NEW p \in Processors, ExecuteCleanup(p) PROVE ArchiveInv'
  <2> DEFINE x == [at |-> "archive", rows |-> {}, ids |-> {c \in OldContests : settled[c] = "live"}]
  <2>1. sweeper' = [sweeper EXCEPT ![p] = x] /\ UNCHANGED <<settled, archive>>
    BY <1>4 DEF ExecuteCleanup
  <2>2. x \in [at : {"idle", "archive", "sweep"}, ids : SUBSET OldContests, rows : SUBSET OldContests] /\ x.rows = {}
    OBVIOUS
  <2> HIDE DEF x
  <2> QED BY <2>1, <2>2, SweeperMoves
<1>5. ASSUME NEW p \in Processors, ArchiveOneContest(p) PROVE ArchiveInv'
  <2> DEFINE Copied(c) == [at |-> "archive", ids |-> sweeper[p].ids \ {c}, rows |-> sweeper[p].rows \cup {c}]
             given == [at |-> "sweep", ids |-> {}, rows |-> {}]
  <2>1. PICK c \in sweeper[p].ids :
          /\ \A q \in Processors \ {p} : c \notin sweeper[q].rows
          /\ sweeper' = [sweeper EXCEPT ![p] = IF settled[c] = "live" THEN Copied(c) ELSE given]
    BY <1>5 DEF ArchiveOneContest
  <2>2. UNCHANGED <<settled, archive>>
    BY <1>5 DEF ArchiveOneContest
  <2>3. sweeper[p] \in [at : {"idle", "archive", "sweep"}, ids : SUBSET OldContests, rows : SUBSET OldContests]
    BY <1>1
  <2>4. given \in [at : {"idle", "archive", "sweep"}, ids : SUBSET OldContests, rows : SUBSET OldContests]
        /\ given.rows = {}
    OBVIOUS
  <2> HIDE DEF Copied, given
  <2>5. CASE settled[c] = "live"
    <3> DEFINE I == sweeper[p].ids \ {c}
               W == sweeper[p].rows \cup {c}
    <3>1. sweeper' = [sweeper EXCEPT ![p] = Copied(c)]
      BY <2>1, <2>5
    <3>2. I \in SUBSET OldContests /\ W \in SUBSET OldContests
      BY <2>3
    <3>3. Copied(c) = [at |-> "archive", ids |-> I, rows |-> W]
      BY DEF Copied
    <3> HIDE DEF I, W
    <3>4. Copied(c) \in [at : {"idle", "archive", "sweep"}, ids : SUBSET OldContests, rows : SUBSET OldContests]
          /\ Copied(c).rows = W
      BY <2>3, <3>2, <3>3
    <3>5. \A d \in Copied(c).rows \ sweeper[p].rows :
            settled[d] = "live" /\ \A q \in Processors \ {p} : d \notin sweeper[q].rows
      BY <2>1, <2>5, <3>4 DEF W
    <3> QED BY <2>2, <3>1, <3>4, <3>5, SweeperMoves
  <2>6. CASE settled[c] # "live"
    <3>1. sweeper' = [sweeper EXCEPT ![p] = given]
      BY <2>1, <2>6
    <3> QED BY <2>2, <2>4, <3>1, SweeperMoves
  <2> QED BY <2>5, <2>6
<1>6. ASSUME NEW p \in Processors, CommitArchive(p) PROVE ArchiveInv'
  BY <1>6, CommitArchiveKept
<1>7. ASSUME NEW p \in Processors, AbortArchive(p) PROVE ArchiveInv'
  <2> DEFINE x == [at |-> "sweep", ids |-> {}, rows |-> {}]
  <2>1. sweeper' = [sweeper EXCEPT ![p] = x] /\ UNCHANGED <<settled, archive>>
    BY <1>7 DEF AbortArchive
  <2>2. x \in [at : {"idle", "archive", "sweep"}, ids : SUBSET OldContests, rows : SUBSET OldContests] /\ x.rows = {}
    OBVIOUS
  <2> HIDE DEF x
  <2> QED BY <2>1, <2>2, SweeperMoves
<1>8. ASSUME NEW p \in Processors, FinishCleanup(p) PROVE ArchiveInv'
  <2> DEFINE x == [sweeper[p] EXCEPT !.at = "idle"]
  <2>1. sweeper' = [sweeper EXCEPT ![p] = x] /\ UNCHANGED <<settled, archive>>
    BY <1>1, <1>8 DEF FinishCleanup
  <2>2. sweeper[p] \in [at : {"idle", "archive", "sweep"}, ids : SUBSET OldContests, rows : SUBSET OldContests]
    BY <1>1
  <2>3. x \in [at : {"idle", "archive", "sweep"}, ids : SUBSET OldContests, rows : SUBSET OldContests]
        /\ x.rows = sweeper[p].rows
    BY <2>2
  <2> HIDE DEF x
  <2> QED BY <2>1, <2>3, SweeperMoves
<1> QED BY <1>2, <1>3, <1>4, <1>5, <1>6, <1>7, <1>8 DEF ArchiveNext

\* The catalogue begins without a contest and without prizes.
LEMMA CatalogStart == CatalogInit => CatalogInv
<1> SUFFICES ASSUME CatalogInit PROVE CatalogInv
  OBVIOUS
<1>1. /\ row = [status |-> "none", free |-> FALSE, fee |-> 0, lockedFee |-> -1, overridden |-> FALSE]
      /\ edit \in [Processors -> [at : {"idle"}, ranks : RankChoices, seen : {{}}]] /\ tierPrizes = {}
  BY DEF CatalogInit
<1>2. row \in [status : {"none", "draft", "scheduled", "registration_open"}, free : BOOLEAN,
               fee : Fees, lockedFee : Fees \cup {-1}, overridden : BOOLEAN]
  BY <1>1 DEF Fees
<1>3. RankChoices \subseteq SUBSET Int
  BY DEF RankChoices
<1>4. edit \in [Processors -> [at : {"idle", "replace", "deleted", "done"}, ranks : SUBSET Int,
                               seen : SUBSET Prize]]
  BY <1>1, <1>3
<1>5. \A e \in Processors : edit[e].seen = {}
  BY <1>1
<1>6. Whole({})
  BY DEF Whole
<1>7. CatalogHolds
  BY <1>1 DEF CatalogHolds
<1> QED BY <1>1, <1>2, <1>4, <1>5, <1>6, <1>7 DEF CatalogInv, CatalogTypes

\* What the row must say for itself: a free contest costs nothing unless the
\* fee was overridden, and the fee the first player paid stays.
RowSound(r) ==
  /\ r \in [status : {"none", "draft", "scheduled", "registration_open"}, free : BOOLEAN,
            fee : Fees, lockedFee : Fees \cup {-1}, overridden : BOOLEAN]
  /\ r.free /\ r.fee # 0 => r.overridden
  /\ r.lockedFee # -1 => r.fee = r.lockedFee

\* A step that leaves the prizes alone and the row sound disturbs nothing.
LEMMA RowMoves ==
  ASSUME CatalogInv, RowSound(row'), UNCHANGED <<edit, tierPrizes>>
  PROVE  CatalogInv'
<1>1. CatalogTypes'
  BY DEF RowSound, CatalogInv, CatalogTypes
<1>2. Whole(tierPrizes)' /\ \A e \in Processors : Whole(edit[e].seen)'
  BY DEF CatalogInv, Whole
<1>3. CatalogHolds'
  BY DEF RowSound, CatalogInv, CatalogHolds
<1> QED BY <1>1, <1>2, <1>3 DEF CatalogInv

\* A contest made, with the override told from the fee.
LEMMA MakeContestKept ==
  ASSUME CatalogInv, NEW status \in {"draft", "scheduled"}, NEW isFree \in BOOLEAN, NEW fee \in Fees,
         MakeContest(status, isFree, fee)
  PROVE  CatalogInv'
<1> DEFINE r == [status |-> status, free |-> isFree, fee |-> fee, lockedFee |-> -1,
                 overridden |-> isFree /\ fee # 0]
<1>1. row' = r /\ UNCHANGED <<edit, tierPrizes>>
  BY DEF MakeContest
<1>2. (isFree /\ fee # 0) \in BOOLEAN
  OBVIOUS
<1>3. r \in [status : {"none", "draft", "scheduled", "registration_open"}, free : BOOLEAN,
             fee : Fees, lockedFee : Fees \cup {-1}, overridden : BOOLEAN]
  BY <1>2
<1>4. RowSound(r)
  BY <1>3 DEF RowSound
<1> HIDE DEF r
<1> QED BY <1>1, <1>4, RowMoves

\* A partial update looks at what the row will hold.
LEMMA UpdateContestKept ==
  ASSUME CatalogInv, NEW f \in BOOLEAN, NEW isFree \in BOOLEAN, NEW g \in BOOLEAN, NEW fee \in Fees,
         HandleUpdateContest(<<f, isFree>>, <<g, fee>>)
  PROVE  CatalogInv'
<1> DEFINE newFree == IF f THEN isFree ELSE row.free
           newFee == IF g THEN fee ELSE row.fee
           r == [row EXCEPT !.free = newFree, !.fee = newFee, !.overridden = FALSE]
<1>1. /\ <<f, isFree>>[1] = f /\ <<f, isFree>>[2] = isFree
      /\ <<g, fee>>[1] = g /\ <<g, fee>>[2] = fee
  OBVIOUS
<1>2. row' = r /\ UNCHANGED <<edit, tierPrizes>>
  BY <1>1 DEF HandleUpdateContest
<1>3. (g => row.lockedFee = -1) /\ (newFree => newFee = 0)
  BY <1>1 DEF HandleUpdateContest, PatchAllowed
<1>4. row \in [status : {"none", "draft", "scheduled", "registration_open"}, free : BOOLEAN,
               fee : Fees, lockedFee : Fees \cup {-1}, overridden : BOOLEAN]
  BY DEF CatalogInv, CatalogTypes
<1>5. newFree \in BOOLEAN /\ newFee \in Fees
  BY <1>4
<1>6. row.lockedFee # -1 => newFee = row.lockedFee
  BY <1>3 DEF CatalogInv, CatalogHolds
<1> HIDE DEF newFree, newFee
<1>7. /\ r \in [status : {"none", "draft", "scheduled", "registration_open"}, free : BOOLEAN,
                fee : Fees, lockedFee : Fees \cup {-1}, overridden : BOOLEAN]
      /\ r.free = newFree /\ r.fee = newFee /\ r.lockedFee = row.lockedFee
  BY <1>4, <1>5
<1>8. RowSound(r)
  BY <1>3, <1>6, <1>7 DEF RowSound
<1> HIDE DEF r
<1> QED BY <1>2, <1>8, RowMoves

\* A step of the contest's life changes its status, or locks its fee.
LEMMA LifeKept ==
  ASSUME CatalogInv, HandleDeleteContest \/ HandlePublishContest \/ OpenRegistration \/ FirstJoin
  PROVE  CatalogInv'
<1>1. RowSound(row)
  BY DEF CatalogInv, CatalogTypes, CatalogHolds, RowSound
<1>2. CASE HandleDeleteContest \/ HandlePublishContest \/ OpenRegistration
  <2>1. PICK s \in {"none", "scheduled", "registration_open"} : row' = [row EXCEPT !.status = s]
    BY <1>2 DEF HandleDeleteContest, HandlePublishContest, OpenRegistration
  <2>2. UNCHANGED <<edit, tierPrizes>>
    BY <1>2 DEF HandleDeleteContest, HandlePublishContest, OpenRegistration
  <2>3. RowSound(row')
    BY <1>1, <2>1 DEF RowSound
  <2> QED BY <2>2, <2>3, RowMoves
<1>3. CASE FirstJoin
  <2>1. row' = [row EXCEPT !.lockedFee = row.fee] /\ UNCHANGED <<edit, tierPrizes>>
    BY <1>3 DEF FirstJoin
  <2>2. RowSound(row')
    BY <1>1, <2>1 DEF RowSound
  <2> QED BY <2>1, <2>2, RowMoves
<1> QED BY <1>2, <1>3

\* A request that has not inserted yet may look at or lock whole prizes.
LEMMA EditMoves ==
  ASSUME CatalogInv, NEW e \in Processors, edit[e].at # "done",
         NEW x \in [at : {"idle", "replace", "deleted", "done"}, ranks : SUBSET Int, seen : SUBSET Prize],
         x.ranks = edit[e].ranks, Whole(x.seen),
         edit' = [edit EXCEPT ![e] = x], UNCHANGED <<row, tierPrizes>>
  PROVE  CatalogInv'
<1>1. \A d \in Processors : edit'[d] = IF d = e THEN x ELSE edit[d]
  BY DEF CatalogInv, CatalogTypes
<1>2. CatalogTypes'
  BY DEF CatalogInv, CatalogTypes
<1>3. ASSUME NEW S \in SUBSET Prize, Whole(S)
      PROVE  \A q \in S : /\ edit'[q.by].at = "done" /\ q.rank \in edit'[q.by].ranks
                          /\ \A k \in edit'[q.by].ranks : [rank |-> k, by |-> q.by] \in S
  <2>1. \A q \in S : q.by \in Processors
    BY DEF Prize
  <2> QED BY <1>1, <1>3, <2>1 DEF Whole
<1>4. Whole(tierPrizes)'
  <2>1. tierPrizes \in SUBSET Prize /\ Whole(tierPrizes)
    BY DEF CatalogInv, CatalogTypes
  <2> QED BY <1>3, <2>1 DEF Whole
<1>5. ASSUME NEW d \in Processors PROVE Whole(edit[d].seen)'
  <2>1. edit'[d].seen \in SUBSET Prize /\ Whole(edit'[d].seen)
    BY <1>1 DEF CatalogInv, CatalogTypes
  <2> QED BY <1>3, <2>1 DEF Whole
<1>6. \A d \in Processors : edit'[d].ranks = edit[d].ranks
  BY <1>1
<1>7. \A q \in tierPrizes : q.by \in Processors
  BY DEF CatalogInv, CatalogTypes, Prize
<1>8. CatalogHolds'
  BY <1>6, <1>7 DEF CatalogInv, CatalogHolds
<1> QED BY <1>2, <1>4, <1>5, <1>8 DEF CatalogInv

\* Under the unique index an insert meets no rank of the prizes that stay, so
\* the requests those are of name none of its ranks.
LEMMA ReplaceKept ==
  ASSUME CatalogInv, NEW e \in Processors, ReplaceTierPrizeDistributions(e)
  PROVE  CatalogInv'
<1> DEFINE x == [edit[e] EXCEPT !.at = "done", !.seen = {}]
           New == {[rank |-> k, by |-> e] : k \in edit[e].ranks}
           Stay == tierPrizes \ edit[e].seen
<1>1. /\ edit \in [Processors -> [at : {"idle", "replace", "deleted", "done"}, ranks : SUBSET Int,
                                  seen : SUBSET Prize]]
      /\ tierPrizes \in SUBSET Prize
  BY DEF CatalogInv, CatalogTypes
<1>2. edit[e].at = "deleted" /\ edit' = [edit EXCEPT ![e] = x] /\ row' = row
  BY <1>1 DEF ReplaceTierPrizeDistributions
<1>3. x \in [at : {"idle", "replace", "deleted", "done"}, ranks : SUBSET Int, seen : SUBSET Prize]
      /\ x.ranks = edit[e].ranks /\ x.seen = {} /\ x.at = "done"
  BY <1>1
<1> HIDE DEF x
<1>4. CASE tierPrizes' = tierPrizes
  <2>1. Whole(x.seen)
    BY <1>3 DEF Whole
  <2> QED BY <1>2, <1>3, <1>4, <2>1, EditMoves
<1>5. CASE ~RankTaken(e) /\ tierPrizes' = Stay \cup New
  <2>1. \A d \in Processors : edit'[d] = IF d = e THEN x ELSE edit[d]
    BY <1>1, <1>2
  <2>2. \A d \in Processors : edit'[d].ranks = edit[d].ranks
    BY <1>3, <2>1
  <2>3. Whole(tierPrizes) /\ Whole(edit[e].seen)
    BY DEF CatalogInv
  <2>4. \A q \in Stay : q \in Prize /\ q.by \in Processors /\ q.by # e
    <3>1. \A q \in Stay : q \in Prize /\ q.by \in Processors
      BY <1>1 DEF Prize
    <3>2. \A q \in Stay : edit[q.by].at = "done"
      BY <2>3 DEF Whole
    <3> QED BY <1>2, <3>1, <3>2
  <2>5. New \subseteq Prize
    BY <1>1 DEF Prize
  <2>6. ASSUME NEW q \in Stay, NEW k \in edit[q.by].ranks PROVE [rank |-> k, by |-> q.by] \in Stay
    <3> DEFINE m == [rank |-> k, by |-> q.by]
    <3>1. m \in tierPrizes
      BY <2>3 DEF Whole
    <3>2. ASSUME m \in edit[e].seen PROVE FALSE
      <4>1. m.by = q.by /\ q = [rank |-> q.rank, by |-> q.by]
        BY <2>4 DEF Prize
      <4>2. q.rank \in edit[q.by].ranks
        BY <2>3 DEF Whole
      <4>3. [rank |-> q.rank, by |-> q.by] \in edit[e].seen
        BY <2>3, <3>2, <4>1, <4>2 DEF Whole
      <4> QED BY <4>1, <4>3 DEF Stay
    <3> QED BY <3>1, <3>2
  <2>7. \A q \in New : q.by = e /\ q.rank \in edit[e].ranks
    OBVIOUS
  <2>8. \A k \in edit[e].ranks : [rank |-> k, by |-> e] \in New
    OBVIOUS
  <2>9. \A q \in Stay : edit[q.by].at = "done" /\ q.rank \in edit[q.by].ranks
    BY <2>3 DEF Whole
  <2>10. \A q \in Stay : q.rank \notin edit[e].ranks
    BY <1>5 DEF RankTaken
  <2> HIDE DEF Stay, New
  <2>11. Whole(tierPrizes)'
    <3>1. ASSUME NEW q \in Stay
          PROVE  /\ edit'[q.by].at = "done" /\ q.rank \in edit'[q.by].ranks
                 /\ \A k \in edit'[q.by].ranks : [rank |-> k, by |-> q.by] \in tierPrizes'
      BY <1>5, <2>1, <2>2, <2>4, <2>6, <2>9
    <3>2. ASSUME NEW q \in New
          PROVE  /\ edit'[q.by].at = "done" /\ q.rank \in edit'[q.by].ranks
                 /\ \A k \in edit'[q.by].ranks : [rank |-> k, by |-> q.by] \in tierPrizes'
      BY <1>3, <1>5, <2>1, <2>2, <2>7, <2>8
    <3> QED BY <1>5, <3>1, <3>2 DEF Whole
  <2>12. ASSUME NEW d \in Processors PROVE Whole(edit[d].seen)'
    <3>1. CASE d = e
      BY <1>3, <2>1, <3>1 DEF Whole
    <3>2. CASE d # e
      <4>1. edit'[d].seen = edit[d].seen /\ Whole(edit[d].seen)
        BY <2>1, <3>2 DEF CatalogInv
      <4>2. \A q \in edit[d].seen : q.by \in Processors /\ edit[q.by].at = "done"
        BY <1>1, <4>1 DEF Prize, Whole
      <4>3. \A q \in edit[d].seen : edit'[q.by] = edit[q.by]
        BY <1>2, <2>1, <4>2
      <4> QED BY <4>1, <4>3 DEF Whole
    <3> QED BY <3>1, <3>2
  <2>13. CatalogTypes'
    <3>1. tierPrizes' \in SUBSET Prize
      BY <1>5, <2>4, <2>5
    <3>2. edit' \in [Processors -> [at : {"idle", "replace", "deleted", "done"}, ranks : SUBSET Int,
                                    seen : SUBSET Prize]]
      BY <1>1, <1>2, <1>3
    <3> QED BY <1>2, <3>1, <3>2 DEF CatalogInv, CatalogTypes
  <2>14. ASSUME NEW q \in Stay PROVE edit[q.by].ranks \cap edit[e].ranks = {}
    <3>1. ASSUME NEW k \in edit[q.by].ranks, k \in edit[e].ranks PROVE FALSE
      <4>1. [rank |-> k, by |-> q.by] \in Stay
        BY <2>6
      <4>2. [rank |-> k, by |-> q.by].rank = k
        OBVIOUS
      <4> QED BY <2>10, <3>1, <4>1, <4>2
    <3> QED BY <3>1
  <2>15. \A q, r \in Stay : q.by = r.by \/ edit[q.by].ranks \cap edit[r.by].ranks = {}
    BY DEF CatalogInv, CatalogHolds, Stay
  <2>16. \A q, r \in tierPrizes' : q.by = r.by \/ edit[q.by].ranks \cap edit[r.by].ranks = {}
    BY <1>5, <2>7, <2>14, <2>15
  <2>17. \A q \in tierPrizes' : q.by \in Processors
    BY <1>5, <2>4, <2>7
  <2>18. CatalogHolds'
    BY <1>2, <2>2, <2>16, <2>17 DEF CatalogInv, CatalogHolds
  <2> QED BY <2>11, <2>12, <2>13, <2>18 DEF CatalogInv
<1>6. (~RankTaken(e) /\ tierPrizes' = Stay \cup New) \/ tierPrizes' = tierPrizes
  BY DEF ReplaceTierPrizeDistributions
<1> QED BY <1>4, <1>5, <1>6

\* Each step of the admins keeps the contest and the prizes of the tier right.
LEMMA CatalogStep == CatalogInv /\ [CatalogNext]_catalogVars => CatalogInv'
<1> SUFFICES ASSUME CatalogInv, [CatalogNext]_catalogVars PROVE CatalogInv'
  OBVIOUS
<1>1. CASE HandleDeleteContest \/ HandlePublishContest \/ OpenRegistration \/ FirstJoin
  BY <1>1, LifeKept
<1>2. ASSUME NEW isFree \in BOOLEAN, NEW fee \in Fees,
             \/ \E status \in {"draft", "scheduled"} : HandleCreateContest(isFree, fee, status)
             \/ HandleCreateContestFromTemplate(isFree, fee)
             \/ HandleCreateSpecialTournament(fee)
      PROVE  CatalogInv'
  <2>1. (fee = 0) \in BOOLEAN
    OBVIOUS
  <2> QED BY <1>2, <2>1, MakeContestKept
       DEF HandleCreateContest, HandleCreateContestFromTemplate, HandleCreateSpecialTournament
<1>3. ASSUME NEW isFree \in BOOLEAN, NEW fee \in Fees, NEW f \in BOOLEAN, NEW g \in BOOLEAN,
             HandleUpdateContest(<<f, isFree>>, <<g, fee>>)
      PROVE  CatalogInv'
  BY <1>3, UpdateContestKept
<1>4. ASSUME NEW e \in Processors, HandleUpdateTier(e) \/ DeletePrizes(e) PROVE CatalogInv'
  <2> DEFINE look == IF edit[e].at = "idle" THEN tierPrizes ELSE edit[e].seen \cap tierPrizes
             next == IF edit[e].at = "idle" THEN "replace" ELSE "deleted"
             x == [edit[e] EXCEPT !.at = next, !.seen = look]
  <2>1. /\ edit \in [Processors -> [at : {"idle", "replace", "deleted", "done"}, ranks : SUBSET Int,
                                    seen : SUBSET Prize]]
        /\ tierPrizes \in SUBSET Prize /\ Whole(tierPrizes) /\ Whole(edit[e].seen)
    BY DEF CatalogInv, CatalogTypes
  <2>2. edit[e].at \in {"idle", "replace"} /\ UNCHANGED <<row, tierPrizes>>
    BY <1>4 DEF HandleUpdateTier, DeletePrizes
  <2>3. edit' = [edit EXCEPT ![e] = x]
    BY <1>4, <2>1 DEF HandleUpdateTier, DeletePrizes
  <2>4. look \in SUBSET Prize
    BY <2>1
  <2>5. Whole(look)
    BY <2>1 DEF Whole
  <2>6. next \in {"idle", "replace", "deleted", "done"}
    OBVIOUS
  <2> HIDE DEF look, next
  <2>7. x \in [at : {"idle", "replace", "deleted", "done"}, ranks : SUBSET Int, seen : SUBSET Prize]
        /\ x.ranks = edit[e].ranks /\ x.seen = look
    BY <2>1, <2>4, <2>6
  <2> HIDE DEF x
  <2> QED BY <2>2, <2>3, <2>5, <2>7, EditMoves
<1>5. ASSUME NEW e \in Processors, ReplaceTierPrizeDistributions(e) PROVE CatalogInv'
  BY <1>5, ReplaceKept
<1>6. CASE UNCHANGED catalogVars
  <2>1. UNCHANGED <<row, edit, tierPrizes>>
    BY <1>6 DEF catalogVars
  <2>2. RowSound(row)
    BY DEF CatalogInv, CatalogTypes, CatalogHolds, RowSound
  <2> QED BY <2>1, <2>2, RowMoves DEF RowSound
<1> QED BY <1>1, <1>2, <1>3, <1>4, <1>5, <1>6 DEF CatalogNext

\* The planning begins without a template and what belongs to one.
LEMMA PlanningStart == PlanningInit => PlanningInv
BY DEF PlanningInit, PlanningInv, PlanTypes, PlansSound, FreeNoFee, Fees

\* What happens to the template leaves the rest as it is.
LEMMA TemplateKept ==
  ASSUME PlanningInv, NEW isFree \in BOOLEAN, NEW fee \in Fees, NEW f \in BOOLEAN, NEW g \in BOOLEAN,
         HandleUpdateTemplate(<<f, isFree>>, <<g, fee>>) \/ HandleDeleteTemplate
  PROVE  PlanningInv'
<1>1. tmpl \in [status : {"none", "active", "inactive"}, free : BOOLEAN, fee : Fees]
  BY DEF PlanningInv, PlanTypes
<1>2. UNCHANGED <<tiers, schedule, entry>> /\ tmpl.status # "none"
  BY DEF HandleUpdateTemplate, HandleDeleteTemplate
<1>3. /\ tmpl' \in [status : {"none", "active", "inactive"}, free : BOOLEAN, fee : Fees]
      /\ FreeNoFee(tmpl'.free, tmpl'.fee) /\ tmpl'.status # "none"
  <2>1. CASE HandleUpdateTemplate(<<f, isFree>>, <<g, fee>>)
    <3> DEFINE newFree == IF f THEN isFree ELSE tmpl.free
               newFee == IF g THEN fee ELSE tmpl.fee
    <3>1. newFree \in BOOLEAN /\ newFee \in Fees
      BY <1>1
    <3>2. /\ tmpl' = [tmpl EXCEPT !.free = newFree, !.fee = newFee]
          /\ FreeNoFee([tmpl EXCEPT !.free = newFree, !.fee = newFee].free,
                       [tmpl EXCEPT !.free = newFree, !.fee = newFee].fee)
      BY <2>1 DEF HandleUpdateTemplate
    <3> HIDE DEF newFree, newFee
    <3> QED BY <1>1, <1>2, <3>1, <3>2
  <2>2. CASE HandleDeleteTemplate
    BY <1>1, <2>2 DEF HandleDeleteTemplate, PlanningInv, PlansSound
  <2> QED BY <2>1, <2>2
<1> QED BY <1>2, <1>3 DEF PlanningInv, PlanTypes, PlansSound, FreeNoFee

\* Tiers that are sound and cost different fees, of a template that exists.
LEMMA TiersMove ==
  ASSUME PlanningInv, tmpl.status # "none", UNCHANGED <<tmpl, schedule, entry>>,
         tiers' \in SUBSET [fee : Fees, free : BOOLEAN, active : BOOLEAN],
         \A t \in tiers' : FreeNoFee(t.free, t.fee),
         \A t, u \in tiers' : t.fee = u.fee => t = u
  PROVE  PlanningInv'
BY DEF PlanningInv, PlanTypes, PlansSound, FreeNoFee

\* One tier is put in the place of another, or beside those there are, at a
\* fee no other has.
LEMMA TierKept ==
  ASSUME PlanningInv, tmpl.status # "none", UNCHANGED <<tmpl, schedule, entry>>,
         NEW kept \in SUBSET tiers, NEW new \in [fee : Fees, free : BOOLEAN, active : BOOLEAN],
         FreeNoFee(new.free, new.fee), \A u \in kept : u.fee # new.fee,
         tiers' = kept \cup {new}
  PROVE  PlanningInv'
<1>1. tiers' \in SUBSET [fee : Fees, free : BOOLEAN, active : BOOLEAN]
  BY DEF PlanningInv, PlanTypes
<1>2. \A t \in tiers' : FreeNoFee(t.free, t.fee)
  BY DEF PlanningInv, PlansSound
<1>3. \A t, u \in tiers' : t.fee = u.fee => t = u
  BY DEF PlanningInv, PlansSound
<1> QED BY <1>1, <1>2, <1>3, TiersMove

\* Paid tiers made together, at fees no tier had.
LEMMA BulkKept ==
  ASSUME PlanningInv, NEW fees \in SUBSET Fees, HandleBulkCreateTiers(fees)
  PROVE  PlanningInv'
<1> DEFINE New == {[fee |-> f, free |-> FALSE, active |-> TRUE] : f \in fees}
<1>1. /\ tmpl.status # "none" /\ UNCHANGED <<tmpl, schedule, entry>>
      /\ tiers' = tiers \cup New /\ \A t \in tiers : t.fee \notin fees
  BY DEF HandleBulkCreateTiers
<1>2. New \in SUBSET [fee : Fees, free : BOOLEAN, active : BOOLEAN]
  <2>1. ASSUME NEW f \in Fees
        PROVE  [fee |-> f, free |-> FALSE, active |-> TRUE] \in [fee : Fees, free : BOOLEAN, active : BOOLEAN]
    OBVIOUS
  <2>2. ASSUME NEW t \in New PROVE t \in [fee : Fees, free : BOOLEAN, active : BOOLEAN]
    BY <2>1
  <2> QED BY <2>2
<1>3. ASSUME NEW t \in New
      PROVE  t.free = FALSE /\ t.fee \in fees /\ t = [fee |-> t.fee, free |-> FALSE, active |-> TRUE]
  <2>1. PICK f \in fees : t = [fee |-> f, free |-> FALSE, active |-> TRUE]
    OBVIOUS
  <2> QED BY <2>1
<1>4. \A t, u \in New : t.fee = u.fee => t = u
  <2> HIDE DEF New
  <2> QED BY <1>3
<1> HIDE DEF New
<1>5. tiers' \in SUBSET [fee : Fees, free : BOOLEAN, active : BOOLEAN]
  BY <1>1, <1>2 DEF PlanningInv, PlanTypes
<1>6. \A t \in tiers' : FreeNoFee(t.free, t.fee)
  BY <1>1, <1>3 DEF PlanningInv, PlansSound, FreeNoFee
<1>7. \A t, u \in tiers' : t.fee = u.fee => t = u
  BY <1>1, <1>3, <1>4 DEF PlanningInv, PlansSound
<1> QED BY <1>1, <1>5, <1>6, <1>7, TiersMove

\* A template is made together with its first tiers.
LEMMA CreateTemplateKept ==
  ASSUME PlanningInv, NEW isFree \in BOOLEAN, NEW fee \in Fees, NEW first \in SUBSET Fees,
         HandleCreateTemplate(isFree, fee, first)
  PROVE  PlanningInv'
<1> DEFINE New == {[fee |-> f, free |-> FALSE, active |-> TRUE] : f \in first}
<1>1. /\ tmpl' = [status |-> "active", free |-> isFree, fee |-> fee] /\ FreeNoFee(isFree, fee)
      /\ tiers' = New /\ UNCHANGED <<schedule, entry>>
  BY DEF HandleCreateTemplate
<1>2. New \in SUBSET [fee : Fees, free : BOOLEAN, active : BOOLEAN]
  <2>1. ASSUME NEW f \in Fees
        PROVE  [fee |-> f, free |-> FALSE, active |-> TRUE] \in [fee : Fees, free : BOOLEAN, active : BOOLEAN]
    OBVIOUS
  <2>2. ASSUME NEW t \in New PROVE t \in [fee : Fees, free : BOOLEAN, active : BOOLEAN]
    BY <2>1
  <2> QED BY <2>2
<1>3. (\A t \in New : t.free = FALSE) /\ \A t, u \in New : t.fee = u.fee => t = u
  <2>1. ASSUME NEW t \in New
        PROVE  t.free = FALSE /\ t = [fee |-> t.fee, free |-> FALSE, active |-> TRUE]
    <3>1. PICK f \in first : t = [fee |-> f, free |-> FALSE, active |-> TRUE]
      OBVIOUS
    <3> QED BY <3>1
  <2> HIDE DEF New
  <2> QED BY <2>1
<1> HIDE DEF New
<1>4. /\ tmpl' \in [status : {"none", "active", "inactive"}, free : BOOLEAN, fee : Fees]
      /\ tmpl'.status = "active" /\ tmpl'.free = isFree /\ tmpl'.fee = fee
  BY <1>1
<1> QED BY <1>1, <1>2, <1>3, <1>4 DEF PlanningInv, PlanTypes, PlansSound, FreeNoFee

\* What happens to the schedule and the calendar entry needs a template.
LEMMA ScheduleKept ==
  ASSUME PlanningInv,
         \/ HandleCreateSchedule \/ HandleDeleteSchedule \/ HandlePauseSchedule
         \/ HandleResumeSchedule \/ HandleDeleteCalendarEntry
         \/ \E enabled \in BOOLEAN : HandleCreateCalendarEntry(enabled) \/ HandleUpdateCalendarEntry(enabled)
  PROVE  PlanningInv'
<1>1. UNCHANGED <<tmpl, tiers>>
  BY DEF HandleCreateSchedule, HandleDeleteSchedule, HandlePauseSchedule, HandleResumeSchedule,
         HandleDeleteCalendarEntry, HandleCreateCalendarEntry, HandleUpdateCalendarEntry
<1>2. tmpl.status # "none"
  BY DEF HandleCreateSchedule, HandleDeleteSchedule, HandlePauseSchedule, HandleResumeSchedule,
         HandleDeleteCalendarEntry, HandleCreateCalendarEntry, HandleUpdateCalendarEntry,
         PlanningInv, PlansSound
<1>3. /\ entry' \in [enabled : BOOLEAN, status : {"none", "active", "paused", "ended"}]
      /\ entry'.enabled => entry'.status = "active"
  <2>1. CASE entry' = entry
    BY <2>1 DEF PlanningInv, PlanTypes, PlansSound
  <2>2. CASE HandleDeleteCalendarEntry
    BY <2>2 DEF HandleDeleteCalendarEntry
  <2>3. ASSUME NEW enabled \in BOOLEAN, HandleCreateCalendarEntry(enabled)
      PROVE  /\ entry' \in [enabled : BOOLEAN, status : {"none", "active", "paused", "ended"}]
             /\ entry'.enabled => entry'.status = "active"
    BY <2>3 DEF HandleCreateCalendarEntry
  <2>4. ASSUME NEW enabled \in BOOLEAN, HandleUpdateCalendarEntry(enabled)
      PROVE  /\ entry' \in [enabled : BOOLEAN, status : {"none", "active", "paused", "ended"}]
             /\ entry'.enabled => entry'.status = "active"
    <3>1. CASE enabled
      BY <2>4, <3>1 DEF HandleUpdateCalendarEntry
    <3>2. CASE ~enabled
      BY <2>4, <3>2 DEF HandleUpdateCalendarEntry
    <3> QED BY <3>1, <3>2
  <2>5. CASE HandleCreateSchedule \/ HandleDeleteSchedule \/ HandlePauseSchedule \/ HandleResumeSchedule
    BY <2>1, <2>5 DEF HandleCreateSchedule, HandleDeleteSchedule, HandlePauseSchedule, HandleResumeSchedule
  <2>6. CASE \E enabled \in BOOLEAN : HandleCreateCalendarEntry(enabled) \/ HandleUpdateCalendarEntry(enabled)
    BY <2>3, <2>4, <2>6
  <2> QED BY <2>2, <2>5, <2>6
<1> QED BY <1>1, <1>2, <1>3 DEF PlanningInv, PlanTypes, PlansSound, FreeNoFee

\* Each step of the admins keeps the plans sound.
LEMMA PlanningStep == PlanningInv /\ [PlanningNext]_planningVars => PlanningInv'
<1> SUFFICES ASSUME PlanningInv, [PlanningNext]_planningVars PROVE PlanningInv'
  OBVIOUS
<1>1. CASE \/ HandleCreateSchedule \/ HandleDeleteSchedule \/ HandlePauseSchedule
           \/ HandleResumeSchedule \/ HandleDeleteCalendarEntry
           \/ \E enabled \in BOOLEAN : HandleCreateCalendarEntry(enabled) \/ HandleUpdateCalendarEntry(enabled)
  BY <1>1, ScheduleKept
<1>2. CASE HandleDeleteTemplate
  BY <1>2, TemplateKept DEF Fees
<1>3. ASSUME NEW isFree \in BOOLEAN, NEW fee \in Fees, NEW f \in BOOLEAN, NEW g \in BOOLEAN,
             HandleUpdateTemplate(<<f, isFree>>, <<g, fee>>)
      PROVE  PlanningInv'
  BY <1>3, TemplateKept
<1>4. ASSUME NEW isFree \in BOOLEAN, NEW fee \in Fees, NEW first \in SUBSET Fees,
             HandleCreateTemplate(isFree, fee, first)
      PROVE  PlanningInv'
  BY <1>4, CreateTemplateKept
<1>5. ASSUME NEW fees \in SUBSET Fees, HandleBulkCreateTiers(fees) PROVE PlanningInv'
  BY <1>5, BulkKept
<1>6. ASSUME NEW isFree \in BOOLEAN, NEW fee \in Fees, HandleCreateTier(isFree, fee) PROVE PlanningInv'
  <2> DEFINE new == [fee |-> fee, free |-> isFree, active |-> TRUE]
  <2>1. /\ tmpl.status # "none" /\ FreeNoFee(isFree, fee) /\ UNCHANGED <<tmpl, schedule, entry>>
        /\ \A t \in tiers : t.fee # fee
        /\ tiers' = tiers \cup {new}
    BY <1>6 DEF HandleCreateTier
  <2>2. new \in [fee : Fees, free : BOOLEAN, active : BOOLEAN] /\ new.fee = fee /\ new.free = isFree
    OBVIOUS
  <2> HIDE DEF new
  <2> QED BY <2>1, <2>2, TierKept
<1>7. ASSUME NEW t \in tiers, NEW isFree \in BOOLEAN, NEW fee \in Fees, NEW active \in BOOLEAN,
             PatchTier(t, [fee |-> fee, free |-> isFree, active |-> active])
      PROVE  PlanningInv'
  <2> DEFINE new == [fee |-> fee, free |-> isFree, active |-> active]
  <2>1. /\ FreeNoFee(new.free, new.fee) /\ UNCHANGED <<tmpl, schedule, entry>>
        /\ \A u \in tiers \ {t} : u.fee # new.fee
        /\ tiers' = (tiers \ {t}) \cup {new}
    BY <1>7 DEF PatchTier
  <2>2. new \in [fee : Fees, free : BOOLEAN, active : BOOLEAN]
    OBVIOUS
  <2>3. tmpl.status # "none"
    BY DEF PlanningInv, PlansSound
  <2>4. (tiers \ {t}) \in SUBSET tiers
    OBVIOUS
  <2> HIDE DEF new
  <2> QED BY <2>1, <2>2, <2>3, <2>4, TierKept
<1>8. ASSUME NEW t \in tiers, HandleDeleteTier(t) PROVE PlanningInv'
  <2> DEFINE new == [t EXCEPT !.active = FALSE]
  <2>1. UNCHANGED <<tmpl, schedule, entry>> /\ tiers' = (tiers \ {t}) \cup {new}
    BY <1>8 DEF HandleDeleteTier
  <2>2. t \in [fee : Fees, free : BOOLEAN, active : BOOLEAN]
    BY DEF PlanningInv, PlanTypes
  <2>3. new \in [fee : Fees, free : BOOLEAN, active : BOOLEAN] /\ new.fee = t.fee /\ new.free = t.free
    BY <2>2
  <2> HIDE DEF new
  <2>4. tmpl.status # "none" /\ FreeNoFee(new.free, new.fee) /\ \A u \in tiers \ {t} : u.fee # new.fee
    BY <2>3 DEF PlanningInv, PlansSound
  <2>5. (tiers \ {t}) \in SUBSET tiers
    OBVIOUS
  <2> QED BY <2>1, <2>3, <2>4, <2>5, TierKept
<1>9. CASE UNCHANGED planningVars
  BY <1>9 DEF planningVars, PlanningInv, PlanTypes, PlansSound, FreeNoFee
<1> QED BY <1>1, <1>2, <1>3, <1>4, <1>5, <1>6, <1>7, <1>8, <1>9 DEF PlanningNext

-----------------------------------------------------------------------------
(* The effects of a contest's transitions. *)

ScheduledStatuses == {"registration_open", "registration_closed", "running", "settling"}

LifeTypes ==
  /\ lifeNow \in Nat
  /\ life \in [status : DOMAIN ValidTransitions, endsAt : Int, pausedAt : Int, paused : Int,
               endedAt : Int, auto : BOOLEAN]
  /\ candidates \subseteq ScheduledStatuses

\* Until it ends, a contest's end is its planned end moved by its pauses; and
\* once the scheduler has seen the end pass, it has passed, pauses included.
PausesInv ==
  /\ LifeTypes
  /\ life.status \notin {"settling", "completed", "cancelled"} => life.endsAt = StartsAt + Duration + life.paused
  /\ (life.status = "paused") <=> (life.pausedAt # NotYet)
  /\ life.auto => life.status \in {"settling", "completed"} /\ life.endedAt - life.paused >= StartsAt + Duration
  /\ "settling" \in candidates =>
       /\ life.status \in {"running", "paused", "settling", "completed"}
       /\ life.status = "running" => StartsAt + Duration + life.paused <= lifeNow
       /\ life.status = "paused" => StartsAt + Duration + life.paused <= life.pausedAt

ParticipantRow ==
  [pos : {"none", "open", "closed"}, realized : Int, order : {"none", "pending", "cancelled"},
   avail : Int, score : Int, rank : Int]
Memory == [avail : Int, score : Int]

Effects ==
  [start : {"none", "init", "lock", "fallbackInit"},
   end : {"none", "cancelOrders", "forceClose", "readRanks", "writeRanks", "fallbackClose", "fallbackCancel"}]

EffectsTypes ==
  /\ stage \in {"closed", "running", "ended"}
  /\ rows \in [EffectUsers -> ParticipantRow]
  /\ engineMem \in [EffectUsers -> Memory]
  /\ effect \in Effects
  /\ inited \in BOOLEAN
  /\ DOMAIN scoresRead \subseteq EffectUsers
  /\ \A u \in DOMAIN scoresRead : scoresRead[u] \in Int

\* The effects of the end run after it; ranks come last.
EffectsOrder ==
  /\ effect.end # "none" => stage = "ended"
  /\ DOMAIN scoresRead # {} => effect.end = "writeRanks"
  /\ \A u \in EffectUsers : rows[u].rank # NoRank => stage = "ended" /\ effect.end = "none"
  /\ unreturned # {} => stage = "ended"
  /\ effect.start = "init" => ~inited
  /\ stage = "closed" => effect.start = "none" /\ ~inited

UnitIf(P) == IF P THEN 1 ELSE 0

\* What a row says of itself: its score is realized, its QTY accounted for.
RowRight(r, returned) ==
  /\ r.pos \in {"none", "open"} => r.realized = 0
  /\ r.score = r.realized /\ r.realized \in Gains \cup {0}
  /\ returned => r.avail = QtyTotal - UnitIf(r.pos = "open") - UnitIf(r.order = "pending")

\* A user who trades in time has traded nothing before the initialisation, and
\* until the end the engine remembers what is in the row.
UserRight(u) ==
  /\ RowRight(rows[u], u \notin unreturned)
  /\ ~inited => rows[u].pos = "none" /\ rows[u].order = "none"
  /\ stage # "ended" =>
       /\ engineMem[u].avail = rows[u].avail /\ engineMem[u].score = rows[u].score
       /\ u \in closing => rows[u].pos = "open"
  /\ u \in DOMAIN scoresRead => scoresRead[u] = rows[u].score

\* Whoever the ranking did not read has no better score than those it read.
ReadRight ==
  unseen = {} /\ traded = {} =>
    \A u \in DOMAIN scoresRead : \A v \in EffectUsers \ DOMAIN scoresRead : rows[v].score <= scoresRead[u]

EffectsInv ==
  /\ EffectsTypes /\ EffectsOrder
  /\ \A u \in InTime : UserRight(u)
  /\ RanksFollowScores /\ ReadRight

\* The pauses begin with a draft.
LEMMA PausesStart == PausesInit => PausesInv
<1> SUFFICES ASSUME PausesInit PROVE PausesInv
  OBVIOUS
<1>1. /\ lifeNow = 0 /\ candidates = {}
      /\ life = [status |-> "draft", endsAt |-> StartsAt + Duration, pausedAt |-> NotYet,
                 paused |-> 0, endedAt |-> NotYet, auto |-> FALSE]
  BY DEF PausesInit
<1>2. StartsAt + Duration \in Int /\ NotYet \in Int /\ "draft" \in DOMAIN ValidTransitions
  BY EffectsAssumption DEF StartsAt, NotYet, ValidTransitions
<1>3. LifeTypes
  BY <1>1, <1>2 DEF LifeTypes
<1> QED BY <1>1, <1>2, <1>3 DEF PausesInv

\* The statuses a transition of the admins or of the scheduler may ask for,
\* and where each comes from.
LEMMA TransitionsKnown ==
  /\ DOMAIN ValidTransitions = {"draft", "scheduled", "registration_open", "registration_closed", "running",
                                "paused", "settling", "completed", "cancelled"}
  /\ \A s \in DOMAIN ValidTransitions :
       /\ "running" \in ValidTransitions[s] => s \in {"registration_closed", "paused"}
       /\ "paused" \in ValidTransitions[s] => s = "running"
       /\ "settling" \in ValidTransitions[s] => s \in {"running", "paused"}
       /\ \A t \in {"scheduled", "registration_open", "registration_closed", "cancelled"} :
            t \in ValidTransitions[s] => s \in {"draft", "scheduled", "registration_open", "registration_closed"}
BY DEF ValidTransitions

\* A transition keeps the times right, whoever asks for it and whatever the
\* scheduler still means to do.
LEMMA TransitionKept ==
  ASSUME PausesInv, NEW to \in ScheduledStatuses \cup {"scheduled", "paused", "cancelled"},
         NEW auto \in BOOLEAN, NEW quorum \in BOOLEAN,
         Transition(to, auto, quorum), auto /\ to = "settling" => "settling" \in candidates,
         candidates' \subseteq candidates \cup {"running"}
  PROVE  PausesInv'
<1> DEFINE pause == IF life.status = "paused" /\ life.pausedAt # NotYet THEN lifeNow - life.pausedAt ELSE 0
<1>1. /\ lifeNow \in Nat /\ lifeNow' = lifeNow
      /\ life \in [status : DOMAIN ValidTransitions, endsAt : Int, pausedAt : Int, paused : Int,
                   endedAt : Int, auto : BOOLEAN]
      /\ candidates' \subseteq ScheduledStatuses
  BY DEF PausesInv, LifeTypes, Transition, ScheduledStatuses
<1>2. to \in ValidTransitions[life.status]
  BY DEF Transition, CanTransition
<1>3. pause \in Int /\ (life.status = "paused" => pause = lifeNow - life.pausedAt)
      /\ (life.status # "paused" => pause = 0)
  BY <1>1 DEF PausesInv
<1>4. life' = AfterTransition(to, auto)
  BY DEF Transition
<1>5. Duration \in Nat /\ StartsAt = 1 /\ NotYet = -1 /\ to \in DOMAIN ValidTransitions
  BY EffectsAssumption, TransitionsKnown DEF StartsAt, NotYet, ScheduledStatuses
<1>6. ~life.auto
  BY <1>1, <1>2, TransitionsKnown DEF PausesInv, ScheduledStatuses, ValidTransitions
<1> HIDE DEF pause
<1>7. CASE to = "running"
  <2>1. life' = [life EXCEPT !.status = to, !.endsAt = @ + pause, !.paused = @ + pause, !.pausedAt = NotYet]
    BY <1>4, <1>7 DEF AfterTransition, pause
  <2>2. /\ life'.status = "running" /\ life'.endsAt = life.endsAt + pause /\ life'.paused = life.paused + pause
        /\ life'.pausedAt = NotYet /\ life'.auto = life.auto
    BY <1>1, <1>7, <2>1
  <2>9. life' \in [status : DOMAIN ValidTransitions, endsAt : Int, pausedAt : Int, paused : Int,
                    endedAt : Int, auto : BOOLEAN]
    <3>1. life.endsAt + pause \in Int /\ life.paused + pause \in Int /\ NotYet \in Int /\ to \in DOMAIN ValidTransitions
      BY <1>1, <1>3, <1>5
    <3> DEFINE a == life.endsAt + pause
               b == life.paused + pause
    <3>2. life' = [life EXCEPT !.status = to, !.endsAt = a, !.paused = b, !.pausedAt = NotYet]
      BY <2>1
    <3>3. a \in Int /\ b \in Int
      BY <3>1
    <3> HIDE DEF a, b
    <3> QED BY <1>1, <3>1, <3>2, <3>3
  <2>3. life.status \in {"registration_closed", "paused"}
    BY <1>1, <1>2, <1>7, TransitionsKnown
  <2>4. life'.endsAt = StartsAt + Duration + life'.paused
    BY <1>1, <1>3, <1>5, <2>2, <2>3 DEF PausesInv
  <2>5. "settling" \in candidates' => "settling" \in candidates /\ life.status = "paused"
    BY <2>3 DEF PausesInv
  <2>6. "settling" \in candidates' => StartsAt + Duration + life'.paused <= lifeNow
    BY <1>1, <1>3, <1>5, <2>2, <2>5 DEF PausesInv
  <2> QED BY <1>1, <1>5, <1>6, <2>2, <2>4, <2>6, <2>9 DEF PausesInv, LifeTypes
<1>8. CASE to = "settling"
  <2>1. life' = [life EXCEPT !.status = to, !.endedAt = lifeNow, !.auto = auto,
                             !.paused = @ + pause, !.pausedAt = NotYet]
    BY <1>4, <1>8 DEF AfterTransition, pause
  <2>2. /\ life'.status = "settling" /\ life'.endedAt = lifeNow /\ life'.paused = life.paused + pause
        /\ life'.pausedAt = NotYet /\ life'.auto = auto
    BY <1>1, <1>8, <2>1
  <2>9. life' \in [status : DOMAIN ValidTransitions, endsAt : Int, pausedAt : Int, paused : Int,
                    endedAt : Int, auto : BOOLEAN]
    <3>1. life.paused + pause \in Int /\ NotYet \in Int /\ to \in DOMAIN ValidTransitions
      BY <1>1, <1>3, <1>5
    <3> DEFINE b == life.paused + pause
    <3>2. life' = [life EXCEPT !.status = to, !.endedAt = lifeNow, !.auto = auto, !.paused = b, !.pausedAt = NotYet]
      BY <2>1
    <3>3. b \in Int /\ lifeNow \in Int
      BY <1>1, <3>1
    <3> HIDE DEF b
    <3>4. [life EXCEPT !.status = to, !.endedAt = lifeNow, !.auto = auto] \in
            [status : DOMAIN ValidTransitions, endsAt : Int, pausedAt : Int, paused : Int,
             endedAt : Int, auto : BOOLEAN]
      BY <1>1, <3>1, <3>3
    <3> QED BY <3>1, <3>2, <3>3, <3>4
  <2>3. life.status \in {"running", "paused"}
    BY <1>1, <1>2, <1>8, TransitionsKnown
  <2>4. auto => lifeNow - life'.paused >= StartsAt + Duration
    <3>1. CASE life.status = "running"
      BY <1>1, <1>3, <1>5, <1>8, <2>2, <3>1 DEF PausesInv
    <3>2. CASE life.status = "paused"
      BY <1>1, <1>3, <1>5, <1>8, <2>2, <3>2 DEF PausesInv
    <3> QED BY <2>3, <3>1, <3>2
  <2> QED BY <1>1, <1>5, <2>2, <2>4, <2>9 DEF PausesInv, LifeTypes
<1>9. CASE to = "paused"
  <2>1. life' = [life EXCEPT !.status = to, !.pausedAt = lifeNow]
    BY <1>4, <1>9 DEF AfterTransition
  <2>2. /\ life'.status = "paused" /\ life'.pausedAt = lifeNow /\ life'.paused = life.paused
        /\ life'.endsAt = life.endsAt /\ life'.auto = life.auto
    BY <1>1, <1>9, <2>1
  <2>9. life' \in [status : DOMAIN ValidTransitions, endsAt : Int, pausedAt : Int, paused : Int,
                    endedAt : Int, auto : BOOLEAN]
    <3>1. lifeNow \in Int /\ NotYet \in Int /\ to \in DOMAIN ValidTransitions
      BY <1>1, <1>3, <1>5
    <3>2. life' = [life EXCEPT !.status = to, !.pausedAt = lifeNow]
      BY <2>1
    <3> QED BY <1>1, <3>1, <3>2
  <2>3. life.status = "running"
    BY <1>1, <1>2, <1>9, TransitionsKnown
  <2>4. lifeNow # NotYet
    BY <1>1, <1>5
  <2>5. "settling" \in candidates' => StartsAt + Duration + life'.paused <= life'.pausedAt
    BY <2>2, <2>3 DEF PausesInv
  <2> QED BY <1>1, <1>6, <2>2, <2>3, <2>4, <2>5, <2>9 DEF PausesInv, LifeTypes
<1>10. CASE to \in {"scheduled", "registration_open", "registration_closed", "cancelled"}
  <2>1. life' = [life EXCEPT !.status = to]
    BY <1>4, <1>10 DEF AfterTransition
  <2>2. /\ life'.status = to /\ life'.pausedAt = life.pausedAt /\ life'.paused = life.paused
        /\ life'.endsAt = life.endsAt /\ life'.auto = life.auto
        /\ life' \in [status : DOMAIN ValidTransitions, endsAt : Int, pausedAt : Int, paused : Int,
                      endedAt : Int, auto : BOOLEAN]
    BY <1>1, <1>5, <2>1
  <2>3. life.status \in {"draft", "scheduled", "registration_open", "registration_closed"}
    BY <1>1, <1>2, <1>10, TransitionsKnown
  <2>4. life.pausedAt = NotYet /\ "settling" \notin candidates'
    BY <2>3 DEF PausesInv
  <2> QED BY <1>1, <1>6, <1>10, <2>2, <2>3, <2>4 DEF PausesInv, LifeTypes
<1> QED BY <1>7, <1>8, <1>9, <1>10 DEF ScheduledStatuses

\* Each step of the admins, the clock and the scheduler keeps the times right.
LEMMA PausesStep == PausesInv /\ [PausesNext]_pausesVars => PausesInv'
<1> SUFFICES ASSUME PausesInv, [PausesNext]_pausesVars PROVE PausesInv'
  OBVIOUS
<1>1. /\ lifeNow \in Nat /\ candidates \subseteq ScheduledStatuses
      /\ life \in [status : DOMAIN ValidTransitions, endsAt : Int, pausedAt : Int, paused : Int,
                   endedAt : Int, auto : BOOLEAN]
  BY DEF PausesInv, LifeTypes
<1>2. CASE LifeTime
  <2>1. lifeNow' = lifeNow + 1 /\ UNCHANGED <<life, candidates>>
    BY <1>2 DEF LifeTime
  <2>2. StartsAt + Duration + life.paused \in Int
    BY <1>1, EffectsAssumption DEF StartsAt
  <2>3. LifeTypes'
    BY <1>1, <2>1 DEF LifeTypes
  <2>4. StartsAt + Duration + life.paused <= lifeNow => StartsAt + Duration + life.paused <= lifeNow + 1
    BY <1>1, <2>2
  <2> QED BY <2>1, <2>3, <2>4 DEF PausesInv
<1>3. CASE FindContestsForAutoTransition
  <2>1. /\ candidates' = {to \in DOMAIN ValidTransitions : Due(to)} /\ UNCHANGED <<lifeNow, life>>
    BY <1>3 DEF FindContestsForAutoTransition
  <2>2. candidates' \subseteq ScheduledStatuses
    BY <2>1 DEF Due, ScheduledStatuses
  <2>3. "settling" \in candidates' => life.status = "running" /\ life.endsAt <= lifeNow
    BY <2>1 DEF Due
  <2>4. "settling" \in candidates' => StartsAt + Duration + life.paused <= lifeNow
    BY <2>3 DEF PausesInv
  <2> QED BY <1>1, <2>1, <2>2, <2>3, <2>4 DEF PausesInv, LifeTypes
<1>4. CASE HandlePublish \/ CloseRegistration \/ HandlePause \/ HandleEnd
  <2>1. PICK to \in {"scheduled", "registration_closed", "paused", "settling"} : Transition(to, FALSE, TRUE)
    BY <1>4 DEF HandlePublish, CloseRegistration, HandlePause, HandleEnd
  <2>2. candidates' = candidates
    BY <1>4 DEF HandlePublish, CloseRegistration, HandlePause, HandleEnd
  <2> QED BY <2>1, <2>2, TransitionKept DEF ScheduledStatuses
<1>5. ASSUME NEW quorum \in BOOLEAN, HandleStart(quorum) \/ HandleResume(quorum) PROVE PausesInv'
  <2>1. Transition("running", FALSE, quorum) /\ candidates' = candidates
    BY <1>5 DEF HandleStart, HandleResume
  <2> QED BY <2>1, TransitionKept DEF ScheduledStatuses
<1>6. CASE HandleCancel
  <2>1. Transition("cancelled", FALSE, TRUE) /\ candidates' = candidates
    BY <1>6 DEF HandleCancel, Transition, AfterTransition
  <2> QED BY <2>1, TransitionKept
<1>7. CASE MarkCompleted
  <2>1. /\ life.status = "settling" /\ life' = [life EXCEPT !.status = "completed"]
        /\ UNCHANGED <<lifeNow, candidates>>
    BY <1>7 DEF MarkCompleted
  <2>2. /\ life'.status = "completed" /\ life'.pausedAt = life.pausedAt /\ life'.paused = life.paused
        /\ life'.endedAt = life.endedAt /\ life'.auto = life.auto
        /\ life' \in [status : DOMAIN ValidTransitions, endsAt : Int, pausedAt : Int, paused : Int,
                      endedAt : Int, auto : BOOLEAN]
    BY <1>1, <2>1, TransitionsKnown
  <2> QED BY <1>1, <2>1, <2>2 DEF PausesInv, LifeTypes
<1>8. ASSUME NEW c \in candidates, NEW quorum \in BOOLEAN, ExecuteTransition(c, quorum) PROVE PausesInv'
  <2> DEFINE to == IF c = "running" /\ ~quorum THEN "cancelled" ELSE c
  <2>1. \/ Transition(to, TRUE, quorum) /\ candidates' \subseteq candidates \cup {"running"}
        \/ candidates' = candidates \ {c} /\ UNCHANGED <<lifeNow, life>>
    BY <1>8 DEF ExecuteTransition
  <2>2. CASE Transition(to, TRUE, quorum) /\ candidates' \subseteq candidates \cup {"running"}
    <3>1. to \in ScheduledStatuses \cup {"scheduled", "paused", "cancelled"} /\ (to = "settling" => c = "settling")
      BY <1>1
    <3> HIDE DEF to
    <3> QED BY <2>2, <3>1, TransitionKept
  <2>3. CASE candidates' = candidates \ {c} /\ UNCHANGED <<lifeNow, life>>
    BY <1>1, <2>3 DEF PausesInv, LifeTypes
  <2> QED BY <2>1, <2>2, <2>3
<1>9. CASE UNCHANGED pausesVars
  BY <1>9 DEF pausesVars, PausesInv, LifeTypes
<1> QED BY <1>2, <1>3, <1>4, <1>5, <1>6, <1>7, <1>8, <1>9 DEF PausesNext

\* The times are what is asked of them.
LEMMA PausesKept == PausesInv => PauseTimeReturned
BY DEF PausesInv, PauseTimeReturned

\* Before anything, every row is fresh.
LEMMA EffectsStart == EffectsInit => EffectsInv
<1> SUFFICES ASSUME EffectsInit PROVE EffectsInv
  OBVIOUS
<1>1. /\ stage = "closed" /\ rows = [u \in EffectUsers |-> FreshRow]
      /\ engineMem = [u \in EffectUsers |-> [avail |-> QtyTotal, score |-> 0]]
      /\ effect = [start |-> "none", end |-> "none"] /\ inited = FALSE
      /\ closing = {} /\ scoresRead = NoScores /\ unreturned = {}
  BY DEF EffectsInit
<1>2. DOMAIN scoresRead = {}
  BY <1>1 DEF NoScores
<1>3. QtyTotal \in Int
  BY EffectsAssumption
<1>4. FreshRow \in ParticipantRow /\ FreshRow.rank = NoRank
  BY <1>3 DEF FreshRow, ParticipantRow, NoRank
<1>5. RowRight(FreshRow, TRUE)
  BY <1>3 DEF FreshRow, RowRight, UnitIf
<1>6. EffectsTypes
  <2>1. rows \in [EffectUsers -> ParticipantRow]
    BY <1>1, <1>4
  <2>2. engineMem \in [EffectUsers -> Memory]
    BY <1>1, <1>3 DEF Memory
  <2>3. effect \in Effects
    BY <1>1 DEF Effects
  <2> QED BY <1>1, <1>2, <2>1, <2>2, <2>3 DEF EffectsTypes
<1>7. EffectsOrder
  BY <1>1, <1>2, <1>4 DEF EffectsOrder
<1>8. ASSUME NEW u \in EffectUsers PROVE UserRight(u)
  <2>1. rows[u] = FreshRow /\ engineMem[u] = [avail |-> QtyTotal, score |-> 0]
    BY <1>1
  <2>2. FreshRow.pos = "none" /\ FreshRow.order = "none" /\ FreshRow.avail = QtyTotal /\ FreshRow.score = 0
    BY DEF FreshRow
  <2>3. RowRight(rows[u], u \notin unreturned)
    BY <1>1, <1>5, <2>1
  <2> QED BY <1>1, <1>2, <2>1, <2>2, <2>3 DEF UserRight
<1>9. RanksFollowScores
  BY <1>1, <1>4 DEF RanksFollowScores
<1>10. ReadRight
  BY <1>2 DEF ReadRight
<1> QED BY <1>6, <1>7, <1>8, <1>9, <1>10 DEF EffectsInv, InTime

\* What the engine writes, from its memory, of a user: after the end it puts
\* the user among those the ranking may not have seen, before it there are no
\* ranks yet.
LEMMA EngineWrites ==
  ASSUME EffectsInv, NEW u \in EffectUsers, NEW r \in ParticipantRow, NEW m \in Memory,
         rows' = [rows EXCEPT ![u] = r], engineMem' = [engineMem EXCEPT ![u] = m], Traded(u),
         closing' \in SUBSET closing, UNCHANGED <<stage, effect, inited, scoresRead, unreturned>>,
         r.rank = rows[u].rank,
         stage = "running" /\ inited /\ u \in InTime =>
           /\ RowRight(r, TRUE) /\ m.avail = r.avail /\ m.score = r.score
           /\ u \in closing' => r.pos = "open"
  PROVE  EffectsInv'
<1>1. /\ rows \in [EffectUsers -> ParticipantRow] /\ engineMem \in [EffectUsers -> Memory]
  BY DEF EffectsInv, EffectsTypes
<1>2. \A v \in EffectUsers : rows'[v] = (IF v = u THEN r ELSE rows[v])
                             /\ engineMem'[v] = (IF v = u THEN m ELSE engineMem[v])
  BY <1>1
<1>3. EffectsTypes'
  <2>1. rows' \in [EffectUsers -> ParticipantRow] /\ engineMem' \in [EffectUsers -> Memory]
    BY <1>1
  <2> QED BY <2>1 DEF EffectsInv, EffectsTypes
<1>4. EffectsOrder'
  BY <1>2 DEF EffectsInv, EffectsOrder
<1>5. traded \subseteq traded' /\ unseen \subseteq unseen'
  BY DEF Traded
<1>6. CASE stage # "running"
  <2>1. u \in unseen'
    BY <1>6 DEF Traded
  <2>2. ASSUME NEW v \in InTime' PROVE UserRight(v)'
    <3>1. v \in InTime /\ v # u
      BY <1>5, <2>1, <2>2 DEF InTime
    <3>2. rows'[v] = rows[v] /\ engineMem'[v] = engineMem[v]
      BY <1>2, <3>1 DEF InTime
    <3>3. UserRight(v)
      BY <3>1 DEF EffectsInv
    <3> QED BY <3>2, <3>3 DEF UserRight
  <2> QED BY <1>3, <1>4, <2>1, <2>2 DEF EffectsInv, RanksFollowScores, ReadRight
<1>7. CASE stage = "running"
  <2>1. DOMAIN scoresRead = {} /\ \A v \in EffectUsers : rows[v].rank = NoRank
    BY <1>7 DEF EffectsInv, EffectsOrder
  <2>2. ReadRight'
    BY <2>1 DEF ReadRight
  <2>3. \A v \in EffectUsers : rows'[v].rank = NoRank
    BY <1>2, <2>1
  <2>4. RanksFollowScores'
    BY <2>3 DEF RanksFollowScores
  <2>5. unreturned = {}
    BY <1>7 DEF EffectsInv, EffectsOrder
  <2>6. ASSUME NEW v \in InTime' PROVE UserRight(v)'
    <3>1. v \in InTime /\ v \in EffectUsers
      BY <1>5, <2>6 DEF InTime
    <3>2. UserRight(v)
      BY <3>1 DEF EffectsInv
    <3>3. CASE v # u
      <4>1. rows'[v] = rows[v] /\ engineMem'[v] = engineMem[v]
        BY <1>2, <3>1, <3>3
      <4> QED BY <3>2, <4>1 DEF UserRight
    <3>4. CASE v = u
      <4>1. inited
        BY <2>6, <3>4 DEF Traded, InTime
      <4>2. rows'[v] = r /\ engineMem'[v] = m
        BY <1>2, <3>1, <3>4
      <4>3. /\ RowRight(r, TRUE) /\ m.avail = r.avail /\ m.score = r.score
            /\ u \in closing' => r.pos = "open"
        BY <1>7, <3>1, <3>4, <4>1
      <4>4. RowRight(r, u \notin unreturned)
        BY <2>5, <4>3
      <4> QED BY <2>1, <2>5, <3>4, <4>1, <4>2, <4>3, <4>4 DEF UserRight
    <3> QED BY <3>3, <3>4
  <2> QED BY <1>3, <1>4, <2>2, <2>4, <2>6 DEF EffectsInv
<1> QED BY <1>6, <1>7

\* The row of a user, known in time, before the end.
LEMMA RowInTime ==
  ASSUME EffectsInv, NEW u \in InTime, stage = "running"
  PROVE  /\ RowRight(rows[u], TRUE)
         /\ engineMem[u].avail = rows[u].avail /\ engineMem[u].score = rows[u].score
         /\ u \in closing => rows[u].pos = "open"
<1>1. UserRight(u) /\ unreturned = {}
  BY DEF EffectsInv, EffectsOrder
<1> QED BY <1>1 DEF UserRight

\* A market order opens a position, a pending one reserves.
LEMMA TradeKept ==
  ASSUME EffectsInv, NEW u \in EffectUsers, InsertPosition(u) \/ PlaceOrder(u)
  PROVE  EffectsInv'
<1> DEFINE left == engineMem[u].avail - 1
           m == [avail |-> left, score |-> engineMem[u].score]
<1>1. /\ rows \in [EffectUsers -> ParticipantRow] /\ engineMem \in [EffectUsers -> Memory]
  BY DEF EffectsInv, EffectsTypes
<1>2. rows[u] \in ParticipantRow /\ engineMem[u] \in Memory /\ left \in Int /\ m \in Memory
  BY <1>1 DEF Memory
<1>3. /\ engineMem' = [engineMem EXCEPT ![u] = m] /\ Traded(u)
      /\ UNCHANGED <<stage, effect, inited, closing, scoresRead, unreturned>>
  BY DEF InsertPosition, PlaceOrder, Remember
<1> HIDE DEF left
<1>4. CASE InsertPosition(u)
  <2> DEFINE r == [rows[u] EXCEPT !.pos = "open", !.avail = left]
  <2>1. rows' = [rows EXCEPT ![u] = r] /\ rows[u].pos = "none"
    BY <1>1, <1>4 DEF InsertPosition, left
  <2>2. /\ r \in ParticipantRow /\ r.pos = "open" /\ r.avail = left /\ r.rank = rows[u].rank
        /\ r.score = rows[u].score /\ r.realized = rows[u].realized /\ r.order = rows[u].order
    BY <1>2 DEF ParticipantRow
  <2>3. ASSUME stage = "running", u \in InTime
        PROVE  RowRight(r, TRUE) /\ m.avail = r.avail /\ m.score = r.score /\ (u \in closing' => r.pos = "open")
    <3>1. RowRight(rows[u], TRUE) /\ engineMem[u].avail = rows[u].avail /\ engineMem[u].score = rows[u].score
      BY <2>3, RowInTime
    <3>2. QtyTotal \in Int /\ rows[u].avail \in Int
      BY <1>2, EffectsAssumption DEF ParticipantRow
    <3> HIDE DEF r
    <3>3. r.avail = QtyTotal - UnitIf(r.pos = "open") - UnitIf(r.order = "pending")
      BY <2>1, <2>2, <3>1, <3>2 DEF RowRight, UnitIf, left
    <3> QED BY <2>1, <2>2, <3>1, <3>3 DEF RowRight
  <2> HIDE DEF r, m
  <2> QED BY <1>2, <1>3, <2>1, <2>2, <2>3, EngineWrites
<1>5. CASE PlaceOrder(u)
  <2> DEFINE r == [rows[u] EXCEPT !.order = "pending", !.avail = left]
  <2>1. rows' = [rows EXCEPT ![u] = r] /\ rows[u].order = "none"
    BY <1>1, <1>5 DEF PlaceOrder, left
  <2>2. /\ r \in ParticipantRow /\ r.order = "pending" /\ r.avail = left /\ r.rank = rows[u].rank
        /\ r.score = rows[u].score /\ r.realized = rows[u].realized /\ r.pos = rows[u].pos
    BY <1>2 DEF ParticipantRow
  <2>3. ASSUME stage = "running", u \in InTime
        PROVE  RowRight(r, TRUE) /\ m.avail = r.avail /\ m.score = r.score /\ (u \in closing' => r.pos = "open")
    <3>1. /\ RowRight(rows[u], TRUE) /\ engineMem[u].avail = rows[u].avail /\ engineMem[u].score = rows[u].score
          /\ u \in closing => rows[u].pos = "open"
      BY <2>3, RowInTime
    <3>2. QtyTotal \in Int /\ rows[u].avail \in Int
      BY <1>2, EffectsAssumption DEF ParticipantRow
    <3> HIDE DEF r
    <3>3. r.avail = QtyTotal - UnitIf(r.pos = "open") - UnitIf(r.order = "pending")
      BY <2>1, <2>2, <3>1, <3>2 DEF RowRight, UnitIf, left
    <3> QED BY <1>3, <2>1, <2>2, <3>1, <3>3 DEF RowRight
  <2> HIDE DEF r, m
  <2> QED BY <1>2, <1>3, <2>1, <2>2, <2>3, EngineWrites
<1> QED BY <1>4, <1>5

\* Closing writes what the engine remembers, whatever the row says by then.
LEMMA ClosePositionKept ==
  ASSUME EffectsInv, NEW u \in EffectUsers, NEW gain \in Gains, ClosePosition(u, gain)
  PROVE  EffectsInv'
<1> DEFINE avail == engineMem[u].avail + 1
           score == engineMem[u].score + gain
           m == [avail |-> avail, score |-> score]
           r == [rows[u] EXCEPT !.pos = "closed", !.realized = gain, !.score = score, !.avail = avail]
<1>1. /\ rows \in [EffectUsers -> ParticipantRow] /\ engineMem \in [EffectUsers -> Memory]
  BY DEF EffectsInv, EffectsTypes
<1>2. /\ rows[u] \in ParticipantRow /\ engineMem[u] \in Memory /\ gain \in Int
      /\ avail \in Int /\ score \in Int /\ m \in Memory
  BY <1>1, EffectsAssumption DEF Memory
<1>3. /\ u \in closing /\ closing' = closing \ {u}
      /\ UNCHANGED <<stage, effect, inited, scoresRead, unreturned>>
  BY DEF ClosePosition
<1>4. \/ rows' = [rows EXCEPT ![u] = r] /\ engineMem' = [engineMem EXCEPT ![u] = m] /\ Traded(u)
      \/ UNCHANGED <<rows, engineMem, traded, unseen>>
  BY <1>1 DEF ClosePosition, Remember
<1>5. CASE UNCHANGED <<rows, engineMem, traded, unseen>>
  <2>1. EffectsTypes' /\ EffectsOrder' /\ RanksFollowScores' /\ ReadRight'
    BY <1>3, <1>5 DEF EffectsInv, EffectsTypes, EffectsOrder, RanksFollowScores, ReadRight
  <2>2. InTime' = InTime
    BY <1>5 DEF InTime
  <2>3. \A v \in InTime : UserRight(v)'
    BY <1>3, <1>5 DEF EffectsInv, UserRight
  <2> QED BY <2>1, <2>2, <2>3 DEF EffectsInv
<1>6. CASE rows' = [rows EXCEPT ![u] = r] /\ engineMem' = [engineMem EXCEPT ![u] = m] /\ Traded(u)
  <2> HIDE DEF avail, score
  <2>1. /\ r \in ParticipantRow /\ r.pos = "closed" /\ r.avail = avail /\ r.rank = rows[u].rank
        /\ r.score = score /\ r.realized = gain /\ r.order = rows[u].order
    BY <1>2 DEF ParticipantRow
  <2>2. ASSUME stage = "running", u \in InTime
        PROVE  RowRight(r, TRUE) /\ m.avail = r.avail /\ m.score = r.score /\ (u \in closing' => r.pos = "open")
    <3>1. /\ RowRight(rows[u], TRUE) /\ engineMem[u].avail = rows[u].avail /\ engineMem[u].score = rows[u].score
          /\ rows[u].pos = "open"
      BY <1>3, <2>2, RowInTime
    <3>2. QtyTotal \in Int /\ rows[u].avail \in Int
      BY <1>2, EffectsAssumption DEF ParticipantRow
    <3> HIDE DEF r
    <3>3. r.avail = QtyTotal - UnitIf(r.pos = "open") - UnitIf(r.order = "pending")
      BY <2>1, <3>1, <3>2 DEF RowRight, UnitIf, avail
    <3>4. r.score = gain
      BY <1>2, <2>1, <3>1 DEF RowRight, score
    <3> QED BY <1>3, <2>1, <3>3, <3>4 DEF RowRight
  <2> HIDE DEF r, m
  <2> QED BY <1>2, <1>3, <1>6, <2>1, <2>2, EngineWrites
<1> QED BY <1>4, <1>5, <1>6

\* A step of the effects: of is the start's or the end's.
LEMMA EffectStepIs ==
  ASSUME EffectsInv, NEW at, NEW next
  PROVE  /\ EffectStep("start", at, next) => /\ effect.start = at /\ effect'.start = next /\ effect'.end = effect.end
                                             /\ next \in {"none", "lock", "fallbackInit"} => effect' \in Effects
         /\ EffectStep("end", at, next) => /\ effect.end = at /\ effect'.end = next /\ effect'.start = effect.start
                                           /\ next \in {"none", "forceClose", "readRanks", "writeRanks",
                                                        "fallbackClose", "fallbackCancel"} => effect' \in Effects
<1>1. effect \in Effects
  BY DEF EffectsInv, EffectsTypes
<1>2. ASSUME EffectStep("start", at, next)
      PROVE  /\ effect.start = at /\ effect'.start = next /\ effect'.end = effect.end
             /\ next \in {"none", "lock", "fallbackInit"} => effect' \in Effects
  BY <1>1, <1>2 DEF EffectStep, Effects
<1>3. ASSUME EffectStep("end", at, next)
      PROVE  /\ effect.end = at /\ effect'.end = next /\ effect'.start = effect.start
             /\ next \in {"none", "forceClose", "readRanks", "writeRanks",
                          "fallbackClose", "fallbackCancel"} => effect' \in Effects
  BY <1>1, <1>3 DEF EffectStep, Effects
<1> QED BY <1>2, <1>3

\* Steps that write no row: the engine's reads, the start, the end, and steps
\* of the effects that fail or only go on.
LEMMA QuietKept ==
  ASSUME EffectsInv, UNCHANGED <<rows, engineMem, traded, unseen, unreturned>>, EffectsTypes', EffectsOrder',
         stage' # "ended" => stage # "ended", inited => inited',
         scoresRead' = scoresRead \/ DOMAIN scoresRead' = {},
         \A u \in InTime : stage' # "ended" /\ u \in closing' => u \in closing \/ rows[u].pos = "open"
  PROVE  EffectsInv'
<1>1. InTime' = InTime
  BY DEF InTime
<1>2. ASSUME NEW u \in InTime PROVE UserRight(u)'
  <2>1. UserRight(u)
    BY DEF EffectsInv
  <2> QED BY <2>1 DEF UserRight
<1>3. RanksFollowScores' /\ ReadRight'
  BY DEF EffectsInv, RanksFollowScores, ReadRight
<1> QED BY <1>1, <1>2, <1>3 DEF EffectsInv

\* The engine finds a position, or learns of the end.
LEMMA EngineReadsKept ==
  ASSUME EffectsInv, EngineLearnsEnd \/ \E u \in EffectUsers : FindPosition(u)
  PROVE  EffectsInv'
<1>1. /\ UNCHANGED <<stage, rows, engineMem, effect, inited, scoresRead, traded, unseen, unreturned>>
      /\ \A u \in closing' : u \in closing \/ rows[u].pos = "open"
  BY DEF EngineLearnsEnd, FindPosition
<1>2. EffectsTypes' /\ EffectsOrder'
  BY <1>1 DEF EffectsInv, EffectsTypes, EffectsOrder
<1> QED BY <1>1, <1>2, QuietKept

\* The contest starts, and ends.
LEMMA StagesKept ==
  ASSUME EffectsInv, Start \/ EndTrading
  PROVE  EffectsInv'
<1>1. effect \in Effects /\ effect.end = "none" /\ DOMAIN scoresRead = {}
      /\ \A u \in EffectUsers : rows[u].rank = NoRank
  BY DEF Start, EndTrading, EffectsInv, EffectsTypes, EffectsOrder
<1>2. CASE Start
  <2>1. /\ stage = "closed" /\ stage' = "running" /\ effect' = [effect EXCEPT !.start = "init"]
        /\ UNCHANGED <<rows, engineMem, inited, closing, traded, scoresRead, unseen, unreturned>>
    BY <1>2 DEF Start, EndUnchanged
  <2>2. effect' \in Effects /\ effect'.end = "none" /\ effect'.start = "init"
    BY <1>1, <2>1 DEF Effects
  <2>3. EffectsTypes'
    BY <2>1, <2>2 DEF EffectsInv, EffectsTypes
  <2>4. EffectsOrder'
    BY <1>1, <2>1, <2>2 DEF EffectsInv, EffectsOrder
  <2> QED BY <2>1, <2>3, <2>4, QuietKept
<1>3. CASE EndTrading
  <2>1. /\ stage = "running" /\ stage' = "ended" /\ effect' = [effect EXCEPT !.end = "cancelOrders"]
        /\ UNCHANGED <<rows, engineMem, inited, closing, traded, scoresRead, unseen, unreturned>>
    BY <1>3 DEF EndTrading, EndUnchanged
  <2>2. effect' \in Effects /\ effect'.end = "cancelOrders" /\ effect'.start = effect.start
    BY <1>1, <2>1 DEF Effects
  <2>3. EffectsTypes'
    BY <2>1, <2>2 DEF EffectsInv, EffectsTypes
  <2>4. EffectsOrder'
    BY <1>1, <2>1, <2>2 DEF EffectsInv, EffectsOrder
  <2> QED BY <2>1, <2>3, <2>4, QuietKept
<1> QED BY <1>2, <1>3

\* The start's effects but for the initialisation itself write no row.
LEMMA StartEffectsKept ==
  ASSUME EffectsInv, LockPrizes \/ OnRunningFallback \/ StartLost
  PROVE  EffectsInv'
<1>1. UNCHANGED <<stage, rows, engineMem, closing, traded, scoresRead, unseen, unreturned>>
  BY DEF LockPrizes, OnRunningFallback, StartLost, EngineUnchanged, EndUnchanged
<1>2. effect \in Effects
  BY DEF EffectsInv, EffectsTypes
<1>3. /\ effect' \in Effects /\ effect'.end = effect.end /\ effect'.start # "init" /\ effect.start # "none"
      /\ inited' \in BOOLEAN /\ (inited => inited')
  <2>1. CASE LockPrizes
    BY <2>1, EffectStepIs DEF LockPrizes, EffectsInv, EffectsTypes
  <2>2. CASE OnRunningFallback
    BY <2>2, EffectStepIs DEF OnRunningFallback
  <2>3. CASE StartLost
    BY <1>2, <2>3 DEF StartLost, Effects
  <2> QED BY <2>1, <2>2, <2>3
<1>4. EffectsTypes'
  BY <1>1, <1>3 DEF EffectsInv, EffectsTypes
<1>5. EffectsOrder'
  BY <1>1, <1>3 DEF EffectsInv, EffectsOrder
<1> QED BY <1>1, <1>3, <1>4, <1>5, QuietKept

\* The initialisation finds the rows of those who trade in time as they were
\* made, but for a rank the end may have given them.
LEMMA InitialisationKept ==
  ASSUME EffectsInv, InitializeParticipantStates
  PROVE  EffectsInv'
<1>1. UNCHANGED <<stage, engineMem, closing, traded, scoresRead, unseen, unreturned>>
  BY DEF InitializeParticipantStates, EngineUnchanged, EndUnchanged
<1>2. rows \in [EffectUsers -> ParticipantRow] /\ QtyTotal \in Int
  BY EffectsAssumption DEF EffectsInv, EffectsTypes
<1>3. CASE EffectStep("start", "init", "fallbackInit") /\ UNCHANGED <<rows, inited>>
  <2>1. effect' \in Effects /\ effect'.end = effect.end /\ effect'.start = "fallbackInit" /\ effect.start = "init"
    BY <1>3, EffectStepIs
  <2>2. EffectsTypes'
    BY <1>1, <1>3, <2>1 DEF EffectsInv, EffectsTypes
  <2>3. EffectsOrder'
    BY <1>1, <1>3, <2>1 DEF EffectsInv, EffectsOrder
  <2> QED BY <1>1, <1>3, <2>2, <2>3, QuietKept
<1>4. ASSUME EffectStep("start", "init", "lock"), inited' = TRUE,
             rows' = [u \in EffectUsers |->
                        [rows[u] EXCEPT !.avail = QtyTotal, !.score = 0, !.rank = NoRank,
                                        !.pos = IF @ = "open" THEN "closed" ELSE @,
                                        !.order = IF @ = "pending" THEN "cancelled" ELSE @]]
      PROVE  EffectsInv'
  <2>1. effect' \in Effects /\ effect'.end = effect.end /\ effect'.start = "lock" /\ effect.start = "init"
    BY <1>4, EffectStepIs
  <2>2. ~inited /\ stage # "closed"
    BY <2>1 DEF EffectsInv, EffectsOrder
  <2>3. ASSUME NEW u \in EffectUsers
        PROVE  /\ rows'[u] \in ParticipantRow /\ rows'[u].rank = NoRank /\ rows'[u].avail = QtyTotal
               /\ rows'[u].score = 0 /\ rows'[u].realized = rows[u].realized
               /\ rows'[u].pos = (IF rows[u].pos = "open" THEN "closed" ELSE rows[u].pos)
               /\ rows'[u].order = (IF rows[u].order = "pending" THEN "cancelled" ELSE rows[u].order)
    <3> DEFINE p == IF rows[u].pos = "open" THEN "closed" ELSE rows[u].pos
               o == IF rows[u].order = "pending" THEN "cancelled" ELSE rows[u].order
    <3>1. rows[u] \in ParticipantRow
      BY <1>2
    <3>2. p \in {"none", "open", "closed"} /\ o \in {"none", "pending", "cancelled"}
      BY <3>1 DEF ParticipantRow
    <3>3. rows'[u] = [rows[u] EXCEPT !.avail = QtyTotal, !.score = 0, !.rank = NoRank, !.pos = p, !.order = o]
      BY <1>4
    <3> DEFINE b == [rows[u] EXCEPT !.avail = QtyTotal]
               c == [b EXCEPT !.score = 0]
               a == [c EXCEPT !.rank = NoRank]
    <3>4. rows'[u] = [a EXCEPT !.pos = p, !.order = o]
      BY <3>1, <3>3 DEF ParticipantRow
    <3> HIDE DEF p, o
    <3>5. /\ b \in ParticipantRow /\ b.avail = QtyTotal
          /\ b.realized = rows[u].realized /\ b.pos = rows[u].pos /\ b.order = rows[u].order
      BY <1>2, <3>1 DEF ParticipantRow
    <3> HIDE DEF b
    <3>6. /\ c \in ParticipantRow /\ c.avail = b.avail /\ c.score = 0
          /\ c.realized = b.realized /\ c.pos = b.pos /\ c.order = b.order
      BY <3>5 DEF ParticipantRow
    <3> HIDE DEF c
    <3>7. /\ a \in ParticipantRow /\ a.rank = NoRank /\ a.avail = c.avail /\ a.score = c.score
          /\ a.realized = c.realized /\ a.pos = c.pos /\ a.order = c.order
      BY <3>6 DEF ParticipantRow, NoRank
    <3> HIDE DEF a
    <3>8. /\ rows'[u] \in ParticipantRow /\ rows'[u].rank = a.rank /\ rows'[u].avail = a.avail
          /\ rows'[u].score = a.score /\ rows'[u].realized = a.realized
          /\ rows'[u].pos = p /\ rows'[u].order = o
      BY <3>2, <3>4, <3>7 DEF ParticipantRow
    <3> QED BY <3>5, <3>6, <3>7, <3>8 DEF p, o
  <2>4. EffectsTypes'
    <3>1. rows' \in [EffectUsers -> ParticipantRow]
      BY <1>4, <2>3
    <3> QED BY <1>1, <1>4, <2>1, <3>1 DEF EffectsInv, EffectsTypes
  <2>5. EffectsOrder'
    BY <1>1, <1>4, <2>1, <2>2, <2>3 DEF EffectsInv, EffectsOrder
  <2>6. ASSUME NEW u \in InTime PROVE UserRight(u)' /\ rows'[u].score = rows[u].score
    <3>1. u \in EffectUsers /\ UserRight(u)
      BY <2>6 DEF EffectsInv, InTime
    <3>2. /\ rows[u].pos = "none" /\ rows[u].order = "none" /\ rows[u].realized = 0 /\ rows[u].score = 0
          /\ u \notin unreturned => rows[u].avail = QtyTotal
      BY <1>2, <2>2, <3>1 DEF UserRight, RowRight, UnitIf
    <3>3. /\ rows'[u].pos = "none" /\ rows'[u].order = "none" /\ rows'[u].realized = 0 /\ rows'[u].score = 0
          /\ rows'[u].avail = QtyTotal
      BY <2>3, <3>1, <3>2
    <3>4. RowRight(rows'[u], u \notin unreturned)
      BY <1>2, <3>3 DEF RowRight, UnitIf
    <3>5. stage # "ended" => unreturned = {}
      BY DEF EffectsInv, EffectsOrder
    <3> QED BY <1>1, <1>4, <3>1, <3>2, <3>3, <3>4, <3>5 DEF UserRight
  <2>7. RanksFollowScores'
    BY <2>3 DEF RanksFollowScores
  <2>8. ReadRight'
    <3>1. SUFFICES ASSUME unseen = {}, traded = {}, NEW u \in DOMAIN scoresRead,
                          NEW v \in EffectUsers \ DOMAIN scoresRead
                   PROVE  rows'[v].score <= scoresRead[u]
      BY <1>1 DEF ReadRight
    <3>2. rows[v].score <= scoresRead[u] /\ v \in InTime
      BY <3>1 DEF EffectsInv, ReadRight, InTime
    <3> QED BY <2>6, <3>2
  <2>9. InTime' = InTime
    BY <1>1 DEF InTime
  <2> QED BY <2>4, <2>5, <2>6, <2>7, <2>8, <2>9 DEF EffectsInv
<1> QED BY <1>3, <1>4 DEF InitializeParticipantStates

\* A step of the end that writes rows before the ranking has read them.
LEMMA EndRowsKept ==
  ASSUME EffectsInv, effect.end \notin {"none", "writeRanks"}, effect' \in Effects, effect'.start = effect.start,
         rows' \in [EffectUsers -> ParticipantRow], \A u \in EffectUsers : rows'[u].rank = rows[u].rank,
         UNCHANGED <<stage, engineMem, inited, closing, traded, scoresRead, unseen>>,
         unreturned \subseteq unreturned',
         \A u \in InTime : /\ RowRight(rows'[u], u \notin unreturned')
                           /\ ~inited => rows'[u].pos = "none" /\ rows'[u].order = "none"
  PROVE  EffectsInv'
<1>1. stage = "ended" /\ DOMAIN scoresRead = {} /\ \A u \in EffectUsers : rows'[u].rank = NoRank
  BY DEF EffectsInv, EffectsOrder
<1>2. EffectsTypes'
  BY DEF EffectsInv, EffectsTypes
<1>3. EffectsOrder'
  BY <1>1 DEF EffectsInv, EffectsOrder
<1>4. InTime' = InTime
  BY DEF InTime
<1>5. \A u \in InTime : UserRight(u)'
  BY <1>1 DEF UserRight
<1>6. RanksFollowScores' /\ ReadRight'
  BY <1>1 DEF RanksFollowScores, ReadRight
<1> QED BY <1>2, <1>3, <1>4, <1>5, <1>6 DEF EffectsInv

\* Cancelling an order gives its QTY back to those named.
LEMMA CancelOrdersIs ==
  ASSUME EffectsInv, NEW back
  PROVE  LET r == CancelOrders(rows, back)
         IN /\ r \in [EffectUsers -> ParticipantRow]
            /\ \A u \in EffectUsers :
                 /\ r[u].rank = rows[u].rank /\ r[u].pos = rows[u].pos /\ r[u].realized = rows[u].realized
                 /\ r[u].score = rows[u].score
                 /\ r[u].order = (IF rows[u].order = "pending" THEN "cancelled" ELSE rows[u].order)
                 /\ r[u].avail = rows[u].avail + UnitIf(rows[u].order = "pending" /\ u \in back)
<1> DEFINE r == CancelOrders(rows, back)
<1>1. rows \in [EffectUsers -> ParticipantRow]
  BY DEF EffectsInv, EffectsTypes
<1>2. ASSUME NEW u \in EffectUsers
      PROVE  /\ r[u] \in ParticipantRow
             /\ r[u].rank = rows[u].rank /\ r[u].pos = rows[u].pos /\ r[u].realized = rows[u].realized
             /\ r[u].score = rows[u].score
             /\ r[u].order = (IF rows[u].order = "pending" THEN "cancelled" ELSE rows[u].order)
             /\ r[u].avail = rows[u].avail + UnitIf(rows[u].order = "pending" /\ u \in back)
  <2>1. rows[u] \in ParticipantRow
    BY <1>1
  <2>2. CASE rows[u].order = "pending"
    <3> DEFINE a == IF u \in back THEN rows[u].avail + 1 ELSE rows[u].avail
    <3>1. r[u] = [rows[u] EXCEPT !.order = "cancelled", !.avail = a]
      BY <2>2 DEF CancelOrders, PendingOrders
    <3>2. a = rows[u].avail + UnitIf(u \in back) /\ a \in Int
      BY <2>1 DEF UnitIf, ParticipantRow
    <3> HIDE DEF a, r
    <3>3. /\ r[u] \in ParticipantRow
          /\ r[u].rank = rows[u].rank /\ r[u].pos = rows[u].pos /\ r[u].realized = rows[u].realized
          /\ r[u].score = rows[u].score /\ r[u].order = "cancelled" /\ r[u].avail = a
      BY <2>1, <3>1, <3>2 DEF ParticipantRow
    <3> QED BY <2>2, <3>2, <3>3 DEF UnitIf
  <2>3. CASE rows[u].order # "pending"
    <3>1. r[u] = rows[u] /\ rows[u].avail \in Int
      BY <2>1, <2>3 DEF CancelOrders, PendingOrders, ParticipantRow
    <3> QED BY <2>1, <2>3, <3>1 DEF UnitIf
  <2> QED BY <2>2, <2>3
<1>3. r \in [EffectUsers -> ParticipantRow]
  BY <1>2 DEF CancelOrders
<1> QED BY <1>2, <1>3

\* Closing a position scores what it earned and frees its QTY.
LEMMA CloseAtIs ==
  ASSUME EffectsInv, NEW gain \in [EffectUsers -> Gains]
  PROVE  LET r == CloseAt(rows, OpenPositions(rows), gain)
         IN /\ r \in [EffectUsers -> ParticipantRow]
            /\ \A u \in EffectUsers :
                 IF rows[u].pos = "open"
                 THEN /\ r[u].rank = rows[u].rank /\ r[u].order = rows[u].order /\ r[u].pos = "closed"
                      /\ r[u].realized = rows[u].realized + gain[u] /\ r[u].score = rows[u].score + gain[u]
                      /\ r[u].avail = rows[u].avail + 1
                 ELSE r[u] = rows[u]
<1> DEFINE r == CloseAt(rows, OpenPositions(rows), gain)
<1>1. rows \in [EffectUsers -> ParticipantRow]
  BY DEF EffectsInv, EffectsTypes
<1>2. ASSUME NEW u \in EffectUsers
      PROVE  /\ r[u] \in ParticipantRow
             /\ IF rows[u].pos = "open"
                THEN /\ r[u].rank = rows[u].rank /\ r[u].order = rows[u].order /\ r[u].pos = "closed"
                     /\ r[u].realized = rows[u].realized + gain[u] /\ r[u].score = rows[u].score + gain[u]
                     /\ r[u].avail = rows[u].avail + 1
                ELSE r[u] = rows[u]
  <2>1. rows[u] \in ParticipantRow /\ gain[u] \in Int
    BY <1>1, EffectsAssumption
  <2>2. CASE rows[u].pos = "open"
    <3> DEFINE g == rows[u].realized + gain[u]
               s == rows[u].score + gain[u]
               a == rows[u].avail + 1
    <3>1. r[u] = [rows[u] EXCEPT !.pos = "closed", !.realized = g, !.score = s, !.avail = a]
      BY <2>1, <2>2 DEF CloseAt, OpenPositions, ParticipantRow
    <3>2. g \in Int /\ s \in Int /\ a \in Int
      BY <2>1 DEF ParticipantRow
    <3> HIDE DEF g, s, a, r
    <3>3. /\ r[u] \in ParticipantRow /\ r[u].rank = rows[u].rank /\ r[u].order = rows[u].order
          /\ r[u].pos = "closed" /\ r[u].realized = g /\ r[u].score = s /\ r[u].avail = a
      BY <2>1, <3>1, <3>2 DEF ParticipantRow
    <3> QED BY <2>2, <3>3 DEF g, s, a
  <2>3. CASE rows[u].pos # "open"
    BY <2>1, <2>3 DEF CloseAt, OpenPositions
  <2> QED BY <2>2, <2>3
<1>3. r \in [EffectUsers -> ParticipantRow]
  BY <1>2 DEF CloseAt
<1> HIDE DEF r
<1> QED BY <1>2, <1>3 DEF r

\* Steps of the end that fail write nothing.
LEMMA EndFailsKept ==
  ASSUME EffectsInv, effect.end # "none", effect' \in Effects, effect'.start = effect.start,
         UNCHANGED <<rows, engineMem, stage, inited, closing, traded, unseen, unreturned>>,
         scoresRead' = scoresRead \/ scoresRead' = NoScores,
         DOMAIN scoresRead # {} /\ effect'.end # "writeRanks" => scoresRead' = NoScores,
         effect.end = "readRanks" => effect'.end # "writeRanks" 
  PROVE  EffectsInv'
<1>1. stage = "ended" /\ DOMAIN NoScores = {}
  BY DEF EffectsInv, EffectsOrder, NoScores
<1>2. EffectsTypes'
  BY <1>1 DEF EffectsInv, EffectsTypes
<1>3. EffectsOrder'
  <2>1. \A u \in EffectUsers : rows[u].rank = NoRank
    BY DEF EffectsInv, EffectsOrder
  <2> QED BY <1>1, <2>1 DEF EffectsInv, EffectsOrder
<1> QED BY <1>1, <1>2, <1>3, QuietKept

\* The end cancels the orders; those whose QTY it does not return came late.
LEMMA CancelAllPendingOrdersKept ==
  ASSUME EffectsInv, CancelAllPendingOrders
  PROVE  EffectsInv'
<1>1. /\ effect.end = "cancelOrders" /\ effect'.end = "forceClose" /\ effect' \in Effects
      /\ effect'.start = effect.start
  BY EffectStepIs DEF CancelAllPendingOrders
<1>2. UNCHANGED <<stage, engineMem, inited, closing, traded, scoresRead, unseen, unreturned>>
  BY DEF CancelAllPendingOrders, EngineUnchanged, EndUnchanged
<1>3. CASE UNCHANGED rows
  <2>1. DOMAIN scoresRead = {}
    BY <1>1 DEF EffectsInv, EffectsOrder
  <2> QED BY <1>1, <1>2, <1>3, <2>1, EndFailsKept
<1>4. ASSUME NEW late \in SUBSET unseen, rows' = CancelOrders(rows, EffectUsers \ late)
      PROVE  EffectsInv'
  <2>1. /\ rows' \in [EffectUsers -> ParticipantRow]
        /\ \A u \in EffectUsers :
             /\ rows'[u].rank = rows[u].rank /\ rows'[u].pos = rows[u].pos /\ rows'[u].realized = rows[u].realized
             /\ rows'[u].score = rows[u].score
             /\ rows'[u].order = (IF rows[u].order = "pending" THEN "cancelled" ELSE rows[u].order)
             /\ rows'[u].avail = rows[u].avail + UnitIf(rows[u].order = "pending" /\ u \in EffectUsers \ late)
    BY <1>4, CancelOrdersIs
  <2>2. ASSUME NEW u \in InTime
        PROVE  /\ RowRight(rows'[u], u \notin unreturned)
               /\ ~inited => rows'[u].pos = "none" /\ rows'[u].order = "none"
    <3>1. u \in EffectUsers \ late /\ UserRight(u)
      BY <2>2, <1>4 DEF EffectsInv, InTime
    <3>2. rows[u].avail \in Int /\ QtyTotal \in Int
      BY <3>1, EffectsAssumption DEF EffectsInv, EffectsTypes, ParticipantRow
    <3>3. rows'[u].avail = rows[u].avail + UnitIf(rows[u].order = "pending")
      BY <2>1, <3>1
    <3>4. u \notin unreturned =>
            rows'[u].avail = QtyTotal - UnitIf(rows'[u].pos = "open") - UnitIf(rows'[u].order = "pending")
      BY <2>1, <3>1, <3>2, <3>3 DEF UserRight, RowRight, UnitIf
    <3> QED BY <2>1, <3>1, <3>4 DEF UserRight, RowRight
  <2> QED BY <1>1, <1>2, <2>1, <2>2, EndRowsKept
<1> QED BY <1>3, <1>4 DEF CancelAllPendingOrders

\* Closing what is open, by the handler or by its fallback.
LEMMA ClosingKept ==
  ASSUME EffectsInv, CloseOpenPositions, effect.end \notin {"none", "writeRanks"}, effect' \in Effects,
         effect'.start = effect.start,
         UNCHANGED <<stage, engineMem, inited, closing, traded, scoresRead, unseen, unreturned>>
  PROVE  EffectsInv'
<1> PICK gain \in [EffectUsers -> Gains] : rows' = CloseAt(rows, OpenPositions(rows), gain)
  BY DEF CloseOpenPositions
<1>1. /\ rows' \in [EffectUsers -> ParticipantRow]
      /\ \A u \in EffectUsers :
           IF rows[u].pos = "open"
           THEN /\ rows'[u].rank = rows[u].rank /\ rows'[u].order = rows[u].order /\ rows'[u].pos = "closed"
                /\ rows'[u].realized = rows[u].realized + gain[u] /\ rows'[u].score = rows[u].score + gain[u]
                /\ rows'[u].avail = rows[u].avail + 1
           ELSE rows'[u] = rows[u]
  BY CloseAtIs
<1>2. ASSUME NEW u \in InTime
      PROVE  /\ RowRight(rows'[u], u \notin unreturned')
             /\ ~inited => rows'[u].pos = "none" /\ rows'[u].order = "none"
  <2>1. u \in EffectUsers /\ UserRight(u)
    BY <1>2 DEF EffectsInv, InTime
  <2>2. CASE rows[u].pos = "open"
    <3>1. rows[u].avail \in Int /\ QtyTotal \in Int /\ gain[u] \in Gains /\ gain[u] \in Int
      <4>1. rows[u] \in ParticipantRow /\ gain[u] \in Gains
        BY <2>1 DEF EffectsInv, EffectsTypes
      <4>2. rows[u].avail \in Int
        BY <4>1 DEF ParticipantRow
      <4>3. QtyTotal \in Int
        BY EffectsAssumption
      <4>4. gain[u] \in Int
        BY <4>1, EffectsAssumption
      <4> QED BY <4>1, <4>2, <4>3, <4>4
    <3>2. rows[u].realized = 0 /\ rows[u].score = 0 /\ inited
      BY <2>1, <2>2 DEF UserRight, RowRight
    <3>3. /\ rows'[u].order = rows[u].order /\ rows'[u].pos = "closed" /\ rows'[u].realized = gain[u]
          /\ rows'[u].score = gain[u] /\ rows'[u].avail = rows[u].avail + 1
      BY <1>1, <2>1, <2>2, <3>1, <3>2
    <3>4. u \notin unreturned =>
            rows'[u].avail = QtyTotal - UnitIf(rows'[u].pos = "open") - UnitIf(rows'[u].order = "pending")
      BY <2>1, <2>2, <3>1, <3>3 DEF UserRight, RowRight, UnitIf
    <3> QED BY <3>1, <3>2, <3>3, <3>4 DEF RowRight
  <2>3. CASE rows[u].pos # "open"
    BY <1>1, <2>1, <2>3 DEF UserRight
  <2> QED BY <2>2, <2>3
<1>3. \A u \in EffectUsers : rows'[u].rank = rows[u].rank
  BY <1>1
<1> QED BY <1>1, <1>2, <1>3, EndRowsKept

LEMMA ForceCloseAllPositionsKept ==
  ASSUME EffectsInv, ForceCloseAllPositions
  PROVE  EffectsInv'
<1>1. /\ effect.end = "forceClose" /\ effect' \in Effects /\ effect'.start = effect.start
      /\ effect'.end \in {"readRanks", "fallbackClose"}
  BY EffectStepIs DEF ForceCloseAllPositions
<1>2. UNCHANGED <<stage, engineMem, inited, closing, traded, scoresRead, unseen, unreturned>>
  BY DEF ForceCloseAllPositions, EngineUnchanged, EndUnchanged
<1>3. DOMAIN scoresRead = {}
  BY <1>1 DEF EffectsInv, EffectsOrder
<1> QED BY <1>1, <1>2, <1>3, EndFailsKept, ClosingKept DEF ForceCloseAllPositions

LEMMA CloseAllPositionsKept ==
  ASSUME EffectsInv, CloseAllPositions
  PROVE  EffectsInv'
<1>1. /\ effect.end = "fallbackClose" /\ effect' \in Effects /\ effect'.start = effect.start
      /\ effect'.end = "fallbackCancel"
  BY EffectStepIs DEF CloseAllPositions
<1>2. UNCHANGED <<stage, engineMem, inited, closing, traded, scoresRead, unseen, unreturned>>
  BY DEF CloseAllPositions, EngineUnchanged, EndUnchanged
<1>3. DOMAIN scoresRead = {}
  BY <1>1 DEF EffectsInv, EffectsOrder
<1> QED BY <1>1, <1>2, <1>3, EndFailsKept, ClosingKept DEF CloseAllPositions

\* The fallback's cancelling gives nothing back, and those it takes from are
\* remembered.
LEMMA CancelPendingOrdersKept ==
  ASSUME EffectsInv, CancelPendingOrders
  PROVE  EffectsInv'
<1>1. /\ effect.end = "fallbackCancel" /\ effect'.end = "none" /\ effect' \in Effects
      /\ effect'.start = effect.start
  BY EffectStepIs DEF CancelPendingOrders
<1>2. UNCHANGED <<stage, engineMem, inited, closing, traded, scoresRead, unseen>>
  BY DEF CancelPendingOrders, EngineUnchanged
<1>3. CASE UNCHANGED <<rows, unreturned>>
  <2>1. DOMAIN scoresRead = {}
    BY <1>1 DEF EffectsInv, EffectsOrder
  <2> QED BY <1>1, <1>2, <1>3, <2>1, EndFailsKept
<1>4. ASSUME rows' = CancelOrders(rows, {}), unreturned' = unreturned \cup PendingOrders(rows)
      PROVE  EffectsInv'
  <2>1. /\ rows' \in [EffectUsers -> ParticipantRow]
        /\ \A u \in EffectUsers :
             /\ rows'[u].rank = rows[u].rank /\ rows'[u].pos = rows[u].pos /\ rows'[u].realized = rows[u].realized
             /\ rows'[u].score = rows[u].score
             /\ rows'[u].order = (IF rows[u].order = "pending" THEN "cancelled" ELSE rows[u].order)
             /\ rows'[u].avail = rows[u].avail + UnitIf(rows[u].order = "pending" /\ u \in {})
    BY <1>4, CancelOrdersIs
  <2>2. ASSUME NEW u \in InTime
        PROVE  /\ RowRight(rows'[u], u \notin unreturned')
               /\ ~inited => rows'[u].pos = "none" /\ rows'[u].order = "none"
    <3>1. u \in EffectUsers /\ UserRight(u)
      BY <2>2 DEF EffectsInv, InTime
    <3>2. rows[u].avail \in Int /\ QtyTotal \in Int
      BY <3>1, EffectsAssumption DEF EffectsInv, EffectsTypes, ParticipantRow
    <3>3. rows'[u].avail = rows[u].avail
      BY <2>1, <3>1, <3>2 DEF UnitIf
    <3>4. u \notin unreturned' => u \notin unreturned /\ rows[u].order # "pending"
      BY <1>4, <3>1 DEF PendingOrders
    <3>5. u \notin unreturned' =>
            rows'[u].avail = QtyTotal - UnitIf(rows'[u].pos = "open") - UnitIf(rows'[u].order = "pending")
      BY <2>1, <3>1, <3>2, <3>3, <3>4 DEF UserRight, RowRight, UnitIf
    <3> QED BY <2>1, <3>1, <3>5 DEF UserRight, RowRight
  <2> QED BY <1>1, <1>2, <1>4, <2>1, <2>2, EndRowsKept
<1> QED BY <1>3, <1>4 DEF CancelPendingOrders

\* A replica that is behind shows no score; whoever had one is remembered.
LEMMA ReadScoresKept ==
  ASSUME EffectsInv, ReadScores
  PROVE  EffectsInv'
<1>1. UNCHANGED <<stage, rows, engineMem, inited, closing, traded, unreturned>>
  BY DEF ReadScores, EngineUnchanged
<1>2. /\ effect.end = "readRanks" /\ effect' \in Effects /\ effect'.start = effect.start
      /\ effect'.end \in {"writeRanks", "fallbackClose"}
  BY EffectStepIs DEF ReadScores
<1>3. DOMAIN scoresRead = {} /\ stage = "ended" /\ \A u \in EffectUsers : rows[u].rank = NoRank
  BY <1>2 DEF EffectsInv, EffectsOrder
<1>4. CASE EffectStep("end", "readRanks", "fallbackClose") /\ UNCHANGED <<scoresRead, unseen>>
  <2>1. effect'.end = "fallbackClose"
    BY <1>4, EffectStepIs
  <2> QED BY <1>1, <1>2, <1>3, <1>4, <2>1, EndFailsKept
<1>5. ASSUME ~ (EffectStep("end", "readRanks", "fallbackClose") /\ UNCHANGED <<scoresRead, unseen>>)
      PROVE  EffectsInv'
  <2> DEFINE Shown(l) == [u \in EffectUsers |-> IF u \in l THEN 0 ELSE rows[u].score]
  <2>1. PICK lagging \in SUBSET EffectUsers, got \in SUBSET EffectUsers :
          /\ \A u \in got, v \in EffectUsers \ got : Shown(lagging)[v] <= Shown(lagging)[u]
          /\ EffectStep("end", "readRanks", "writeRanks")
          /\ scoresRead' = [u \in got |-> Shown(lagging)[u]]
          /\ unseen' = unseen \cup {u \in lagging : rows[u].score # 0}
    BY <1>5, ZenonT(30) DEF ReadScores
  <2> DEFINE shown == Shown(lagging)
  <2>2. shown = [u \in EffectUsers |-> IF u \in lagging THEN 0 ELSE rows[u].score]
    OBVIOUS
  <2> HIDE DEF Shown, shown
  <2>3. /\ \A u \in got, v \in EffectUsers \ got : shown[v] <= shown[u]
        /\ scoresRead' = [u \in got |-> shown[u]]
    BY <2>1 DEF shown
  <2>4. effect'.end = "writeRanks"
    BY <2>1, EffectStepIs
  <2>5. \A u \in EffectUsers : rows[u] \in ParticipantRow
    BY DEF EffectsInv, EffectsTypes
  <2>6. \A u \in EffectUsers : shown[u] \in Int
    BY <2>2, <2>5 DEF ParticipantRow
  <2>7. DOMAIN scoresRead' = got /\ \A u \in got : scoresRead'[u] = shown[u]
    BY <2>3
  <2>8. EffectsTypes'
    BY <1>1, <1>2, <2>6, <2>7 DEF EffectsInv, EffectsTypes
  <2>9. EffectsOrder'
    BY <1>1, <1>2, <1>3, <2>4 DEF EffectsInv, EffectsOrder
  <2>10. \A u \in EffectUsers \ unseen' : shown[u] = rows[u].score
    BY <2>1, <2>2
  <2>11. ASSUME NEW u \in InTime' PROVE UserRight(u)'
    <3>1. u \in InTime /\ u \in EffectUsers \ unseen'
      BY <1>1, <2>1, <2>11 DEF InTime
    <3>2. UserRight(u)
      BY <3>1 DEF EffectsInv
    <3> QED BY <1>1, <2>7, <2>10, <3>1, <3>2 DEF UserRight
  <2>12. RanksFollowScores'
    BY <1>1, <1>3 DEF RanksFollowScores
  <2>13. ReadRight'
    BY <1>1, <2>3, <2>7, <2>10 DEF ReadRight
  <2> QED BY <2>8, <2>9, <2>11, <2>12, <2>13 DEF EffectsInv
<1> QED BY <1>4, <1>5

\* A rank is one more than the number of better scores, so ranks follow scores.
LEMMA RankInFollows ==
  ASSUME NEW s, IsFiniteSet(DOMAIN s), \A x \in DOMAIN s : s[x] \in Int,
         NEW u \in DOMAIN s, NEW v \in DOMAIN s
  PROVE  /\ RankIn(s, u) \in Nat \ {0}
         /\ (RankIn(s, u) < RankIn(s, v)) = (s[u] > s[v])
<1> DEFINE Above(x) == {w \in DOMAIN s : s[w] > s[x]}
<1>1. \A x \in DOMAIN s : IsFiniteSet(Above(x))
  BY FS_Subset
<1>2. Cardinality(Above(u)) \in Nat /\ Cardinality(Above(v)) \in Nat
  BY <1>1, FS_CardinalityType
<1>3. RankIn(s, u) = 1 + Cardinality(Above(u)) /\ RankIn(s, v) = 1 + Cardinality(Above(v))
  BY DEF RankIn
<1>4. CASE s[u] > s[v]
  <2>1. Above(u) \subseteq Above(v) /\ u \in Above(v) /\ u \notin Above(u)
    BY <1>4
  <2>2. Cardinality(Above(u)) < Cardinality(Above(v))
    <3>1. IsFiniteSet(Above(v)) /\ Above(u) # Above(v)
      BY <1>1, <2>1
    <3> HIDE DEF Above
    <3>2. /\ Cardinality(Above(u)) <= Cardinality(Above(v))
          /\ Cardinality(Above(v)) = Cardinality(Above(u)) => Above(v) = Above(u)
      BY <2>1, <3>1, FS_Subset
    <3> QED BY <1>2, <3>1, <3>2
  <2> QED BY <1>2, <1>3, <1>4, <2>2
<1>5. CASE ~ (s[u] > s[v])
  <2>1. Above(v) \subseteq Above(u)
    BY <1>5
  <2>2. Cardinality(Above(v)) <= Cardinality(Above(u))
    BY <1>1, <2>1, FS_Subset
  <2> QED BY <1>2, <1>3, <1>5, <2>2
<1> QED BY <1>4, <1>5

\* The ranking writes the scores it read, with their ranks.
LEMMA CalculateFinalRankingsKept ==
  ASSUME EffectsInv, CalculateFinalRankings
  PROVE  EffectsInv'
<1>1. /\ UNCHANGED <<stage, engineMem, inited, closing, traded, unseen, unreturned>>
      /\ scoresRead' = NoScores
  BY DEF CalculateFinalRankings, EngineUnchanged
<1>2. /\ effect.end = "writeRanks" /\ effect' \in Effects /\ effect'.start = effect.start
      /\ effect'.end \in {"none", "fallbackClose"}
  BY EffectStepIs DEF CalculateFinalRankings
<1>3. stage = "ended" /\ DOMAIN NoScores = {}
  BY <1>2 DEF EffectsInv, EffectsOrder, NoScores
<1>4. CASE UNCHANGED rows
  BY <1>1, <1>2, <1>4, EndFailsKept
<1>5. ASSUME EffectStep("end", "writeRanks", "none"),
             rows' = [u \in EffectUsers |->
                        IF u \in DOMAIN scoresRead
                        THEN [rows[u] EXCEPT !.rank = RankIn(scoresRead, u), !.score = scoresRead[u]]
                        ELSE rows[u]]
      PROVE  EffectsInv'
  <2>1. effect'.end = "none"
    BY <1>5, EffectStepIs
  <2>2. /\ \A u \in EffectUsers : rows[u] \in ParticipantRow /\ rows[u].rank = NoRank
        /\ DOMAIN scoresRead \subseteq EffectUsers /\ \A u \in DOMAIN scoresRead : scoresRead[u] \in Int
    BY <1>2 DEF EffectsInv, EffectsTypes, EffectsOrder
  <2>3. IsFiniteSet(DOMAIN scoresRead)
    BY <2>2, EffectsAssumption, FS_Subset
  <2>4. \A u, v \in DOMAIN scoresRead :
          /\ RankIn(scoresRead, u) \in Nat \ {0}
          /\ (RankIn(scoresRead, u) < RankIn(scoresRead, v)) = (scoresRead[u] > scoresRead[v])
    BY <2>2, <2>3, RankInFollows
  <2>5. ASSUME NEW u \in DOMAIN scoresRead
        PROVE  /\ rows'[u] \in ParticipantRow /\ rows'[u].rank = RankIn(scoresRead, u)
               /\ rows'[u].score = scoresRead[u] /\ rows'[u].pos = rows[u].pos /\ rows'[u].order = rows[u].order
               /\ rows'[u].realized = rows[u].realized /\ rows'[u].avail = rows[u].avail
    <3> DEFINE k == RankIn(scoresRead, u)
               c == scoresRead[u]
    <3>1. rows[u] \in ParticipantRow /\ k \in Int /\ c \in Int
      BY <2>2, <2>4
    <3>2. rows'[u] = [rows[u] EXCEPT !.rank = k, !.score = c]
      BY <1>5, <2>2
    <3> HIDE DEF k, c
    <3>3. /\ rows'[u] \in ParticipantRow /\ rows'[u].rank = k
          /\ rows'[u].score = c /\ rows'[u].pos = rows[u].pos /\ rows'[u].order = rows[u].order
          /\ rows'[u].realized = rows[u].realized /\ rows'[u].avail = rows[u].avail
      BY <3>1, <3>2 DEF ParticipantRow
    <3> QED BY <3>3 DEF k, c
  <2>6. \A u \in EffectUsers \ DOMAIN scoresRead : rows'[u] = rows[u]
    BY <1>5
  <2>7. EffectsTypes'
    <3>1. rows' \in [EffectUsers -> ParticipantRow]
      BY <1>5, <2>2, <2>5, <2>6
    <3> QED BY <1>1, <1>2, <1>3, <3>1 DEF EffectsInv, EffectsTypes
  <2>8. EffectsOrder'
    BY <1>1, <1>2, <1>3, <2>1 DEF EffectsInv, EffectsOrder
  <2>9. InTime' = InTime
    BY <1>1 DEF InTime
  <2>10. ASSUME NEW u \in InTime PROVE UserRight(u)'
    <3>1. u \in EffectUsers /\ UserRight(u)
      BY DEF EffectsInv, InTime
    <3>2. rows'[u].score = rows[u].score /\ rows'[u].realized = rows[u].realized /\ rows'[u].pos = rows[u].pos
          /\ rows'[u].order = rows[u].order /\ rows'[u].avail = rows[u].avail
      BY <2>5, <2>6, <3>1 DEF UserRight
    <3> QED BY <1>1, <1>3, <3>1, <3>2 DEF UserRight, RowRight
  <2>11. RanksFollowScores'
    <3>1. SUFFICES ASSUME unseen = {}, NEW u \in EffectUsers, NEW v \in EffectUsers, rows'[u].rank # NoRank
                   PROVE  IF rows'[v].rank # NoRank
                          THEN (rows'[u].rank < rows'[v].rank) = (rows'[u].score > rows'[v].score)
                          ELSE traded = {} => rows'[v].score <= rows'[u].score
      BY <1>1 DEF RanksFollowScores
    <3>2. u \in DOMAIN scoresRead
      BY <2>2, <2>6, <3>1
    <3>3. CASE v \in DOMAIN scoresRead
      <4>1. rows'[v].rank # NoRank
        BY <2>4, <2>5, <3>3 DEF NoRank
      <4> QED BY <2>4, <2>5, <3>2, <3>3, <4>1
    <3>4. CASE v \notin DOMAIN scoresRead
      <4>1. rows'[v] = rows[v] /\ rows[v].rank = NoRank
        BY <2>2, <2>6, <3>4
      <4>2. traded = {} => rows[v].score <= scoresRead[u]
        BY <3>1, <3>2, <3>4 DEF EffectsInv, ReadRight
      <4> QED BY <2>5, <3>2, <4>1, <4>2
    <3> QED BY <3>3, <3>4
  <2>12. ReadRight'
    BY <1>1, <1>3 DEF ReadRight
  <2> QED BY <2>7, <2>8, <2>9, <2>10, <2>11, <2>12 DEF EffectsInv
<1> QED BY <1>4, <1>5 DEF CalculateFinalRankings

\* Every step of the effects, and every loss of the rest of them.
LEMMA EffectsStep == EffectsInv /\ [EffectsNext]_effectsVars => EffectsInv'
<1> SUFFICES ASSUME EffectsInv, [EffectsNext]_effectsVars PROVE EffectsInv'
  OBVIOUS
<1>1. CASE EndLost
  <2>1. /\ effect.end # "none" /\ effect' = [effect EXCEPT !.end = "none"] /\ scoresRead' = NoScores
        /\ UNCHANGED <<rows, inited, unseen, unreturned, stage, engineMem, closing, traded>>
    BY <1>1 DEF EndLost, EngineUnchanged
  <2>2. effect \in Effects
    BY DEF EffectsInv, EffectsTypes
  <2>3. effect' \in Effects /\ effect'.end = "none" /\ effect'.start = effect.start
    BY <2>1, <2>2 DEF Effects
  <2> QED BY <2>1, <2>3, EndFailsKept
<1>2. CASE UNCHANGED effectsVars
  <2>1. EffectsTypes' /\ EffectsOrder' /\ RanksFollowScores' /\ ReadRight'
    BY <1>2 DEF effectsVars, EffectsInv, EffectsTypes, EffectsOrder, RanksFollowScores, ReadRight
  <2>2. InTime' = InTime
    BY <1>2 DEF effectsVars, InTime
  <2>3. \A u \in InTime : UserRight(u)'
    BY <1>2 DEF effectsVars, EffectsInv, UserRight
  <2> QED BY <2>1, <2>2, <2>3 DEF EffectsInv
<1>3. CASE Start \/ EndTrading \/ InitializeParticipantStates \/ LockPrizes \/ OnRunningFallback \/ StartLost
  BY <1>3, StagesKept, InitialisationKept, StartEffectsKept
<1>4. CASE CancelAllPendingOrders \/ ForceCloseAllPositions \/ ReadScores \/ CalculateFinalRankings
           \/ CloseAllPositions \/ CancelPendingOrders
  BY <1>4, CancelAllPendingOrdersKept, ForceCloseAllPositionsKept, ReadScoresKept, CalculateFinalRankingsKept,
     CloseAllPositionsKept, CancelPendingOrdersKept
<1>5. CASE EngineLearnsEnd \/ \E u \in EffectUsers : FindPosition(u)
  BY <1>5, EngineReadsKept
<1>6. ASSUME NEW u \in EffectUsers,
             InsertPosition(u) \/ PlaceOrder(u) \/ \E g \in Gains : ClosePosition(u, g)
      PROVE  EffectsInv'
  BY <1>6, TradeKept, ClosePositionKept
<1> QED BY <1>1, <1>2, <1>3, <1>4, <1>5, <1>6 DEF EffectsNext

\* What the invariant says of scores, QTY and ranks.
LEMMA EffectsKept == EffectsInv => ScoresAreRealized /\ QtyReturned /\ RanksFollowScores
<1> SUFFICES ASSUME EffectsInv PROVE ScoresAreRealized /\ QtyReturned /\ RanksFollowScores
  OBVIOUS
<1>1. ScoresAreRealized
  BY DEF EffectsInv, ScoresAreRealized, UserRight, RowRight
<1>2. QtyReturned
  <2>1. SUFFICES ASSUME NEW u \in InTime \ unreturned
                 PROVE  rows[u].avail = QtyTotal - Cardinality({u} \cap OpenPositions(rows))
                                                 - Cardinality({u} \cap PendingOrders(rows))
    BY DEF QtyReturned
  <2>2. ASSUME NEW S PROVE Cardinality({u} \cap S) = UnitIf(u \in S)
    <3>1. CASE u \in S
      <4>1. {u} \cap S = {u}
        BY <3>1
      <4> QED BY <3>1, <4>1, FS_Singleton DEF UnitIf
    <3>2. CASE u \notin S
      <4>1. {u} \cap S = {}
        BY <3>2
      <4> QED BY <3>2, <4>1, FS_EmptySet DEF UnitIf
    <3> QED BY <3>1, <3>2
  <2>3. u \in EffectUsers /\ UserRight(u)
    BY <2>1 DEF EffectsInv, InTime
  <2>4. (u \in OpenPositions(rows)) = (rows[u].pos = "open") /\ (u \in PendingOrders(rows)) = (rows[u].order = "pending")
    BY <2>3 DEF OpenPositions, PendingOrders
  <2>5. rows[u].avail = QtyTotal - UnitIf(rows[u].pos = "open") - UnitIf(rows[u].order = "pending")
    BY <2>1, <2>3 DEF UserRight, RowRight
  <2>6. /\ Cardinality({u} \cap OpenPositions(rows)) = UnitIf(rows[u].pos = "open")
        /\ Cardinality({u} \cap PendingOrders(rows)) = UnitIf(rows[u].order = "pending")
    BY <2>2, <2>4 DEF UnitIf
  <2> QED BY <2>5, <2>6
<1> QED BY <1>1, <1>2 DEF EffectsInv

=============================================================================
