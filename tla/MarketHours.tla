----------------------------- MODULE MarketHours -----------------------------
(***************************************************************************)
(* When a market is open, and when a recurring contest comes next.         *)
(*                                                                         *)
(* hours: one asset class.  The trading engine, the gateway and the admin  *)
(* service each carry a copy of the rules; the engine and the admin        *)
(* service also keep manual overrides, each in its own memory.  Instants   *)
(* are counted from a Sunday midnight UTC, DayLength to a day.             *)
(*                                                                         *)
(* recurrence: the rule that moves a template's next_occurrence_at, on a   *)
(* calendar of short months of two lengths     , and the preview of *)
(* a schedule's runs that the admin service computes.                      *)
(***************************************************************************)
EXTENDS Integers, Sequences, FiniteSets, FiniteSetsExt

CONSTANTS DayLength,    \* instants in a day
          MaxInstant    \* bound on the clock

VARIABLES
  instant,   \* the clock
  hoursRule, \* the asset class's entry of market_hours.json
  overrides, \* per process: the manual override, or NoOverride
  lastStatus \* what the engine's monitor saw last

hoursVars == <<instant, hoursRule, overrides, lastStatus>>

VARIABLES
  cursor,    \* next_occurrence_at
  recurrence \* the template's rule

recurrenceVars == <<cursor, recurrence>>
mhVars == <<hoursVars, recurrenceVars>>

WeekDays == 7
WeekLength == WeekDays * DayLength
TimesOfDay == 0..DayLength - 1

(***************************************************************************)
(* The rules of an asset class.                                            *)
(***************************************************************************)

\* The time zone of the open time is an offset: both it and the close time
\* are read in it.
Local(s, n) == n + s.offset
Weekday(n) == (n \div DayLength) % WeekDays
Clock(n) == n % DayLength

\* isInTradingWindow of the engine.  When the market opens and closes on
\* the same weekday the close time is not looked at.
InTradingWindow(s, n) ==
  LET day == Weekday(Local(s, n))  time == Clock(Local(s, n))
  IN IF s.open.day <= s.close.day
     THEN /\ day \in s.open.day..s.close.day
          /\ day = s.open.day => time >= s.open.time
          /\ day = s.close.day /\ day # s.open.day => time < s.close.time
     ELSE \/ day = s.open.day /\ time >= s.open.time
          \/ day > s.open.day \/ day < s.close.day
          \/ day = s.close.day /\ time < s.close.time

\* The admin service's copy: in a window that wraps around the week, the
\* comparison for the opening day sits under "current > open".
AdminInTradingWindow(s, n) ==
  LET day == Weekday(Local(s, n))  time == Clock(Local(s, n))
  IN IF s.open.day <= s.close.day
     THEN InTradingWindow(s, n)
     ELSE \/ day > s.open.day \/ day < s.close.day
          \/ day = s.close.day /\ time < s.close.time

\* The engine compares holidays with the date in the market's time zone,
\* the gateway and the admin service with the date in UTC.
IsHoliday(s, n) == Local(s, n) \div DayLength \in s.holidays
IsUTCHoliday(s, n) == n \div DayLength \in s.holidays

\* checkMarketHours and the status at an instant, override apart.
StatusAt(s, n) == ~IsHoliday(s, n) /\ InTradingWindow(s, n)
GatewayStatusAt(s, n) == ~IsUTCHoliday(s, n) /\ InTradingWindow(s, n)
AdminStatusAt(s, n) == ~IsUTCHoliday(s, n) /\ AdminInTradingWindow(s, n)

NoTime == -1
DayStart(s, d) == d * DayLength - s.offset

\* From the given instant, then from midnight of each of the seven days
\* that follow: the first opening that is not on a holiday.
CalculateNextOpen(s, from) ==
  LET today == Local(s, from) \div DayLength
      opens(d) == DayStart(s, d) + s.open.time
      found == {d \in today..today + 7 :
                  /\ d % WeekDays = s.open.day
                  /\ d = today => from <= opens(d)
                  /\ ~IsHoliday(s, opens(d))}
  IN IF found = {} THEN NoTime ELSE opens(Min(found))

\* The same walk, but a close time of 00:00 is never after its own midnight.
CalculateNextClose(s, from) ==
  LET today == Local(s, from) \div DayLength
      closes(d) == DayStart(s, d) + s.close.time
      found == {d \in today..today + 7 :
                  /\ d % WeekDays = s.close.day
                  /\ IF d = today THEN from < closes(d) ELSE s.close.time > 0}
  IN IF found = {} THEN NoTime ELSE closes(Min(found))

\* ValidateContestTimes of the engine: both ends, then one probe a day.
ContestTimesValid(s, from, to) ==
  /\ StatusAt(s, from) /\ StatusAt(s, to)
  /\ \A k \in 0..(to - from) :
       from + k * DayLength < to => ~IsHoliday(s, from + k * DayLength)

\* The admin service's copy knows nothing of holidays.
AdminContestTimesValid(s, from, to) ==
  AdminInTradingWindow(s, from) /\ AdminInTradingWindow(s, to)

(***************************************************************************)
(* Overrides and the monitor.                                              *)
(***************************************************************************)

Holders == {"engine", "admin"}

\* An override says how much longer it counts; one with nothing left has
\* expired but is still stored.
NoOverride == [open |-> FALSE, left |-> NoTime]

\* GetMarketStatus and GetStatus: an expired override is passed over, swept or not.
MarketStatus(p) ==
  IF overrides[p].left > 0 THEN overrides[p].open
  ELSE IF p = "engine" THEN StatusAt(hoursRule, instant)
       ELSE AdminStatusAt(hoursRule, instant)

\* Windows within the week, around its end, and of a single weekday.
MarketRules ==
  LET points == {[day |-> 0, time |-> 1], [day |-> 1, time |-> 0], [day |-> 5, time |-> 1]}
  IN [open : points, close : points, offset : {0, 1}, holidays : {{}, {1}, {5, 7}}]

HoursInit ==
  /\ instant = 0
  /\ hoursRule \in MarketRules
  /\ overrides = [p \in Holders |-> NoOverride]
  /\ lastStatus = StatusAt(hoursRule, 0)

InstantPasses ==
  /\ instant < MaxInstant
  /\ instant' = instant + 1
  /\ overrides' = [p \in Holders |-> IF overrides[p].left > 0
                                     THEN [overrides[p] EXCEPT !.left = @ - 1]
                                     ELSE overrides[p]]
  /\ UNCHANGED <<hoursRule, lastStatus>>

\* The expiry is whatever the request says, the past included.
SetOverride(p, o) ==
  /\ overrides' = [overrides EXCEPT ![p] = o]
  /\ UNCHANGED <<instant, hoursRule, lastStatus>>

ClearOverride(p) ==
  /\ overrides[p] # NoOverride
  /\ overrides' = [overrides EXCEPT ![p] = NoOverride]
  /\ UNCHANGED <<instant, hoursRule, lastStatus>>

\* StartMonitor's tick: expired overrides are swept, then the status is
\* compared with the last one seen.
MonitorTick ==
  /\ overrides' = [overrides EXCEPT !["engine"] = IF @.left = 0 THEN NoOverride ELSE @]
  /\ lastStatus' = MarketStatus("engine")
  /\ UNCHANGED <<instant, hoursRule>>

\* Reading a status in the admin service deletes an expired override.
HandleGetMarketStatus ==
  /\ overrides["admin"].left = 0
  /\ overrides' = [overrides EXCEPT !["admin"] = NoOverride]
  /\ UNCHANGED <<instant, hoursRule, lastStatus>>

\* The schedule alone, under every rule; then overrides, under one.
HoursNext == InstantPasses \/ MonitorTick
OverridesNext ==
  \/ InstantPasses \/ MonitorTick \/ HandleGetMarketStatus
  \/ \E p \in Holders :
       \/ ClearOverride(p)
       \/ \E o \in [open : BOOLEAN, left : {0, 1}] : SetOverride(p, o)

(***************************************************************************)
(* Recurrence.                                                             *)
(***************************************************************************)

\* The first days of the months, and of the year after.
MonthStarts == <<0, 5, 9, 14, 19, 23, 28, 33, 38>>
Months == 1..Len(MonthStarts) - 1
MonthLength(mo) == MonthStarts[mo + 1] - MonthStarts[mo]
ShortestMonth == 4
MonthOf(d) == Max({mo \in Months : MonthStarts[mo] <= d})
DayOfMonth(d) == d - MonthStarts[MonthOf(d)] + 1

At(d, time) == d * DayLength + time
DayOf(n) == n \div DayLength

\* The next boundary after the instant, never the instant itself.
NextBoundary(step, from) == (from \div step) * step + step

\* (As it would be if the occurrence need not be after the last one.)
NextWeeklyToday(from, days, time) ==
  At(Min({d \in DayOf(from)..DayOf(from) + 7 : d % WeekDays \in days}), time)

\* findNextWeeklyOccurrence: a minute is added first, then eight days are tried.
NextWeekly(from, days, time) ==
  LET start == DayOf(from + 1)
      found == {d \in start..start + 7 : d % WeekDays \in days /\ At(d, time) > from}
  IN IF found = {} THEN At(DayOf(from) + 7, time) ELSE At(Min(found), time)

\* time.AddDate(0, 1, 0): a day that the next month has not spills over.
NextMonthOf(d) ==
  LET mo == MonthOf(d)
  IN IF DayOfMonth(d) > MonthLength(mo + 1) THEN mo + 2 ELSE mo + 1

\* findNextMonthlyOccurrence: the day is cut down to the current month's
\* length first, and the cut day is what the next month gets.
NextMonthly(from, dayOfMonth, time) ==
  LET mo == MonthOf(DayOf(from))
      day == Min({dayOfMonth, MonthLength(mo)})
      candidate == At(MonthStarts[mo] + day - 1, time)
      next == NextMonthOf(DayOf(from))
  IN IF candidate > from THEN candidate
     ELSE At(MonthStarts[next] + Min({day, MonthLength(next)}) - 1, time)

\* calculateNextOccurrence.
CalculateNextOccurrence(r, from) ==
  CASE r.kind = "interval" -> NextBoundary(2, from)
    [] r.kind = "hourly" -> from + 1
    [] r.kind = "daily" -> At(DayOf(from) + 1, r.time)
    [] r.kind = "weekly" -> NextWeekly(from, r.days, r.time)
    [] r.kind = "monthly" -> NextMonthly(from, r.day, r.time)

RecurrenceRules ==
  [kind : {"interval", "hourly"}, time : {0}, days : {{}}, day : {1}]
    \cup [kind : {"daily"}, time : TimesOfDay, days : {{}}, day : {1}]
    \cup [kind : {"weekly"}, time : TimesOfDay, days : {{1, 3}, {0}, {6}}, day : {1}]
    \cup [kind : {"monthly"}, time : TimesOfDay, days : {{}}, day : 1..5]

\* calculateNextOccurrences of the admin service: the first run is set to
\* nine o'clock (here 0), the next ones step on from it.
FirstRun(pattern, from) ==
  LET untilMonday == (8 - Weekday(from)) % WeekDays
  IN CASE pattern = "daily" -> At(DayOf(from) + 1, 0)
       [] pattern \in {"weekly", "biweekly"} ->
            At(DayOf(from) + (IF untilMonday = 0 THEN 7 ELSE untilMonday), 0)
       [] pattern = "monthly" -> At(MonthStarts[MonthOf(DayOf(from)) + 1], 0)
PreviewRuns(pattern, from, count) ==
  LET step == CASE pattern = "daily" -> DayLength
                [] pattern = "weekly" -> WeekLength
                [] pattern = "biweekly" -> 2 * WeekLength
                [] OTHER -> 0
      first == FirstRun(pattern, from)
  IN [k \in 1..count |->
        IF pattern = "monthly"
        THEN At(MonthStarts[MonthOf(DayOf(first)) + k - 1], 0)
        ELSE first + (k - 1) * step]

RecurrenceInit ==
  /\ cursor = 0
  /\ recurrence \in RecurrenceRules

\* One run of the calendar processor moves the template on.
AdvanceOccurrence ==
  /\ cursor < MaxInstant
  /\ cursor' = CalculateNextOccurrence(recurrence, cursor)
  /\ UNCHANGED recurrence

\* A migration rewrites the rule of a template that is under way.
MigrateRecurrence(r) ==
  /\ r # recurrence
  /\ recurrence' = r
  /\ UNCHANGED cursor

RecurrenceNext == AdvanceOccurrence \/ \E r \in RecurrenceRules : MigrateRecurrence(r)

(***************************************************************************)
(* Properties.                                                             *)
(***************************************************************************)

\* What the configuration means: the week from the opening to the closing.
Trading(s, n) ==
  LET point(p) == p.day * DayLength + p.time
  IN (Local(s, n) - point(s.open)) % WeekLength
       < (point(s.close) - point(s.open)) % WeekLength

\* The engine and the gateway trade exactly from the opening to the closing
\* of the week, a window over the weekend included, and the admin service
\* never shows a market open that is closed (where opening and closing are
\* on different weekdays).
WindowsRight ==
  hoursRule.open.day # hoursRule.close.day =>
    \A n \in instant..instant + WeekLength - 1 :
      /\ InTradingWindow(hoursRule, n) <=> Trading(hoursRule, n)
      /\ AdminInTradingWindow(hoursRule, n) => Trading(hoursRule, n)

\* The announced next opening is an instant at which the market is open and,
\* without holidays, nothing opens before it; the announced closing is the
\* first instant outside the window (a close at 00:00 apart).
NextEventsRight ==
  LET opens == CalculateNextOpen(hoursRule, instant)
      closes == CalculateNextClose(hoursRule, instant)
      other == hoursRule.open.day # hoursRule.close.day
  IN /\ ~StatusAt(hoursRule, instant) /\ opens # NoTime /\ other =>
          /\ opens >= instant /\ StatusAt(hoursRule, opens)
          /\ hoursRule.holidays = {} =>
               \A n \in instant..opens - 1 : ~StatusAt(hoursRule, n)
     /\ ~StatusAt(hoursRule, instant) /\ hoursRule.holidays = {} /\ other => opens # NoTime
     /\ StatusAt(hoursRule, instant) /\ hoursRule.close.time > 0 /\ other =>
          /\ closes > instant /\ ~InTradingWindow(hoursRule, closes)
          /\ \A n \in instant..closes - 1 : InTradingWindow(hoursRule, n)

\* A contest whose times the engine accepts meets no holiday at any instant
\* from its start to its end, although it is probed once a day only.
AcceptedAvoidHolidays ==
  \A to \in instant + 1..instant + WeekLength :
    ContestTimesValid(hoursRule, instant, to) =>
      \A n \in instant..to : ~IsHoliday(hoursRule, n)

\* What the admin service shows, and the times it accepts, agree with the
\* engine while no override is in force in either of them, however long one
\* has been expired (windows that wrap around the week, holidays and the
\* admin's own overrides are where they part).
AdminAgrees ==
  (\A p \in Holders : overrides[p].left <= 0)
    /\ hoursRule.holidays = {} /\ hoursRule.open.day <= hoursRule.close.day =>
    /\ MarketStatus("admin") = MarketStatus("engine")
    /\ MarketStatus("engine") = GatewayStatusAt(hoursRule, instant)
    /\ \A to \in instant + 1..instant + DayLength :
         AdminContestTimesValid(hoursRule, instant, to) <=> ContestTimesValid(hoursRule, instant, to)

\* Every rule moves strictly forward, never past an occurrence of its own:
\* the weekly one finds the first of its days, the monthly one the first of
\* its day of the month where every month has that day and the template's
\* last occurrence is on such a day too.
OccurrencesRight ==
  LET next == CalculateNextOccurrence(recurrence, cursor)
      between == cursor + 1..next - 1
  IN /\ next > cursor
     /\ recurrence.kind = "weekly" =>
          /\ Weekday(next) \in recurrence.days /\ Clock(next) = recurrence.time
          /\ \A n \in between :
               ~(Weekday(n) \in recurrence.days /\ Clock(n) = recurrence.time)
     /\ recurrence.kind = "monthly" /\ recurrence.day <= ShortestMonth
          /\ DayOfMonth(DayOf(cursor)) <= ShortestMonth =>
          /\ DayOfMonth(DayOf(next)) = recurrence.day /\ Clock(next) = recurrence.time
          /\ \A n \in between :
               ~(DayOfMonth(DayOf(n)) = recurrence.day /\ Clock(n) = recurrence.time)
     /\ \A pattern \in {"daily", "weekly", "biweekly", "monthly"} :
          LET runs == PreviewRuns(pattern, cursor, 3)
          IN runs[1] > cursor /\ runs[2] > runs[1] /\ runs[3] > runs[2]

HoursHold == WindowsRight /\ NextEventsRight /\ AcceptedAvoidHolidays /\ AdminAgrees
               /\ OccurrencesRight
=============================================================================
