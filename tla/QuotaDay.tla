----------------------------- MODULE QuotaDay -----------------------------
(***************************************************************************)
(* The daily quota counter of domain_fronter.rs and the calendar under it. *)
(* Apps Script's quota day starts at midnight Pacific Time, so             *)
(* record_today and snapshot_stats compute the Pacific date from the Unix  *)
(* clock with hand-written calendar arithmetic, and reset the counter when *)
(* the date they computed is not the one they find.                        *)
(***************************************************************************)
EXTENDS Integers, Sequences, FiniteSets

CONSTANTS
    Starts,    \* hours since 1970 at which the clock may start, each with the hours
               \* a tick takes and the number of ticks
    Recorders, \* threads that count a call or take a snapshot
    MaxCalls

\* The clock starts after 1970-01-01 Pacific Time, and a tick is less than a day.
ASSUME QuotaAssumption ==
    /\ IsFiniteSet(Recorders) /\ MaxCalls \in Nat
    /\ \A s \in Starts : s.hour \in Nat /\ s.hour >= 8 /\ s.step \in 1..23

VARIABLES
    qdStart, qdHour,  \* the setup and the clock
    qdKey, qdCalls,   \* today_key (under its mutex) and today_calls (atomic)
    qdPc, qdToday,    \* the threads, and the date each has computed
    qdDone,           \* history: calls counted since the Pacific date last changed
    qdStraddled,      \* history: a midnight passed while a thread was counting
    qdTotal

qdVars == <<qdStart, qdHour, qdKey, qdCalls, qdPc, qdToday, qdDone, qdStraddled, qdTotal>>

\* Time is counted in hours where the code counts seconds: every boundary falls on an hour.
Day == 24

-----------------------------------------------------------------------------
\* (Mutant: centuries are leap years like any other fourth year.)
YearOfEraJulian(doe) == (doe - (doe \div 1460)) \div 365
YearOfEra(doe) == (doe - (doe \div 1460) + (doe \div 36524) - (doe \div 146096)) \div 365

Month(mp) == IF mp < 10 THEN mp + 3 ELSE mp - 9

\* unix_to_ymd_utc: days since 0000-03-01 in eras of 400 years.
UnixToYmd(hours) ==
    LET z == (hours \div Day) + 719468
        era == z \div 146097
        doe == z - era * 146097
        yoe == YearOfEra(doe)
        doy == doe - (365 * yoe + (yoe \div 4) - (yoe \div 100))
        mp == (5 * doy + 2) \div 153
        m == Month(mp)
        y == yoe + era * 400
    IN <<IF m <= 2 THEN y + 1 ELSE y, m, doy - ((153 * mp + 2) \div 5) + 1>>

Sakamoto == <<0, 3, 2, 5, 0, 3, 5, 1, 4, 6, 2, 4>>
FirstSunday(dow) == IF dow = 0 THEN 1 ELSE 8 - dow
NthSunday(year, month, nth) ==
    LET y == IF month < 3 THEN year - 1 ELSE year
        dow == (y + (y \div 4) - (y \div 100) + (y \div 400) + Sakamoto[month] + 1) % 7
    IN FirstSunday(dow) + (nth - 1) * 7

PacificIsDst(date) ==
    LET year == date[1]  month == date[2]  day == date[3] IN
    \/ month \in 4..10
    \/ month = 3 /\ day >= NthSunday(year, 3, 2)
    \/ month = 11 /\ day < NthSunday(year, 11, 1)

Saturating(a, b) == IF a < b THEN 0 ELSE a - b
StandardTime == 8
\* The Pacific date is guessed with standard time to find out which offset applies.
UnixToPt(hours) ==
    Saturating(hours, IF PacificIsDst(UnixToYmd(Saturating(hours, 8)))
                     THEN 7 ELSE StandardTime)

PtDay(hours) == UnixToYmd(UnixToPt(hours))
UntilPacificMidnight(hours) == Day - (UnixToPt(hours) % Day)

-----------------------------------------------------------------------------
NoDate == <<0, 0, 0>>

QdInit ==
    /\ qdStart \in Starts
    /\ qdHour = qdStart.hour
    /\ qdKey = PtDay(qdHour) /\ qdCalls = 0
    /\ qdPc = [r \in Recorders |-> "idle"] /\ qdToday = [r \in Recorders |-> NoDate]
    /\ qdDone = 0 /\ qdStraddled = FALSE /\ qdTotal = 0

ClockTicks ==
    /\ qdHour < qdStart.hour + qdStart.step * qdStart.ticks
    /\ qdHour' = qdHour + qdStart.step
    /\ LET midnight == PtDay(qdHour') # PtDay(qdHour) IN
       /\ qdDone' = IF midnight THEN 0 ELSE qdDone
       /\ qdStraddled' = (qdStraddled \/ (midnight /\ \E r \in Recorders : qdPc[r] # "idle"))
    /\ UNCHANGED <<qdStart, qdKey, qdCalls, qdPc, qdToday, qdTotal>>

\* record_today (a call) or snapshot_stats: the date is computed before the mutex is taken.
Begin(r, what) ==
    /\ qdStart.counts /\ qdPc[r] = "idle" /\ qdTotal < MaxCalls
    /\ qdTotal' = qdTotal + 1
    /\ qdToday' = [qdToday EXCEPT ![r] = PtDay(qdHour)]
    /\ qdPc' = [qdPc EXCEPT ![r] = what]
    /\ UNCHANGED <<qdStart, qdHour, qdKey, qdCalls, qdDone, qdStraddled>>

\* (Mutant: the rollover only moves the key.)
KeyOnly(r) == qdCalls
RolledOver(r) == IF qdKey # qdToday[r] THEN 0 ELSE qdCalls

\* Under the mutex: another date than the one found resets the counter.
Compare(r) ==
    /\ qdPc[r] \in {"call", "snapshot"}
    /\ qdCalls' = RolledOver(r)
    /\ qdKey' = qdToday[r]
    /\ qdPc' = [qdPc EXCEPT ![r] = IF qdPc[r] = "call" THEN "add" ELSE "idle"]
    /\ UNCHANGED <<qdStart, qdHour, qdToday, qdDone, qdStraddled, qdTotal>>

\* fetch_add, after the mutex is released.
Add(r) ==
    /\ qdPc[r] = "add"
    /\ qdCalls' = qdCalls + 1 /\ qdDone' = qdDone + 1
    /\ qdPc' = [qdPc EXCEPT ![r] = "idle"]
    /\ UNCHANGED <<qdStart, qdHour, qdKey, qdToday, qdStraddled, qdTotal>>

QdNext ==
    \/ ClockTicks
    \/ \E r \in Recorders : Begin(r, "call") \/ Begin(r, "snapshot") \/ Compare(r) \/ Add(r)

QdSpec == QdInit /\ [][QdNext]_qdVars

-----------------------------------------------------------------------------
(* The reference calendar, from the rules of the Gregorian calendar.       *)
Leap(y) == y % 4 = 0 /\ (y % 100 = 0 => y % 400 = 0)
DaysIn(y, m) == IF m = 2 THEN IF Leap(y) THEN 29 ELSE 28 ELSE IF m \in {4, 6, 9, 11} THEN 30 ELSE 31
NextDate(date) ==
    IF date[3] < DaysIn(date[1], date[2]) THEN <<date[1], date[2], date[3] + 1>>
    ELSE IF date[2] < 12 THEN <<date[1], date[2] + 1, 1>> ELSE <<date[1] + 1, 1, 1>>
Weekday == ((qdHour \div Day) + 4) % 7   \* 1970-01-01 was a Thursday
\* Sundays of the month up to and including today.
SundaysSoFar(date) == IF date[3] <= Weekday THEN 0 ELSE (date[3] - Weekday - 1) \div 7 + 1

(* The types; a key is a date of the calendar.                             *)
QdTypeOK ==
    /\ qdStart \in Starts /\ qdHour \in Nat
    /\ qdKey[2] \in 1..12 /\ qdKey[3] \in 1..DaysIn(qdKey[1], qdKey[2])
    /\ qdCalls \in 0..MaxCalls /\ qdDone \in 0..MaxCalls /\ qdTotal \in 0..MaxCalls
    /\ qdPc \in [Recorders -> {"idle", "call", "snapshot", "add"}]
    /\ qdStraddled \in BOOLEAN

(* unix_to_ymd_utc walks the Gregorian calendar day by day, leap days and  *)
(* centuries included, and the Pacific date never goes back and never      *)
(* skips a day, in the hours around a clock change included.               *)
CalendarExact ==
    /\ UnixToYmd(qdHour') \in {UnixToYmd(qdHour), NextDate(UnixToYmd(qdHour))}
    /\ PtDay(qdHour') \in {PtDay(qdHour), NextDate(PtDay(qdHour))}

(* Daylight saving is in force from the second Sunday of March up to the   *)
(* first Sunday of November, the Sundays counted from the day number       *)
(* (pacific_is_dst, nth_sunday_of_month).                                  *)
DstByWeekday ==
    LET date == UnixToYmd(qdHour) IN
    PacificIsDst(date) <=>
        \/ date[2] \in 4..10
        \/ date[2] = 3 /\ SundaysSoFar(date) >= 2
        \/ date[2] = 11 /\ SundaysSoFar(date) = 0

(* The countdown shown to the user ends within an hour of the moment the   *)
(* counter's date changes (seconds_until_pacific_midnight).                *)
CountdownWithinAnHour ==
    LET left == UntilPacificMidnight(qdHour) IN
    /\ left \in 1..Day
    /\ PtDay(qdHour + left + 1) # PtDay(qdHour)
    /\ PtDay(qdHour + left - 1) = PtDay(qdHour)

(* Unless a midnight passes while a thread is between reading the clock    *)
(* and counting, the counter is exactly the number of calls made since     *)
(* midnight Pacific Time, whatever threads count and look at it            *)
(* (record_today, snapshot_stats).                                         *)
QuotaExact == ~qdStraddled /\ qdKey = PtDay(qdHour) => qdCalls = qdDone

(* The contract of the daily quota: the clocks change on the right days,   *)
(* the countdown is right to the hour and the counter is exact.            *)
QuotaSound == QdTypeOK /\ DstByWeekday /\ CountdownWithinAnHour /\ QuotaExact
=============================================================================
