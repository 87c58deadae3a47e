----------------------------- MODULE QuotaProofs -----------------------------
(***************************************************************************)
(* Proofs about QuotaDay.  The calendar arithmetic is linear once each of  *)
(* its quotients has a name, so a day is described by the quotients that   *)
(* unix_to_ymd_utc computes for it (Fits), and what the calendar promises  *)
(* is proved of these.                                                     *)
(***************************************************************************)
EXTENDS QuotaDay, FiniteSetTheorems, TLAPS

\* q is the quotient of x by n, rounded down.
IsQuot(q, x, n) == q \in Int /\ n * q <= x /\ x < n * q + n

\* Division rounds down.
LEMMA Quotients ==
  ASSUME NEW x \in Int
  PROVE  /\ IsQuot(x \div 4, x, 4) /\ IsQuot(x \div 5, x, 5) /\ IsQuot(x \div 7, x, 7)
         /\ IsQuot(x \div 24, x, 24) /\ IsQuot(x \div 100, x, 100) /\ IsQuot(x \div 153, x, 153)
         /\ IsQuot(x \div 365, x, 365) /\ IsQuot(x \div 400, x, 400)
         /\ IsQuot(x \div 1460, x, 1460) /\ IsQuot(x \div 36524, x, 36524)
         /\ IsQuot(x \div 146096, x, 146096) /\ IsQuot(x \div 146097, x, 146097)
BY SMT DEF IsQuot

\* The day of an hour, counted from 0000-03-01.
DayNo(h) == (h \div 24) + 719468

\* e and f count the leap years and the centuries of the era before year y.
InEra(y, e, f) ==
  /\ 0 <= y /\ y <= 399
  /\ 4 * e <= y /\ y < 4 * e + 4 /\ 100 * f <= y /\ y < 100 * f + 100

\* The year that starts in March of year y ends with a leap day.
LeapEnd(y, e, f) == y = 399 \/ (y + 1 = 4 * e + 4 /\ y + 1 # 100 * f + 100)

\* Day doy of a year is in month mp of the year that starts in March, whose first
\* day is day g.
InMonth(doy, mp, g) ==
  /\ 0 <= doy /\ doy <= 365
  /\ 153 * mp <= 5 * doy + 2 /\ 5 * doy + 2 < 153 * mp + 153
  /\ 5 * g <= 153 * mp + 2 /\ 153 * mp + 2 < 5 * g + 5

\* Day z since 0000-03-01 is day doy of year y of its era, and only a year that
\* ends with a leap day has a day 365.
Fits(z, era, y, e, f, doy, mp, g) ==
  /\ z = 146097 * era + 365 * y + e - f + doy
  /\ InEra(y, e, f) /\ InMonth(doy, mp, g)
  /\ doy = 365 => LeapEnd(y, e, f)

\* The calendar year in which the year that starts in March ends.
EndYear(era, y) == y + 400 * era + 1

YearOf(era, y, mp) == IF mp >= 10 THEN EndYear(era, y) ELSE y + 400 * era
DateOf(era, y, doy, mp, g) == <<YearOf(era, y, mp), Month(mp), doy - g + 1>>

HasDate(z, date) ==
  \E era, y, e, f, doy, mp, g \in Int :
    Fits(z, era, y, e, f, doy, mp, g) /\ date = DateOf(era, y, doy, mp, g)

\* The year of the era that unix_to_ymd_utc computes is the right one.
LEMMA YearFits ==
  ASSUME NEW doe \in Int, 0 <= doe, doe <= 146096,
         NEW a \in Int, 1460 * a <= doe, doe < 1460 * a + 1460,
         NEW b \in Int, 36524 * b <= doe, doe < 36524 * b + 36524,
         NEW c \in Int, 146096 * c <= doe, doe < 146096 * c + 146096,
         NEW y \in Int, 365 * y <= doe - a + b - c, doe - a + b - c < 365 * y + 365,
         NEW e \in Int, 4 * e <= y, y < 4 * e + 4,
         NEW f \in Int, 100 * f <= y, y < 100 * f + 100,
         NEW doy \in Int, doy = doe - (365 * y + e - f)
  PROVE  /\ 0 <= y /\ y <= 399 /\ 0 <= doy /\ doy <= 365
         /\ doy = 365 => y = 399 \/ (y + 1 = 4 * e + 4 /\ y + 1 # 100 * f + 100)
<1>1. b \in 0..4 /\ c \in 0..1 /\ (c = 1 => doe = 146096)
  BY SMT
<1>2. CASE c = 1
  BY SMT, <1>1, <1>2
<1>3. CASE c = 0 /\ b = 0
  BY SMT, <1>3
<1>4. CASE c = 0 /\ b = 1
  BY SMT, <1>4
<1>5. CASE c = 0 /\ b = 2
  BY SMT, <1>5
<1>6. CASE c = 0 /\ b = 3
  BY SMT, <1>6
<1>7. CASE c = 0 /\ b = 4
  BY SMT, <1>7
<1> QED
  BY SMT, <1>1, <1>2, <1>3, <1>4, <1>5, <1>6, <1>7

\* The quotients of a day exist, and make its date.
LEMMA DayFits ==
  ASSUME NEW h \in Nat
  PROVE  HasDate(DayNo(h), UnixToYmd(h))
<1> DEFINE z == (h \div Day) + 719468
           era == z \div 146097
           doe == z - era * 146097
           y == YearOfEra(doe)
           e == y \div 4
           f == y \div 100
           doy == doe - (365 * y + e - f)
           mp == (5 * doy + 2) \div 153
           g == (153 * mp + 2) \div 5
           a == doe \div 1460
           b == doe \div 36524
           c == doe \div 146096
<1>1. z \in Int /\ z = DayNo(h)
  BY SMT, Quotients DEF Day, IsQuot, DayNo
<1> HIDE DEF z
<1>2. era \in Int /\ 146097 * era <= z /\ z < 146097 * era + 146097
  BY SMT, <1>1, Quotients DEF IsQuot
<1> HIDE DEF era
<1>3. doe \in Int /\ z = 146097 * era + doe /\ 0 <= doe /\ doe <= 146096
  BY SMT, <1>1, <1>2
<1> HIDE DEF doe
<1>4. /\ a \in Int /\ 1460 * a <= doe /\ doe < 1460 * a + 1460
      /\ b \in Int /\ 36524 * b <= doe /\ doe < 36524 * b + 36524
      /\ c \in Int /\ 146096 * c <= doe /\ doe < 146096 * c + 146096
  BY SMT, <1>3, Quotients DEF IsQuot
<1>5. y = (doe - a + b - c) \div 365
  BY SMT DEF YearOfEra
<1> HIDE DEF a, b, c, y
<1>6. doe - a + b - c \in Int
  BY SMT, <1>3, <1>4
<1>7. y \in Int /\ 365 * y <= doe - a + b - c /\ doe - a + b - c < 365 * y + 365
  BY SMT, <1>5, <1>6, Quotients DEF IsQuot
<1>8. /\ e \in Int /\ 4 * e <= y /\ y < 4 * e + 4
      /\ f \in Int /\ 100 * f <= y /\ y < 100 * f + 100
  BY SMT, <1>7, Quotients DEF IsQuot
<1> HIDE DEF e, f
<1>9. doy \in Int /\ doy = doe - (365 * y + e - f)
  BY SMT, <1>3, <1>7, <1>8
<1> HIDE DEF doy
<1>10. /\ 0 <= y /\ y <= 399 /\ 0 <= doy /\ doy <= 365
       /\ doy = 365 => y = 399 \/ (y + 1 = 4 * e + 4 /\ y + 1 # 100 * f + 100)
  BY SMT, <1>3, <1>4, <1>7, <1>8, <1>9, YearFits
<1>11. mp \in Int /\ 153 * mp <= 5 * doy + 2 /\ 5 * doy + 2 < 153 * mp + 153
  <2>1. 5 * doy + 2 \in Int
    BY SMT, <1>9
  <2> QED
    BY SMT, <2>1, Quotients DEF IsQuot
<1> HIDE DEF mp
<1>12. g \in Int /\ 5 * g <= 153 * mp + 2 /\ 153 * mp + 2 < 5 * g + 5
  <2>1. 153 * mp + 2 \in Int
    BY SMT, <1>11
  <2> QED
    BY SMT, <2>1, Quotients DEF IsQuot
<1> HIDE DEF g
<1>13. z = 146097 * era + 365 * y + e - f + doy
  BY SMT, <1>1, <1>2, <1>3, <1>7, <1>8, <1>9
<1>14. Fits(z, era, y, e, f, doy, mp, g)
  BY SMTT(60), <1>8, <1>10, <1>11, <1>12, <1>13 DEF Fits, InEra, InMonth, LeapEnd
<1>15. UnixToYmd(h) = <<IF Month(mp) <= 2 THEN (y + era * 400) + 1 ELSE y + era * 400, Month(mp), doy - g + 1>>
  BY SMT DEF UnixToYmd, z, era, doe, y, e, f, doy, mp, g
<1>16. Month(mp) <= 2 <=> mp >= 10
  BY SMT, <1>9, <1>10, <1>11 DEF Month
<1>17. (y + era * 400) + 1 = y + 400 * era + 1 /\ y + era * 400 = y + 400 * era
  BY SMT, <1>2, <1>7
<1>18. UnixToYmd(h) = DateOf(era, y, doy, mp, g)
  BY SMT, <1>15, <1>16, <1>17 DEF DateOf, YearOf, EndYear
<1>19. z = DayNo(h) /\ era \in Int /\ y \in Int /\ e \in Int /\ f \in Int /\ doy \in Int /\ mp \in Int /\ g \in Int
  BY SMT, <1>1, <1>2, <1>7, <1>8, <1>9, <1>11, <1>12
<1> QED
  BY <1>14, <1>18, <1>19, Zenon DEF HasDate

-----------------------------------------------------------------------------
(* The calendar.                                                           *)

\* What the era arithmetic takes for a leap year is one in the Gregorian calendar.
LEMMA LeapYears ==
  ASSUME NEW era \in Int, NEW y \in Int, NEW e \in Int, NEW f \in Int, InEra(y, e, f)
  PROVE  Leap(EndYear(era, y)) <=> LeapEnd(y, e, f)
<1> DEFINE yy == EndYear(era, y)
<1>1. yy % 4 = 0 <=> y + 1 = 4 * e + 4
  BY SMT DEF InEra, EndYear
<1>2. yy % 100 = 0 <=> y + 1 = 100 * f + 100
  BY SMT DEF InEra, EndYear
<1>3. yy % 400 = 0 <=> y = 399
  BY SMT DEF InEra, EndYear
<1>4. yy \in Int
  BY SMT DEF EndYear
<1> HIDE DEF yy
<1>5. Leap(yy) <=> LeapEnd(y, e, f)
  BY SMT, <1>1, <1>2, <1>3, <1>4 DEF Leap, LeapEnd
<1> QED
  BY <1>5 DEF yy

\* No two days have the same date.
LEMMA SameDate ==
  ASSUME NEW z \in Int, NEW z2 \in Int, NEW date, HasDate(z, date), HasDate(z2, date)
  PROVE  z = z2
<1>a. PICK era, y, e, f, doy, mp, g \in Int :
        Fits(z, era, y, e, f, doy, mp, g) /\ date = DateOf(era, y, doy, mp, g)
  BY Zenon DEF HasDate
<1>b. PICK era2, y2, e2, f2, doy2, mp2, g2 \in Int :
        Fits(z2, era2, y2, e2, f2, doy2, mp2, g2) /\ date = DateOf(era2, y2, doy2, mp2, g2)
  BY Zenon DEF HasDate
<1>1. /\ YearOf(era, y, mp) = YearOf(era2, y2, mp2) /\ Month(mp) = Month(mp2)
      /\ doy - g + 1 = doy2 - g2 + 1
  BY SMT, <1>a, <1>b DEF DateOf
<1>2. mp \in 0..11 /\ mp2 \in 0..11
  BY SMT, <1>a, <1>b DEF Fits, InEra, InMonth, LeapEnd
<1>3. mp = mp2
  BY SMT, <1>1, <1>2 DEF Month
<1>4. g = g2 /\ doy = doy2
  BY SMT, <1>a, <1>b, <1>1, <1>3 DEF Fits, InEra, InMonth, LeapEnd
<1>5. y + 400 * era = y2 + 400 * era2
  BY SMT, <1>1, <1>3 DEF YearOf, EndYear
<1>6. era = era2 /\ y = y2
  BY SMT, <1>a, <1>b, <1>5 DEF Fits, InEra, InMonth, LeapEnd
<1>7. e = e2 /\ f = f2
  BY SMT, <1>a, <1>b, <1>6 DEF Fits, InEra, InMonth, LeapEnd
<1> QED
  BY SMT, <1>a, <1>b, <1>4, <1>6, <1>7 DEF Fits, InEra, InMonth, LeapEnd

\* From the last day of a year to the first one of the next.
Turns(era, y, e, f, doy, era2, y2, doy2) ==
  /\ y2 + 400 * era2 = EndYear(era, y) /\ doy2 = 0
  /\ doy = IF LeapEnd(y, e, f) THEN 365 ELSE 364

\* The first day of a month of the year that starts in March, and its length.
LEMMA MonthFits ==
  ASSUME NEW doy \in Int, NEW mp \in Int, NEW g \in Int, InMonth(doy, mp, g), NEW yy \in Int
  PROVE  /\ mp \in 0..11 /\ Month(mp) \in 1..12 /\ 1 <= doy - g + 1 /\ doy - g + 1 <= 31
         /\ mp # 11 => doy - g + 1 <= DaysIn(yy, Month(mp))
         /\ mp = 11 => g = 337 /\ DaysIn(yy, Month(mp)) = IF Leap(yy) THEN 29 ELSE 28
<1>1. mp \in 0..11 /\ 1 <= doy - g + 1 /\ doy - g + 1 <= 31
  BY SMT DEF InMonth
<1>2. Month(mp) \in 1..12
  BY SMT, <1>1 DEF Month
<1>3. CASE mp = 11
  <2>1. g = 337 /\ Month(mp) = 2
    BY SMT, <1>3 DEF Month, InMonth
  <2> QED
    BY SMT, <1>1, <1>2, <1>3, <2>1 DEF DaysIn
<1>4. CASE mp # 11
  <2>1. Month(mp) # 2
    BY SMT, <1>1, <1>4 DEF Month
  <2>2. Month(mp) \in {4, 6, 9, 11} => doy - g + 1 <= 30
    BY SMT, <1>1 DEF Month, InMonth
  <2>3. DaysIn(yy, Month(mp)) = IF Month(mp) \in {4, 6, 9, 11} THEN 30 ELSE 31
    BY SMT, <2>1 DEF DaysIn
  <2> QED
    BY SMT, <1>1, <1>2, <1>4, <2>2, <2>3
<1> QED
  BY SMT, <1>3, <1>4

\* The date of a day is a date of the calendar.
LEMMA DateFits ==
  ASSUME NEW z \in Int, NEW era \in Int, NEW y \in Int, NEW e \in Int, NEW f \in Int,
         NEW doy \in Int, NEW mp \in Int, NEW g \in Int, Fits(z, era, y, e, f, doy, mp, g)
  PROVE  /\ YearOf(era, y, mp) \in Int /\ mp \in 0..11 /\ Month(mp) \in 1..12
         /\ doy - g + 1 \in 1..DaysIn(YearOf(era, y, mp), Month(mp))
<1>1. YearOf(era, y, mp) \in Int
  BY SMT DEF YearOf, EndYear
<1>2. /\ mp \in 0..11 /\ Month(mp) \in 1..12 /\ 1 <= doy - g + 1
      /\ mp # 11 => doy - g + 1 <= DaysIn(YearOf(era, y, mp), Month(mp))
      /\ mp = 11 => g = 337 /\ DaysIn(YearOf(era, y, mp), Month(mp)) = IF Leap(YearOf(era, y, mp)) THEN 29 ELSE 28
  BY SMT, <1>1, MonthFits DEF Fits
<1>3. CASE mp = 11
  <2>1. YearOf(era, y, mp) = EndYear(era, y)
    BY SMT, <1>3 DEF YearOf, EndYear
  <2>2. Leap(YearOf(era, y, mp)) <=> LeapEnd(y, e, f)
    <3>1. InEra(y, e, f)
      BY SMT DEF Fits
    <3> QED
      BY <2>1, <3>1, LeapYears, Zenon
  <2>3. doy - g + 1 <= 29 /\ (doy - g + 1 = 29 => LeapEnd(y, e, f))
    BY SMT, <1>2, <1>3 DEF Fits, InEra, InMonth, LeapEnd
  <2> QED
    BY SMT, <1>1, <1>2, <1>3, <2>2, <2>3
<1>4. CASE mp # 11
  <2>1. DaysIn(YearOf(era, y, mp), Month(mp)) \in Int
    BY SMT DEF DaysIn
  <2> QED
    BY SMT, <1>1, <1>2, <1>4, <2>1
<1> QED
  BY SMT, <1>3, <1>4

IsNext(z2, z) == z2 = z + 1

\* The date of the next day is the next date.
LEMMA NextFits ==
  ASSUME NEW z \in Int, NEW z2 \in Int, IsNext(z2, z),
         NEW date, HasDate(z, date), NEW date2, HasDate(z2, date2)
  PROVE  date2 = NextDate(date)
<1>a. PICK era, y, e, f, doy, mp, g \in Int :
        Fits(z, era, y, e, f, doy, mp, g) /\ date = DateOf(era, y, doy, mp, g)
  BY Zenon DEF HasDate
<1>b. PICK era2, y2, e2, f2, doy2, mp2, g2 \in Int :
        Fits(z2, era2, y2, e2, f2, doy2, mp2, g2) /\ date2 = DateOf(era2, y2, doy2, mp2, g2)
  BY Zenon DEF HasDate
<1>c. SUFFICES DateOf(era2, y2, doy2, mp2, g2) = NextDate(DateOf(era, y, doy, mp, g))
  BY <1>a, <1>b, Zenon
<1> DEFINE yy == YearOf(era, y, mp)
           d == doy - g + 1
           n == DaysIn(yy, Month(mp))
<1>1. NextDate(DateOf(era, y, doy, mp, g)) =
        IF d < n THEN <<yy, Month(mp), d + 1>>
        ELSE IF Month(mp) < 12 THEN <<yy, Month(mp) + 1, 1>> ELSE <<yy + 1, 1, 1>>
  BY SMT DEF NextDate, DateOf
<1>2. yy \in Int /\ mp \in 0..11 /\ d \in 1..n
  BY <1>a, DateFits, Zenon
<1>3. n = IF Month(mp) = 2 THEN IF Leap(yy) THEN 29 ELSE 28 ELSE IF Month(mp) \in {4, 6, 9, 11} THEN 30 ELSE 31
  BY SMT DEF DaysIn
<1>4. CASE era2 = era /\ y2 = y /\ doy2 = doy + 1
  <2>1. mp2 = mp \/ mp2 = mp + 1
    BY SMT, <1>a, <1>b, <1>4 DEF Fits, InEra, InMonth, LeapEnd, IsNext
  <2>2. CASE mp2 = mp
    <3>1. g2 = g /\ YearOf(era2, y2, mp2) = yy
      BY SMT, <1>a, <1>b, <1>4, <2>2 DEF Fits, InEra, InMonth, LeapEnd, YearOf, EndYear
    <3>2. doy2 - g2 + 1 \in 1..DaysIn(YearOf(era2, y2, mp2), Month(mp2)) /\ doy2 - g2 + 1 = d + 1
      <4>1. doy2 - g2 + 1 \in 1..DaysIn(YearOf(era2, y2, mp2), Month(mp2))
        BY <1>b, DateFits, Zenon
      <4>2. doy2 - g2 + 1 = d + 1
        BY SMT, <1>4, <3>1
      <4> QED
        BY <4>1, <4>2, Zenon
    <3>3. d < n
      BY SMTT(60), <1>2, <1>3, <2>2, <3>1, <3>2
    <3> QED
      BY SMTT(60), <1>1, <2>2, <3>1, <3>2, <3>3 DEF DateOf
  <2>3. CASE mp2 = mp + 1
    <3>1. Month(mp) # 2 /\ Month(mp2) = (IF Month(mp) < 12 THEN Month(mp) + 1 ELSE 1)
      BY SMT, <1>a, <1>b, <1>2, <2>3 DEF Fits, InEra, InMonth, LeapEnd, Month
    <3>2. YearOf(era2, y2, mp2) = IF Month(mp) < 12 THEN yy ELSE yy + 1
      BY SMTT(60), <1>2, <1>4, <2>3 DEF YearOf, EndYear, Month
    <3>3. doy2 - g2 + 1 = 1 /\ d = IF Month(mp) \in {4, 6, 9, 11} THEN 30 ELSE 31
      BY SMT, <1>a, <1>b, <1>2, <1>4, <2>3 DEF Fits, InEra, InMonth, LeapEnd, Month
    <3>4. ~(d < n)
      BY SMT, <1>3, <3>1, <3>3
    <3> QED
      BY SMTT(60), <1>1, <3>1, <3>2, <3>3, <3>4 DEF DateOf
  <2> QED
    BY SMT, <2>1, <2>2, <2>3
<1>5. CASE Turns(era, y, e, f, doy, era2, y2, doy2)
  <2>1. mp = 11 /\ g = 337 /\ mp2 = 0 /\ g2 = 0
    BY SMT, <1>a, <1>b, <1>5 DEF Fits, InEra, InMonth, LeapEnd, Turns
  <2>2. yy = EndYear(era, y) /\ YearOf(era2, y2, mp2) = yy
    BY SMT, <1>5, <2>1 DEF YearOf, EndYear, Turns
  <2>3. Leap(yy) <=> LeapEnd(y, e, f)
    <3>1. InEra(y, e, f)
      BY SMT, <1>a, <1>b DEF Fits
    <3>2. Leap(EndYear(era, y)) <=> LeapEnd(y, e, f)
      BY SMT, <3>1, LeapYears
    <3> QED
      BY <2>2, <3>2, Zenon
  <2>4. Month(mp) = 2 /\ Month(mp2) = 3
    BY SMT, <2>1 DEF Month
  <2>5. d = n
    BY SMT, <1>3, <1>5, <2>1, <2>3, <2>4 DEF Turns
  <2> QED
    BY SMTT(60), <1>1, <1>5, <2>1, <2>2, <2>4, <2>5 DEF DateOf, Turns
<1>6. (era2 = era /\ y2 = y /\ doy2 = doy + 1) \/ Turns(era, y, e, f, doy, era2, y2, doy2)
  <2>1. era2 = era \/ era2 = era + 1
    BY SMT, <1>a, <1>b DEF Fits, InEra, InMonth, LeapEnd, Turns, EndYear, IsNext
  <2>2. CASE era2 = era + 1
    BY SMT, <1>a, <1>b, <2>2 DEF Fits, InEra, InMonth, LeapEnd, Turns, EndYear, IsNext
  <2>3. CASE era2 = era
    <3>1. y2 = y \/ y2 = y + 1
      BY SMT, <1>a, <1>b, <2>3 DEF Fits, InEra, InMonth, LeapEnd, Turns, EndYear, IsNext
    <3>2. CASE y2 = y
      BY SMT, <1>a, <1>b, <2>3, <3>2 DEF Fits, InEra, InMonth, LeapEnd, Turns, EndYear, IsNext
    <3>3. CASE y2 = y + 1
      BY SMT, <1>a, <1>b, <2>3, <3>3 DEF Fits, InEra, InMonth, LeapEnd, Turns, EndYear, IsNext
    <3> QED
      BY SMT, <3>1, <3>2, <3>3
  <2> QED
    BY SMT, <2>1, <2>2, <2>3
<1> QED
  BY <1>4, <1>5, <1>6, Zenon

\* A day later, the number of the day is one more.
LEMMA DayNumbers ==
  ASSUME NEW h \in Nat
  PROVE  DayNo(h) \in Int /\ IsNext(DayNo(h + 24), DayNo(h))
<1>1. h \in Int /\ h + 24 \in Int
  BY SMT
<1>2. IsQuot(h \div 24, h, 24) /\ IsQuot((h + 24) \div 24, h + 24, 24)
  BY SMT, <1>1, Quotients
<1> QED
  BY SMT, <1>1, <1>2 DEF IsQuot, DayNo, IsNext

\* The date is that of the day.
LEMMA OneDatePerDay ==
  ASSUME NEW h \in Nat, NEW k \in Nat
  PROVE  UnixToYmd(h) = UnixToYmd(k) <=> DayNo(h) = DayNo(k)
<1>1. ASSUME DayNo(h) = DayNo(k) PROVE UnixToYmd(h) = UnixToYmd(k)
  <2>1. h \div 24 \in Int /\ k \div 24 \in Int
    BY SMT
  <2>2. h \div 24 = k \div 24
    BY SMT, <1>1, <2>1 DEF DayNo
  <2> QED
    BY SMT, <2>2 DEF UnixToYmd, Day
<1>2. ASSUME UnixToYmd(h) = UnixToYmd(k) PROVE DayNo(h) = DayNo(k)
  <2>1. DayNo(h) \in Int /\ DayNo(k) \in Int
    BY DayNumbers, Zenon
  <2>2. HasDate(DayNo(h), UnixToYmd(h)) /\ HasDate(DayNo(k), UnixToYmd(h))
    BY <1>2, DayFits, Zenon
  <2> QED
    BY <2>1, <2>2, SameDate, Zenon
<1> QED
  BY <1>1, <1>2, Zenon

\* The date of an hour is a date of the calendar.
LEMMA DateValid ==
  ASSUME NEW h \in Nat
  PROVE  /\ UnixToYmd(h)[1] \in Int /\ UnixToYmd(h)[2] \in 1..12
         /\ UnixToYmd(h)[3] \in 1..DaysIn(UnixToYmd(h)[1], UnixToYmd(h)[2])
<1>1. PICK era, y, e, f, doy, mp, g \in Int :
        Fits(DayNo(h), era, y, e, f, doy, mp, g) /\ UnixToYmd(h) = DateOf(era, y, doy, mp, g)
  BY DayFits, Zenon DEF HasDate
<1>2. DayNo(h) \in Int
  BY DayNumbers, Zenon
<1>3. /\ YearOf(era, y, mp) \in Int /\ Month(mp) \in 1..12
      /\ doy - g + 1 \in 1..DaysIn(YearOf(era, y, mp), Month(mp))
  BY <1>1, <1>2, DateFits, Zenon
<1>4. UnixToYmd(h) = <<YearOf(era, y, mp), Month(mp), doy - g + 1>>
  BY <1>1, Zenon DEF DateOf
<1> QED
  BY SMT, <1>3, <1>4

\* unix_to_ymd_utc is the Gregorian calendar, for every time after 1970-01-01: this
\* is the date of hour 0, and a day later it is the next date.
THEOREM CalendarIsGregorian ==
  /\ UnixToYmd(0) = <<1970, 1, 1>>
  /\ \A h \in Nat : UnixToYmd(h + 24) = NextDate(UnixToYmd(h))
<1>1. UnixToYmd(0) = <<1970, 1, 1>>
  BY SMT DEF UnixToYmd, Day, YearOfEra, Month
<1>2. ASSUME NEW h \in Nat PROVE UnixToYmd(h + 24) = NextDate(UnixToYmd(h))
  <2>0. h + 24 \in Nat
    BY SMT
  <2>1. DayNo(h) \in Int /\ DayNo(h + 24) \in Int /\ IsNext(DayNo(h + 24), DayNo(h))
    BY <2>0, DayNumbers, Zenon
  <2>2. HasDate(DayNo(h), UnixToYmd(h)) /\ HasDate(DayNo(h + 24), UnixToYmd(h + 24))
    BY <2>0, DayFits, Zenon
  <2> QED
    BY SMT, <2>1, <2>2, NextFits
<1> QED
  BY SMTT(60), <1>1, <1>2

-----------------------------------------------------------------------------
(* Daylight saving.                                                        *)

\* The Sundays of a month whose first day is weekday dow, on its day d, which is
\* weekday w.
Sundays(d, w) == IF d <= w THEN 0 ELSE (d - w - 1) \div 7 + 1

\* The first and the second Sunday of a month, counted from the weekday of its first.
LEMMA SundaysCounted ==
  ASSUME NEW d \in 1..31, NEW w \in 0..6, NEW dow \in 0..6, NEW k \in Int, w - (d - 1) - dow = 7 * k
  PROVE  /\ d >= FirstSunday(dow) + 7 <=> Sundays(d, w) >= 2
         /\ d < FirstSunday(dow) <=> Sundays(d, w) = 0
<1>1. (d - w - 1) \div 7 \in Int /\ 7 * ((d - w - 1) \div 7) <= d - w - 1 /\ d - w - 1 < 7 * ((d - w - 1) \div 7) + 7
  <2>1. d - w - 1 \in Int
    BY SMT
  <2> QED
    BY SMT, <2>1, Quotients DEF IsQuot
<1>2. PICK s \in Int : s = (d - w - 1) \div 7
  BY <1>1, Zenon
<1>3. Sundays(d, w) = IF d <= w THEN 0 ELSE s + 1
  BY SMT, <1>2 DEF Sundays
<1>4. FirstSunday(dow) = IF dow = 0 THEN 1 ELSE 8 - dow
  BY SMT DEF FirstSunday
<1>5. 7 * s <= d - w - 1 /\ d - w - 1 < 7 * s + 7
  BY SMT, <1>1, <1>2
<1> QED
  BY SMTT(60), <1>3, <1>4, <1>5

\* The day of the week of an hour, and the one that nth_sunday_of_month computes
\* (Sakamoto's rule) for the first day of March or November of a year.
WeekdayOf(h) == ((h \div Day) + 4) % 7
FirstDow(yy) == (yy + (yy \div 4) - (yy \div 100) + (yy \div 400) + 2 + 1) % 7

\* The two agree, doy days after the first of March.
Agree(h, yy, doy) ==
  /\ WeekdayOf(h) \in 0..6 /\ FirstDow(yy) \in 0..6
  /\ \E k \in Int : WeekdayOf(h) - doy - FirstDow(yy) = 7 * k

\* The calendar year in which the year that starts in March starts.
StartYear(era, y) == y + 400 * era

\* The weekday formula for the first of March agrees with counting days from 1970.
LEMMA FirstWeekday ==
  ASSUME NEW h \in Nat, NEW era \in Int, NEW y \in Int, NEW e \in Int, NEW f \in Int,
         NEW doy \in Int, NEW mp \in Int, NEW g \in Int, Fits(DayNo(h), era, y, e, f, doy, mp, g)
  PROVE  Agree(h, StartYear(era, y), doy)
<1> DEFINE yy == StartYear(era, y)
           w == WeekdayOf(h)
           dow == FirstDow(yy)
<1>0. yy \in Int /\ yy = y + 400 * era
  BY SMT DEF StartYear
<1> HIDE DEF yy
<1>1. yy \div 4 = e + 100 * era
  BY SMT, <1>0 DEF Fits, InEra
<1>2. yy \div 100 = f + 4 * era
  BY SMT, <1>0 DEF Fits, InEra
<1>3. yy \div 400 = era
  BY SMT, <1>0 DEF Fits, InEra
<1>4. PICK x \in Int : x = y + e - f + 497 * era + 3
  BY SMT
<1>5. dow = x % 7
  <2>1. yy + (yy \div 4) - (yy \div 100) + (yy \div 400) + 2 + 1 = x
    BY SMTT(60), <1>0, <1>1, <1>2, <1>3, <1>4
  <2> QED
    BY SMT, <2>1 DEF FirstDow
<1>6. PICK q \in Int : x % 7 = x - 7 * q /\ x % 7 \in 0..6
  BY SMT
<1>7. PICK n \in Int : n = (h \div Day) + 4
  BY SMT DEF Day
<1>8. PICK p \in Int : n % 7 = n - 7 * p /\ n % 7 \in 0..6
  BY SMT
<1>9. n = 146097 * era + 365 * y + e - f + doy - 719464
  BY SMT, <1>7 DEF Fits, DayNo, Day
<1>10. (n - 7 * p) - doy - (x - 7 * q) = 7 * (20800 * era + 52 * y - 102781 - p + q)
  BY SMT, <1>4, <1>9
<1>11. PICK k \in Int : k = 20800 * era + 52 * y - 102781 - p + q
  BY SMT
<1>12. w = n - 7 * p /\ w \in 0..6
  BY SMT, <1>7, <1>8 DEF WeekdayOf
<1>13. dow = x - 7 * q /\ dow \in 0..6
  BY SMT, <1>5, <1>6
<1> HIDE DEF w, dow
<1>14. w - doy - dow = 7 * k
  BY SMT, <1>10, <1>11, <1>12, <1>13
<1>15. w \in 0..6 /\ dow \in 0..6 /\ \E j \in Int : w - doy - dow = 7 * j
  BY <1>12, <1>13, <1>14, Zenon
<1> QED
  BY <1>15, Zenon DEF Agree, w, dow, yy

\* pacific_is_dst is right on every day.
LEMMA DstSound ==
  ASSUME qdHour \in Nat
  PROVE  DstByWeekday
<1>1. PICK era, y, e, f, doy, mp, g \in Int :
        Fits(DayNo(qdHour), era, y, e, f, doy, mp, g) /\ UnixToYmd(qdHour) = DateOf(era, y, doy, mp, g)
  BY DayFits, Zenon DEF HasDate
<1> DEFINE d == doy - g + 1
           year == YearOf(era, y, mp)
<1>2. UnixToYmd(qdHour) = <<year, Month(mp), d>>
  BY <1>1, Zenon DEF DateOf
<1>3. DayNo(qdHour) \in Int
  BY DayNumbers, Zenon
<1>4. year \in Int /\ mp \in 0..11 /\ Month(mp) \in 1..12 /\ d \in 1..DaysIn(year, Month(mp))
  BY <1>1, <1>3, DateFits, Zenon
<1>5. d \in 1..31
  BY SMTT(60), <1>4 DEF DaysIn
<1>6. SUFFICES PacificIsDst(<<year, Month(mp), d>>) <=>
                 \/ Month(mp) \in 4..10
                 \/ Month(mp) = 3 /\ Sundays(d, Weekday) >= 2
                 \/ Month(mp) = 11 /\ Sundays(d, Weekday) = 0
  BY SMTT(60), <1>2 DEF DstByWeekday, SundaysSoFar, Sundays
<1>7. PacificIsDst(<<year, Month(mp), d>>) <=>
        \/ Month(mp) \in 4..10
        \/ Month(mp) = 3 /\ d >= NthSunday(year, 3, 2)
        \/ Month(mp) = 11 /\ d < NthSunday(year, 11, 1)
  BY SMT DEF PacificIsDst
<1> DEFINE dow == FirstDow(year)
<1>8. ASSUME Month(mp) \in {3, 11}
      PROVE  Weekday \in 0..6 /\ dow \in 0..6 /\ \E k \in Int : Weekday - (d - 1) - dow = 7 * k
  <2>1. mp \in {0, 8} /\ year = StartYear(era, y)
    BY SMT, <1>4, <1>8 DEF Month, YearOf, StartYear
  <2>2. g = 0 \/ g = 245
    BY SMT, <1>1, <2>1 DEF Fits, InMonth
  <2>3. Agree(qdHour, year, doy)
    <3>1. Agree(qdHour, StartYear(era, y), doy)
      BY <1>1, FirstWeekday, Zenon
    <3> QED
      BY <2>1, <3>1, Zenon
  <2>4. Weekday \in 0..6 /\ dow \in 0..6 /\ \E k \in Int : Weekday - doy - dow = 7 * k
    BY <2>3, Zenon DEF Agree, WeekdayOf, Weekday
  <2> HIDE DEF dow
  <2>5. PICK k \in Int : Weekday - doy - dow = 7 * k
    BY <2>4, Zenon
  <2>6. PICK j \in Int : j = IF g = 0 THEN k ELSE k + 35
    BY SMT
  <2>7. Weekday - (d - 1) - dow = 7 * j
    BY SMTT(60), <2>2, <2>4, <2>5, <2>6
  <2> QED
    BY <2>4, <2>7, Zenon
<1>9. NthSunday(year, 3, 2) = FirstSunday(dow) + 7 /\ NthSunday(year, 11, 1) = FirstSunday(dow)
  <2>1. FirstSunday(dow) \in Int
    BY SMTT(60), <1>4 DEF FirstSunday, FirstDow
  <2> QED
    BY SMTT(60), <1>4, <2>1 DEF NthSunday, Sakamoto, FirstDow
<1> HIDE DEF dow
<1>10. ASSUME Month(mp) \in {3, 11}
       PROVE  /\ d >= FirstSunday(dow) + 7 <=> Sundays(d, Weekday) >= 2
              /\ d < FirstSunday(dow) <=> Sundays(d, Weekday) = 0
  <2>1. PICK k \in Int : Weekday - (d - 1) - dow = 7 * k
    BY <1>8, <1>10
  <2> QED
    BY SMTT(60), <1>5, <1>8, <1>10, <2>1, SundaysCounted
<1> QED
  BY SMT, <1>7, <1>9, <1>10

-----------------------------------------------------------------------------
(* The Pacific date.                                                       *)

\* Days advance with the hours, and by at most one in 24 of them.
LEMMA DayOrder ==
  ASSUME NEW a \in Nat, NEW b \in Nat
  PROVE  /\ a <= b => DayNo(a) <= DayNo(b)
         /\ a <= b /\ b <= a + 24 => DayNo(b) = DayNo(a) \/ IsNext(DayNo(b), DayNo(a))
<1>1. IsQuot(a \div 24, a, 24) /\ IsQuot(b \div 24, b, 24)
  BY SMT, Quotients
<1>2. PICK p \in Int, q \in Int : p = a \div 24 /\ q = b \div 24 /\ IsQuot(p, a, 24) /\ IsQuot(q, b, 24)
  BY <1>1, Zenon DEF IsQuot
<1>3. DayNo(a) = p + 719468 /\ DayNo(b) = q + 719468
  BY SMT, <1>2 DEF DayNo
<1> QED
  BY SMT, <1>2, <1>3 DEF IsQuot, IsNext

\* In less than a day the date stays or becomes the next one.
LEMMA DateSteps ==
  ASSUME NEW a \in Nat, NEW b \in Nat, a <= b, b <= a + 24
  PROVE  UnixToYmd(b) \in {UnixToYmd(a), NextDate(UnixToYmd(a))}
<1>1. DayNo(a) \in Int /\ DayNo(b) \in Int
  BY DayNumbers, Zenon
<1>2. CASE DayNo(b) = DayNo(a)
  BY <1>2, OneDatePerDay, Zenon
<1>3. CASE IsNext(DayNo(b), DayNo(a))
  <2>1. HasDate(DayNo(a), UnixToYmd(a)) /\ HasDate(DayNo(b), UnixToYmd(b))
    BY DayFits, Zenon
  <2>2. UnixToYmd(b) = NextDate(UnixToYmd(a))
    BY <1>1, <1>3, <2>1, NextFits, Zenon
  <2> QED
    BY <2>2, Zenon
<1> QED
  BY <1>2, <1>3, DayOrder, Zenon

\* The offset is that of the day in standard time.
LEMMA Offset ==
  ASSUME NEW h \in Nat
  PROVE  /\ UnixToPt(h) \in Nat
         /\ UnixToPt(h) = (IF h < 7 THEN 0 ELSE h - 7) \/ UnixToPt(h) = (IF h < 8 THEN 0 ELSE h - 8)
         /\ h >= 8 => UnixToPt(h) = IF PacificIsDst(UnixToYmd(h - 8)) THEN h - 7 ELSE h - 8
<1>1. Saturating(h, 7) = (IF h < 7 THEN 0 ELSE h - 7) /\ Saturating(h, 8) = (IF h < 8 THEN 0 ELSE h - 8)
  BY SMT DEF Saturating
<1>2. UnixToPt(h) = IF PacificIsDst(UnixToYmd(Saturating(h, 8))) THEN Saturating(h, 7) ELSE Saturating(h, 8)
  BY SMT DEF UnixToPt, StandardTime
<1>3. CASE PacificIsDst(UnixToYmd(Saturating(h, 8)))
  BY SMT, <1>1, <1>2, <1>3
<1>4. CASE ~PacificIsDst(UnixToYmd(Saturating(h, 8)))
  BY SMT, <1>1, <1>2, <1>4
<1> QED
  BY <1>3, <1>4, Zenon

\* Pacific Time never goes back, and gains at most an hour.
LEMMA PtOrder ==
  ASSUME NEW h \in Nat, NEW k \in Nat, h <= k
  PROVE  UnixToPt(h) <= UnixToPt(k) /\ UnixToPt(k) <= UnixToPt(h) + (k - h) + 1
<1>1. CASE h = k
  BY SMT, <1>1, Offset
<1>2. CASE h # k
  <2>1. /\ UnixToPt(h) = (IF h < 7 THEN 0 ELSE h - 7) \/ UnixToPt(h) = (IF h < 8 THEN 0 ELSE h - 8)
        /\ UnixToPt(k) = (IF k < 7 THEN 0 ELSE k - 7) \/ UnixToPt(k) = (IF k < 8 THEN 0 ELSE k - 8)
    BY Offset, Zenon
  <2> QED
    BY SMT, <1>2, <2>1
<1> QED
  BY <1>1, <1>2, Zenon

\* A Pacific date that is over does not come back.
LEMMA NoReturn ==
  ASSUME NEW h \in Nat, NEW k \in Nat, NEW m \in Nat, h <= k, k <= m, PtDay(h) = PtDay(m)
  PROVE  PtDay(k) = PtDay(m)
<1>1. UnixToPt(h) \in Nat /\ UnixToPt(k) \in Nat /\ UnixToPt(m) \in Nat
  BY Offset, Zenon
<1>2. UnixToPt(h) <= UnixToPt(k) /\ UnixToPt(k) <= UnixToPt(m)
  BY PtOrder, Zenon
<1>3. DayNo(UnixToPt(h)) = DayNo(UnixToPt(m))
  BY <1>1, OneDatePerDay, Zenon DEF PtDay
<1>4. DayNo(UnixToPt(h)) <= DayNo(UnixToPt(k)) /\ DayNo(UnixToPt(k)) <= DayNo(UnixToPt(m))
  BY <1>1, <1>2, DayOrder, Zenon
<1>5. DayNo(UnixToPt(h)) \in Int /\ DayNo(UnixToPt(k)) \in Int /\ DayNo(UnixToPt(m)) \in Int
  BY <1>1, DayNumbers, Zenon
<1>6. DayNo(UnixToPt(k)) = DayNo(UnixToPt(m))
  BY SMTT(60), <1>3, <1>4, <1>5
<1> QED
  BY <1>1, <1>6, OneDatePerDay, Zenon DEF PtDay

\* The hour at which the day of hour a starts, and the hours of a day and after it.
DayStart(a) == 24 * (a \div 24)
Within(b, s) == s <= b /\ b < s + 24
After(b, s) == b >= s + 24

\* The hours of one day.
LEMMA DayBounds ==
  ASSUME NEW a \in Nat, NEW b \in Nat
  PROVE  /\ DayStart(a) \in Int /\ Within(a, DayStart(a))
         /\ Within(b, DayStart(a)) => DayNo(b) = DayNo(a)
         /\ After(b, DayStart(a)) => DayNo(b) # DayNo(a)
<1>1. IsQuot(a \div 24, a, 24) /\ IsQuot(b \div 24, b, 24)
  BY SMT, Quotients
<1>2. PICK p \in Int, q \in Int : p = a \div 24 /\ q = b \div 24 /\ IsQuot(p, a, 24) /\ IsQuot(q, b, 24)
  BY <1>1, Zenon DEF IsQuot
<1>3. DayNo(a) = p + 719468 /\ DayNo(b) = q + 719468 /\ DayStart(a) = 24 * p
  BY SMT, <1>2 DEF DayNo, DayStart
<1> QED
  BY SMTT(60), <1>2, <1>3 DEF IsQuot, Within, After

\* seconds_until_pacific_midnight is right to the hour.
LEMMA CountdownSound ==
  ASSUME qdHour \in Nat, qdHour >= 8
  PROVE  CountdownWithinAnHour
<1>1. PICK h \in Nat : h = qdHour /\ h >= 8
  BY Zenon
<1>2. PICK p \in Nat : p = UnixToPt(h)
  BY Offset, Zenon
<1>3. PICK s \in Int : s = DayStart(p) /\ s <= p /\ p < s + 24
  BY DayBounds, Zenon DEF Within
<1>4. PICK n \in Nat : n = s + 24 - p /\ n \in 1..24 /\ UntilPacificMidnight(h) = n
  <2>1. p % 24 = p - s
    BY SMT, <1>3 DEF DayStart
  <2>2. UntilPacificMidnight(h) = 24 - (p - s)
    BY SMT, <1>2, <2>1 DEF UntilPacificMidnight, Day
  <2>3. 24 - (p - s) = s + 24 - p /\ s + 24 - p \in 1..24 /\ s + 24 - p \in Nat
    BY SMT, <1>3
  <2> QED
    BY <2>2, <2>3, Zenon
<1>5. PICK k \in Nat : k = h + n + 1
  BY SMT
<1>6. PICK m \in Nat : m = h + n - 1 /\ m >= h
  BY SMT, <1>4
<1>7. UnixToPt(k) \in Nat /\ UnixToPt(m) \in Nat
  BY Offset, Zenon
<1>8. p = h - 7 \/ p = h - 8
  BY SMT, <1>1, <1>2, Offset
<1>9. UnixToPt(k) >= k - 8
  BY SMT, <1>7, Offset
<1>10. DayNo(UnixToPt(k)) # DayNo(p)
  <2>1. After(UnixToPt(k), s)
    BY SMTT(60), <1>4, <1>5, <1>7, <1>8, <1>9 DEF After
  <2> QED
    BY <1>3, <1>7, <2>1, DayBounds, Zenon
<1>11. UnixToPt(m) < s + 24
  <2>1. UnixToPt(m) = m - 7 \/ UnixToPt(m) = m - 8
    BY SMTT(60), <1>1, <1>6, Offset
  <2>2. CASE p = h - 7
    BY SMTT(60), <1>4, <1>6, <1>7, <2>1, <2>2
  <2>3. CASE p # h - 7
    <3>1. PICK a \in Nat : a = h - 8 /\ a = p
      BY <1>8, <2>3, Zenon
    <3>2. PICK b \in Nat : b = m - 8 /\ s <= b /\ b < s + 24
      BY SMTT(60), <1>3, <1>4, <1>6, <1>8, <2>3
    <3>3. DayNo(b) = DayNo(a)
      BY <1>3, <3>1, <3>2, DayBounds, Zenon DEF Within
    <3>4. UnixToYmd(b) = UnixToYmd(a)
      BY <3>3, OneDatePerDay, Zenon
    <3>5. ~PacificIsDst(UnixToYmd(a))
      <4>1. p = IF PacificIsDst(UnixToYmd(h - 8)) THEN h - 7 ELSE h - 8
        BY <1>1, <1>2, Offset, Zenon
      <4> QED
        BY <2>3, <3>1, <4>1, Zenon
    <3>6. UnixToPt(m) = IF PacificIsDst(UnixToYmd(m - 8)) THEN m - 7 ELSE m - 8
      <4>1. m >= 8
        BY SMT, <1>1, <1>6
      <4> QED
        BY <4>1, Offset, Zenon
    <3>7. UnixToPt(m) = b
      BY <3>2, <3>4, <3>5, <3>6, Zenon
    <3> QED
      BY <3>2, <3>7, Zenon
  <2> QED
    BY <2>2, <2>3, Zenon
<1>12. s <= UnixToPt(m)
  <2>1. p <= UnixToPt(m)
    BY <1>2, <1>6, PtOrder, Zenon
  <2> QED
    BY SMT, <1>3, <1>7, <2>1
<1>13. DayNo(UnixToPt(m)) = DayNo(p)
  BY <1>3, <1>7, <1>11, <1>12, DayBounds, Zenon DEF Within
<1>14. PtDay(k) # PtDay(h) /\ PtDay(m) = PtDay(h)
  BY <1>2, <1>7, <1>10, <1>13, OneDatePerDay, Zenon DEF PtDay
<1> QED
  BY <1>1, <1>4, <1>5, <1>6, <1>14, Zenon DEF CountdownWithinAnHour, Day

-----------------------------------------------------------------------------
(* The counter.                                                            *)

\* The threads that have still to count their call.
Busy(pc) == {r \in Recorders : pc[r] \in {"call", "add"}}

\* A date that was the Pacific date at some time up to hour h.
WasDate(date, h) == \E k \in 0..h : date = PtDay(k)

\* While no midnight has met a thread that is counting: such a thread has
\* today's date, the key is today's date once it was compared with it, and if it
\* is not, nobody has counted today.
Exact ==
  /\ \A r \in Recorders : qdPc[r] \in {"call", "snapshot"} => qdToday[r] = PtDay(qdHour)
  /\ \A r \in Recorders : qdPc[r] = "add" => qdKey = PtDay(qdHour)
  /\ qdKey = PtDay(qdHour) => qdCalls = qdDone
  /\ qdKey # PtDay(qdHour) => qdDone = 0

\* No more calls are counted than were begun.
Budget ==
  /\ qdTotal <= MaxCalls
  /\ qdCalls + Cardinality(Busy(qdPc)) <= qdTotal /\ qdDone + Cardinality(Busy(qdPc)) <= qdTotal

QdTypes ==
  /\ qdStart \in Starts /\ qdHour \in Nat /\ qdHour >= 8
  /\ qdPc \in [Recorders -> {"idle", "call", "snapshot", "add"}] /\ DOMAIN qdToday = Recorders
  /\ qdCalls \in Nat /\ qdDone \in Nat /\ qdTotal \in Nat /\ qdStraddled \in BOOLEAN

Dated ==
  /\ WasDate(qdKey, qdHour)
  /\ \A r \in Recorders : qdPc[r] \in {"call", "snapshot"} => WasDate(qdToday[r], qdHour)

QdInv == QdTypes /\ Dated /\ Budget /\ (~qdStraddled => Exact)

\* The recorders that have still to count are finitely many.
LEMMA BusyCounted ==
  ASSUME NEW pc
  PROVE  IsFiniteSet(Busy(pc)) /\ Cardinality(Busy(pc)) \in Nat
<1>1. Busy(pc) \in SUBSET Recorders
  BY Zenon DEF Busy
<1> QED
  BY <1>1, QuotaAssumption, FS_Subset, FS_CardinalityType, Zenon DEF QuotaAssumption

\* A date that has been stays one that has been.
LEMMA StillWas ==
  ASSUME NEW date, NEW h \in Nat, NEW k \in Nat, h <= k, WasDate(date, h)
  PROVE  WasDate(date, k)
<1>1. PICK j \in 0..h : date = PtDay(j)
  BY Zenon DEF WasDate
<1>2. j \in 0..k
  BY SMT
<1> QED
  BY <1>1, <1>2, Zenon DEF WasDate

\* The date of now is one that has been.
LEMMA IsDate ==
  ASSUME NEW h \in Nat
  PROVE  WasDate(PtDay(h), h)
<1>1. h \in 0..h
  BY SMT
<1> QED
  BY <1>1, Zenon DEF WasDate

\* The clock: after a midnight the key is yesterday's, or older.
LEMMA TickKeeps ==
  ASSUME QdInv, ClockTicks
  PROVE  QdInv'
<1> DEFINE midnight == PtDay(qdHour') # PtDay(qdHour)
<1>1. /\ qdHour' = qdHour + qdStart.step
      /\ qdDone' = IF midnight THEN 0 ELSE qdDone
      /\ qdStraddled' = (qdStraddled \/ (midnight /\ \E r \in Recorders : qdPc[r] # "idle"))
      /\ UNCHANGED <<qdStart, qdKey, qdCalls, qdPc, qdToday, qdTotal>>
  BY Zenon DEF ClockTicks
<1>2. qdStart.step \in 1..23
  BY QuotaAssumption, Zenon DEF QuotaAssumption, QdInv, QdTypes
<1>3. qdHour \in Nat /\ qdHour' \in Nat /\ qdHour' >= 8 /\ qdHour <= qdHour'
  BY SMT, <1>1, <1>2 DEF QdInv, QdTypes
<1>4. qdDone' \in Nat /\ qdDone' <= qdDone
  BY SMT, <1>1 DEF QdInv, QdTypes
<1>5. QdTypes'
  <2>1. qdStraddled' \in BOOLEAN
    BY <1>1, Zenon
  <2> QED
    BY <1>1, <1>3, <1>4, <2>1, Zenon DEF QdInv, QdTypes
<1>6. \A date : WasDate(date, qdHour) => WasDate(date, qdHour')
  <2>1. \A h, k \in Nat : h <= k => \A date : WasDate(date, h) => WasDate(date, k)
    BY StillWas, Zenon
  <2> QED
    BY <1>3, <2>1, Zenon
<1>7. Dated'
  BY <1>1, <1>6, Zenon DEF QdInv, Dated
<1>8. Budget'
  <2>1. Cardinality(Busy(qdPc)) \in Nat
    BY BusyCounted, Zenon
  <2>2. Busy(qdPc)' = Busy(qdPc)
    BY <1>1, Zenon DEF Busy
  <2> QED
    BY SMTT(60), <1>1, <1>4, <2>1, <2>2 DEF QdInv, Budget, QdTypes
<1>9. ASSUME ~qdStraddled' PROVE Exact'
  <2>1. ~qdStraddled /\ (midnight => \A r \in Recorders : qdPc[r] = "idle") /\ Exact
    BY <1>1, <1>9, Zenon DEF QdInv
  <2>2. CASE ~midnight
    BY <1>1, <2>1, <2>2, Zenon DEF Exact
  <2>3. CASE midnight
    <3>1. \A r \in Recorders : qdPc'[r] = "idle"
      BY <1>1, <2>1, <2>3, Zenon
    <3>2. qdKey # PtDay(qdHour')
      <4>1. SUFFICES ASSUME qdKey = PtDay(qdHour') PROVE FALSE
        BY Zenon
      <4>2. PICK k \in 0..qdHour : qdKey = PtDay(k)
        BY Zenon DEF QdInv, Dated, WasDate
      <4>3. k \in Nat /\ k <= qdHour
        BY SMT, <1>3
      <4>4. PtDay(k) = PtDay(qdHour')
        BY <4>1, <4>2, Zenon
      <4>5. \A h, m, n \in Nat : h <= m /\ m <= n /\ PtDay(h) = PtDay(n) => PtDay(m) = PtDay(n)
        BY NoReturn, Zenon
      <4>6. PtDay(qdHour) = PtDay(qdHour')
        BY <1>3, <4>3, <4>4, <4>5, Zenon
      <4> QED
        BY <2>3, <4>6, Zenon
    <3>3. qdDone' = 0 /\ qdKey' # PtDay(qdHour')
      BY <1>1, <2>3, <3>2, Zenon
    <3> QED
      BY <3>1, <3>3 DEF Exact
  <2> QED
    BY <2>2, <2>3, Zenon
<1> QED
  BY <1>5, <1>7, <1>8, <1>9, Zenon DEF QdInv

\* A recorder reads the clock and computes the date.
LEMMA BeginKeeps ==
  ASSUME QdInv, NEW r \in Recorders, NEW what \in {"call", "snapshot"}, Begin(r, what)
  PROVE  QdInv'
<1>1. /\ qdPc[r] = "idle" /\ qdTotal < MaxCalls /\ qdTotal' = qdTotal + 1
      /\ qdToday' = [qdToday EXCEPT ![r] = PtDay(qdHour)]
      /\ qdPc' = [qdPc EXCEPT ![r] = what]
      /\ UNCHANGED <<qdStart, qdHour, qdKey, qdCalls, qdDone, qdStraddled>>
  BY Zenon DEF Begin
<1>2. /\ qdPc'[r] = what /\ qdToday'[r] = PtDay(qdHour)
      /\ \A o \in Recorders : o # r => qdPc'[o] = qdPc[o] /\ qdToday'[o] = qdToday[o]
  BY <1>1, Zenon DEF QdInv, QdTypes
<1>3. QdTypes'
  <2>1. qdTotal' \in Nat
    BY SMT, <1>1 DEF QdInv, QdTypes
  <2>2. qdPc' \in [Recorders -> {"idle", "call", "snapshot", "add"}] /\ DOMAIN qdToday' = Recorders
    BY <1>1, Zenon DEF QdInv, QdTypes
  <2> QED
    BY <1>1, <2>1, <2>2, Zenon DEF QdInv, QdTypes
<1>4. Dated'
  <2>1. WasDate(PtDay(qdHour), qdHour)
    BY IsDate, Zenon DEF QdInv, QdTypes
  <2> QED
    BY <1>1, <1>2, <2>1, Zenon DEF QdInv, Dated
<1>5. Budget'
  <2>1. Busy(qdPc)' = Busy(qdPc) \/ Busy(qdPc)' = Busy(qdPc) \cup {r}
    <3>1. CASE what = "call"
      BY <1>2, <3>1, Zenon DEF Busy
    <3>2. CASE what = "snapshot"
      BY <1>1, <1>2, <3>2, Zenon DEF Busy
    <3> QED
      BY <3>1, <3>2, Zenon
  <2>2. r \notin Busy(qdPc)
    BY <1>1, Zenon DEF Busy
  <2>3. Cardinality(Busy(qdPc)) \in Nat
    BY BusyCounted, Zenon
  <2>4. Cardinality(Busy(qdPc) \cup {r}) = Cardinality(Busy(qdPc)) + 1
    BY <2>2, BusyCounted, FS_AddElement, Zenon
  <2>5. Cardinality(Busy(qdPc))' \in {Cardinality(Busy(qdPc)), Cardinality(Busy(qdPc)) + 1}
    BY <2>1, <2>4, Zenon
  <2> QED
    BY SMT, <1>1, <2>3, <2>5, QuotaAssumption DEF QdInv, Budget, QdTypes, QuotaAssumption
<1>6. ASSUME ~qdStraddled' PROVE Exact'
  BY <1>1, <1>2, <1>6, Zenon DEF QdInv, Exact
<1> QED
  BY <1>3, <1>4, <1>5, <1>6, Zenon DEF QdInv

\* A recorder compares the date it computed with the stored one, and resets the counter.
LEMMA CompareKeeps ==
  ASSUME QdInv, NEW r \in Recorders, Compare(r)
  PROVE  QdInv'
<1> DEFINE to == IF qdPc[r] = "call" THEN "add" ELSE "idle"
<1>1. /\ qdPc[r] \in {"call", "snapshot"}
      /\ qdCalls' = IF qdKey # qdToday[r] THEN 0 ELSE qdCalls
      /\ qdKey' = qdToday[r]
      /\ qdPc' = [qdPc EXCEPT ![r] = to]
      /\ UNCHANGED <<qdStart, qdHour, qdToday, qdDone, qdStraddled, qdTotal>>
  BY Zenon DEF Compare, RolledOver
<1>2. /\ qdPc'[r] = to /\ ((to = "add" /\ qdPc[r] = "call") \/ (to = "idle" /\ qdPc[r] = "snapshot"))
      /\ \A o \in Recorders : o # r => qdPc'[o] = qdPc[o]
  BY <1>1, Zenon DEF QdInv, QdTypes
<1>3. QdTypes'
  <2>1. qdCalls' \in Nat
    BY SMT, <1>1 DEF QdInv, QdTypes
  <2>2. qdPc' \in [Recorders -> {"idle", "call", "snapshot", "add"}]
    BY <1>1, Zenon DEF QdInv, QdTypes
  <2> QED
    BY <1>1, <2>1, <2>2, Zenon DEF QdInv, QdTypes
<1>4. Dated'
  BY <1>1, <1>2, Zenon DEF QdInv, Dated
<1>5. Budget'
  <2>1. Busy(qdPc)' = Busy(qdPc)
    BY <1>1, <1>2, Zenon DEF Busy
  <2>2. Cardinality(Busy(qdPc)) \in Nat
    BY BusyCounted, Zenon
  <2> QED
    BY SMT, <1>1, <2>1, <2>2 DEF QdInv, Budget, QdTypes
<1>6. ASSUME ~qdStraddled' PROVE Exact'
  <2>1. Exact /\ qdToday[r] = PtDay(qdHour)
    BY <1>1, <1>6, Zenon DEF QdInv, Exact
  <2>2. qdKey' = PtDay(qdHour')
    BY <1>1, <2>1, Zenon
  <2>3. qdCalls' = qdDone'
    BY <1>1, <2>1, Zenon DEF Exact
  <2> QED
    BY <1>1, <1>2, <2>1, <2>2, <2>3, Zenon DEF Exact
<1> QED
  BY <1>3, <1>4, <1>5, <1>6, Zenon DEF QdInv

\* A recorder counts its call.
LEMMA AddKeeps ==
  ASSUME QdInv, NEW r \in Recorders, Add(r)
  PROVE  QdInv'
<1>1. /\ qdPc[r] = "add" /\ qdCalls' = qdCalls + 1 /\ qdDone' = qdDone + 1
      /\ qdPc' = [qdPc EXCEPT ![r] = "idle"]
      /\ UNCHANGED <<qdStart, qdHour, qdKey, qdToday, qdStraddled, qdTotal>>
  BY Zenon DEF Add
<1>2. qdPc'[r] = "idle" /\ \A o \in Recorders : o # r => qdPc'[o] = qdPc[o]
  BY <1>1, Zenon DEF QdInv, QdTypes
<1>3. QdTypes'
  <2>1. qdCalls' \in Nat /\ qdDone' \in Nat
    BY SMT, <1>1 DEF QdInv, QdTypes
  <2>2. qdPc' \in [Recorders -> {"idle", "call", "snapshot", "add"}]
    BY <1>1, Zenon DEF QdInv, QdTypes
  <2> QED
    BY <1>1, <2>1, <2>2, Zenon DEF QdInv, QdTypes
<1>4. Dated'
  BY <1>1, <1>2, Zenon DEF QdInv, Dated
<1>5. Budget'
  <2>1. Busy(qdPc)' = Busy(qdPc) \ {r} /\ r \in Busy(qdPc)
    BY <1>1, <1>2, Zenon DEF Busy
  <2>2. Cardinality(Busy(qdPc)) \in Nat
    BY BusyCounted, Zenon
  <2>3. Cardinality(Busy(qdPc))' = Cardinality(Busy(qdPc)) - 1
    BY <2>1, BusyCounted, FS_RemoveElement, Zenon
  <2> QED
    BY SMT, <1>1, <2>2, <2>3 DEF QdInv, Budget, QdTypes
<1>6. ASSUME ~qdStraddled' PROVE Exact'
  <2>1. Exact /\ qdKey = PtDay(qdHour) /\ qdCalls = qdDone
    BY <1>1, <1>6, Zenon DEF QdInv, Exact
  <2>2. qdCalls' = qdDone'
    BY <1>1, <2>1, Zenon
  <2> QED
    BY <1>1, <1>2, <2>1, <2>2, Zenon DEF Exact
<1> QED
  BY <1>3, <1>4, <1>5, <1>6, Zenon DEF QdInv

\* The invariant holds when the counter is created.
LEMMA QuotaInit ==
  ASSUME QdInit
  PROVE  QdInv
<1>1. qdStart \in Starts /\ qdHour \in Nat /\ qdHour >= 8
  BY QuotaAssumption, Zenon DEF QuotaAssumption, QdInit
<1>2. QdTypes
  <2>1. qdPc \in [Recorders -> {"idle", "call", "snapshot", "add"}] /\ DOMAIN qdToday = Recorders
    BY Zenon DEF QdInit
  <2>2. qdCalls \in Nat /\ qdDone \in Nat /\ qdTotal \in Nat
    BY SMT DEF QdInit
  <2>3. qdStraddled \in BOOLEAN
    BY Zenon DEF QdInit
  <2> QED
    BY <1>1, <2>1, <2>2, <2>3, Zenon DEF QdTypes
<1>3. \A r \in Recorders : qdPc[r] = "idle"
  BY Zenon DEF QdInit
<1>4. Dated
  <2>1. WasDate(qdKey, qdHour)
    BY <1>1, IsDate, Zenon DEF QdInit
  <2> QED
    BY <1>3, <2>1, Zenon DEF Dated
<1>5. Budget
  <2>1. Busy(qdPc) = {}
    BY <1>3, Zenon DEF Busy
  <2>2. Cardinality(Busy(qdPc)) = 0
    BY <2>1, FS_EmptySet, Zenon
  <2> QED
    BY SMT, <2>2, QuotaAssumption DEF Budget, QdInit, QuotaAssumption
<1>6. Exact
  BY <1>3, Zenon DEF Exact, QdInit
<1> QED
  BY <1>2, <1>4, <1>5, <1>6, Zenon DEF QdInv

\* Every step keeps the invariant.
LEMMA QuotaStep ==
  ASSUME QdInv, [QdNext]_qdVars
  PROVE  QdInv'
<1>1. CASE ClockTicks
  BY <1>1, TickKeeps, Zenon
<1>2. CASE \E r \in Recorders : Begin(r, "call") \/ Begin(r, "snapshot")
  BY <1>2, BeginKeeps, Zenon
<1>3. CASE \E r \in Recorders : Compare(r)
  BY <1>3, CompareKeeps, Zenon
<1>4. CASE \E r \in Recorders : Add(r)
  BY <1>4, AddKeeps, Zenon
<1>5. CASE UNCHANGED qdVars
  BY <1>5, Zenon DEF qdVars, QdInv, QdTypes, Dated, Budget, Busy, Exact
<1> QED
  BY <1>1, <1>2, <1>3, <1>4, <1>5, Zenon DEF QdNext

\* The invariant always holds.
LEMMA QuotaInvariant == QdSpec => []QdInv
  BY QuotaInit, QuotaStep, PTL DEF QdSpec

\* The values of the counter follow from the invariant.
LEMMA QuotaTyped ==
  ASSUME QdInv
  PROVE  QdTypeOK
<1>1. qdKey[2] \in 1..12 /\ qdKey[3] \in 1..DaysIn(qdKey[1], qdKey[2])
  <2>1. PICK k \in 0..qdHour : qdKey = PtDay(k)
    BY Zenon DEF QdInv, Dated, WasDate
  <2>2. k \in Nat
    BY SMT DEF QdInv, QdTypes
  <2>3. UnixToPt(k) \in Nat
    BY <2>2, Offset, Zenon
  <2> QED
    BY <2>1, <2>3, DateValid, Zenon DEF PtDay
<1>2. qdCalls \in 0..MaxCalls /\ qdDone \in 0..MaxCalls /\ qdTotal \in 0..MaxCalls
  <2>1. Cardinality(Busy(qdPc)) \in Nat
    BY BusyCounted, Zenon
  <2> QED
    BY SMT, <2>1, QuotaAssumption DEF QdInv, QdTypes, Budget, QuotaAssumption
<1> QED
  BY <1>1, <1>2, Zenon DEF QdTypeOK, QdInv, QdTypes

(* The contract of the daily quota, at every hour from the first day of 1970 *)
(* on and for any number of threads: the clocks change on the right days     *)
(* (pacific_is_dst), the countdown is right to the hour                      *)
(* (seconds_until_pacific_midnight), and unless a midnight met a thread that *)
(* was counting the counter is the number of calls made since midnight       *)
(* (record_today, snapshot_stats).                                           *)
THEOREM QuotaAlwaysSound == QdSpec => []QuotaSound
<1>1. QdInv => QuotaSound
  <2> SUFFICES ASSUME QdInv PROVE QuotaSound
    BY Zenon
  <2>2. QuotaExact
    BY Zenon DEF QuotaExact, QdInv, Exact
  <2>3. DstByWeekday /\ CountdownWithinAnHour
    BY DstSound, CountdownSound, Zenon DEF QdInv, QdTypes
  <2> QED
    BY <2>2, <2>3, QuotaTyped, Zenon DEF QuotaSound
<1> QED
  BY <1>1, QuotaInvariant, PTL

(* Whenever the clock moves by less than a day, the UTC date of              *)
(* unix_to_ymd_utc and the Pacific date stay or become the next date of the  *)
(* calendar: neither goes back nor skips a day, in the hours around a change *)
(* of the clocks included, for every setup of the clock.                     *)
THEOREM DatesAdvanceByOne == QdSpec => [][CalendarExact]_qdVars
<1>1. QdInv /\ [QdNext]_qdVars => [CalendarExact]_qdVars
  <2> SUFFICES ASSUME QdInv, [QdNext]_qdVars PROVE CalendarExact
    BY Zenon
  <2>2. qdHour \in Nat
    BY Zenon DEF QdInv, QdTypes
  <2>3. CASE qdHour' = qdHour
    BY <2>3, Zenon DEF CalendarExact
  <2>4. CASE ClockTicks
    <3>1. qdHour' = qdHour + qdStart.step /\ qdStart.step \in 1..23
      BY <2>4, QuotaAssumption, Zenon DEF ClockTicks, QuotaAssumption, QdInv, QdTypes
    <3>2. PICK a \in Nat, b \in Nat : a = qdHour /\ b = qdHour' /\ a <= b /\ b <= a + 23
      BY SMT, <2>2, <3>1
    <3>3. b <= a + 24
      BY SMT, <3>2
    <3>4. UnixToYmd(b) \in {UnixToYmd(a), NextDate(UnixToYmd(a))}
      BY <3>2, <3>3, DateSteps, Zenon
    <3>5. UnixToPt(a) \in Nat /\ UnixToPt(b) \in Nat
      BY Offset, Zenon
    <3>6. UnixToPt(a) <= UnixToPt(b) /\ UnixToPt(b) <= UnixToPt(a) + (b - a) + 1
      BY <3>2, PtOrder, Zenon
    <3>7. UnixToPt(b) <= UnixToPt(a) + 24
      BY SMT, <3>2, <3>5, <3>6
    <3>8. PtDay(b) \in {PtDay(a), NextDate(PtDay(a))}
      BY <3>5, <3>6, <3>7, DateSteps, Zenon DEF PtDay
    <3> QED
      BY <3>2, <3>4, <3>8, Zenon DEF CalendarExact
  <2>5. ClockTicks \/ qdHour' = qdHour
    BY Zenon DEF QdNext, Begin, Compare, Add, qdVars
  <2> QED
    BY <2>3, <2>4, <2>5, Zenon
<1> QED
  BY <1>1, QuotaInvariant, PTL DEF QdSpec
=============================================================================
