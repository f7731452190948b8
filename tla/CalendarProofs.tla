--------------------------- MODULE CalendarProofs ----------------------------
(***************************************************************************)
(* The calendar of cross_format.rs, for every FILETIME: the loop over the   *)
(* years and the closed formula count the same days, the loops find a year  *)
(* and a month, and a time inside exFAT's years comes back.                 *)
(***************************************************************************)
EXTENDS RoundTrip, TLAPS, FiniteSetTheorems, WellFoundedInduction

(* A set of natural numbers that is not empty has a least element.          *)
LEMMA LeastElement == ASSUME NEW T \in SUBSET Nat, T # {}
                      PROVE  \E x \in T : \A y \in T : x <= y
PROOF
  <1>1. IsWellFoundedOn({ss \in Nat \X Nat : ss[1] < ss[2]}, Nat)
    BY NatLessThanWellFounded DEF OpToRel
  <1>2. PICK x \in T : \A y \in T : ~(<<y, x>> \in {ss \in Nat \X Nat : ss[1] < ss[2]})
    BY <1>1, WFMin
  <1>3. ASSUME NEW y \in T PROVE x <= y
    <2>1. <<y, x>> \in Nat \X Nat
      OBVIOUS
    <2>2. ~(y < x)
      BY <1>2, <2>1
    <2> QED
      BY <2>2
  <1> QED
    BY <1>3

-----------------------------------------------------------------------------
(* One more year is one more leap year exactly when it is one.              *)
LEMMA LeapYearStep ==
    ASSUME NEW y \in Nat, y >= 1601
    PROVE  LeapYearsThrough(y) = LeapYearsThrough(y - 1) + (IF IsLeapYear(y) THEN 1 ELSE 0)
PROOF
  BY DEF LeapYearsThrough, IsLeapYear

(* The days before the next year are those before this one and its own.     *)
LEMMA CountedStep ==
    ASSUME NEW y \in Nat, y >= 1601
    PROVE  /\ DaysCounted(y) \in Nat
           /\ DaysCounted(y + 1) = DaysCounted(y) + DaysInYear(y)
PROOF
  <1> DEFINE before == {z \in FiletimeEpochYear .. y - 1 : IsLeapYear(z)}
             through == {z \in FiletimeEpochYear .. y + 1 - 1 : IsLeapYear(z)}
  <1>1. IsFiniteSet(before) /\ Cardinality(before) \in Nat
    <2>1. before \in SUBSET Nat /\ \A z \in before : z <= y
      BY DEF FiletimeEpochYear
    <2> HIDE DEF before
    <2>3. IsFiniteSet(before)
      BY <2>1, FS_BoundedSetOfNaturals
    <2> QED
      BY <2>3, FS_CardinalityType
  <1>2. y \notin before
    BY DEF FiletimeEpochYear
  <1>3. CASE IsLeapYear(y)
    <2>1. through = before \cup {y}
      BY <1>3 DEF FiletimeEpochYear
    <2>2. Cardinality(through) = Cardinality(before) + 1
      BY <1>1, <1>2, <2>1, FS_AddElement
    <2> QED
      BY <1>1, <1>3, <2>2 DEF DaysCounted, DaysInYear, FiletimeEpochYear
  <1>4. CASE ~IsLeapYear(y)
    <2>1. through = before
      BY <1>4 DEF FiletimeEpochYear
    <2> QED
      BY <1>1, <1>4, <2>1 DEF DaysCounted, DaysInYear, FiletimeEpochYear
  <1> QED
    BY <1>3, <1>4

(* The closed formula takes the same step.                                  *)
LEMMA ClosedStep ==
    ASSUME NEW y \in Nat, y >= 1601
    PROVE  /\ DaysBeforeYear(y) \in Int
           /\ DaysBeforeYear(y + 1) = DaysBeforeYear(y) + DaysInYear(y)
PROOF
  <1>1. /\ LeapYearsThrough(y) = LeapYearsThrough(y - 1) + (IF IsLeapYear(y) THEN 1 ELSE 0)
        /\ LeapYearsThrough(y - 1) \in Int /\ LeapYearsThrough(1600) \in Int
    BY LeapYearStep DEF LeapYearsThrough
  <1>2. y + 1 - 1 = y
    OBVIOUS
  <1> QED
    BY <1>1, <1>2 DEF DaysBeforeYear, DaysInYear, FiletimeEpochYear

(* The loop of one direction and the formula of the other count alike.      *)
LEMMA CountedIsClosed ==
    ASSUME NEW y \in Nat, y >= 1601
    PROVE  DaysCounted(y) = DaysBeforeYear(y)
PROOF
  <1> DEFINE Differ == {z \in Nat : z >= 1601 /\ DaysCounted(z) # DaysBeforeYear(z)}
  <1>1. SUFFICES ASSUME Differ # {} PROVE FALSE
    OBVIOUS
  <1>2. PICK x \in Differ : \A z \in Differ : x <= z
    <2>1. Differ \in SUBSET Nat /\ Differ # {}
      BY <1>1
    <2> HIDE DEF Differ
    <2> QED
      BY <2>1, LeastElement
  <1>3. CASE x = 1601
    <2>1. {z \in FiletimeEpochYear .. 1601 - 1 : IsLeapYear(z)} = {}
      BY DEF FiletimeEpochYear
    <2>2. DaysCounted(1601) = 0
      BY <2>1, FS_EmptySet DEF DaysCounted, FiletimeEpochYear
    <2>3. DaysBeforeYear(1601) = 0
      BY DEF DaysBeforeYear, LeapYearsThrough, FiletimeEpochYear
    <2> QED
      BY <1>2, <1>3, <2>2, <2>3
  <1>4. CASE x # 1601
    <2>1. x - 1 \in Nat /\ x - 1 >= 1601 /\ x - 1 + 1 = x
      BY <1>2, <1>4
    <2>2. x - 1 \notin Differ
      BY <1>2, <2>1
    <2>3. DaysCounted(x - 1) = DaysBeforeYear(x - 1)
      BY <2>1, <2>2
    <2>4. DaysCounted(x) = DaysCounted(x - 1) + DaysInYear(x - 1)
      BY <2>1, CountedStep
    <2>5. DaysBeforeYear(x) = DaysBeforeYear(x - 1) + DaysInYear(x - 1)
      BY <2>1, ClosedStep
    <2> QED
      BY <1>2, <2>3, <2>4, <2>5
  <1> QED
    BY <1>3, <1>4

(* A year has at least 365 days and at most 366, and years do not overlap.  *)
LEMMA YearBounds ==
    ASSUME NEW y \in Nat, y >= 1601
    PROVE  /\ 365 * (y - 1601) <= DaysBeforeYear(y)
           /\ DaysBeforeYear(y) <= 366 * (y - 1601)
PROOF
  BY DEF DaysBeforeYear, LeapYearsThrough, FiletimeEpochYear

LEMMA YearsAscend ==
    ASSUME NEW x \in Nat, x >= 1601, NEW y \in Nat, x <= y
    PROVE  DaysBeforeYear(x) <= DaysBeforeYear(y)
PROOF
  BY DEF DaysBeforeYear, LeapYearsThrough, FiletimeEpochYear

(* The loop over the years ends, at the year that holds the day.            *)
LEMMA YearIsFound ==
    ASSUME NEW day \in Nat
    PROVE  /\ LocateYear(day) \in Nat /\ LocateYear(day) >= 1601
           /\ DaysCounted(LocateYear(day)) <= day
           /\ day < DaysCounted(LocateYear(day)) + DaysInYear(LocateYear(day))
PROOF
  <1> DEFINE Beyond == {z \in Nat : z >= 1601 /\ day < DaysBeforeYear(z + 1)}
  <1>1. 1601 + day \in Beyond
    <2>1. 365 * (1601 + day + 1 - 1601) <= DaysBeforeYear(1601 + day + 1)
      BY YearBounds
    <2>2. DaysBeforeYear(1601 + day + 1) \in Int
      BY ClosedStep
    <2> QED
      BY <2>1, <2>2
  <1>2. PICK x \in Beyond : \A z \in Beyond : x <= z
    <2>1. Beyond \in SUBSET Nat
      OBVIOUS
    <2> HIDE DEF Beyond
    <2>2. Beyond # {}
      BY <1>1
    <2> QED
      BY <2>1, <2>2, LeastElement
  <1>3. x \in Nat /\ x >= 1601 /\ day < DaysBeforeYear(x + 1)
    BY <1>2
  <1>4. DaysBeforeYear(x) \in Int /\ DaysBeforeYear(x + 1) = DaysBeforeYear(x) + DaysInYear(x)
    BY <1>3, ClosedStep
  <1>5. DaysBeforeYear(x) <= day
    <2>1. CASE x = 1601
      BY <1>3, <1>4, <2>1, YearBounds
    <2>2. CASE x # 1601
      <3>1. x - 1 \in Nat /\ x - 1 >= 1601 /\ x - 1 + 1 = x /\ ~(x <= x - 1)
        BY <1>3, <2>2
      <3>2. x - 1 \notin Beyond
        BY <1>2, <3>1
      <3> QED
        BY <1>4, <3>1, <3>2
    <2> QED
      BY <2>1, <2>2
  <1>6. x \in FiletimeEpochYear + (day \div 366) .. FiletimeEpochYear + (day \div 365)
    <2>1. 365 * (x - 1601) <= day
      BY <1>3, <1>4, <1>5, YearBounds
    <2>2. day < 366 * (x + 1 - 1601)
      BY <1>3, <1>4, YearBounds DEF DaysInYear
    <2> QED
      BY <1>3, <2>1, <2>2 DEF FiletimeEpochYear
  <1>7. DaysCounted(x) <= day /\ day < DaysCounted(x) + DaysInYear(x)
    BY <1>3, <1>4, <1>5, CountedIsClosed
  <1>8. /\ LocateYear(day) \in FiletimeEpochYear + (day \div 366)
                                  .. FiletimeEpochYear + (day \div 365)
        /\ DaysCounted(LocateYear(day)) <= day
        /\ day < DaysCounted(LocateYear(day)) + DaysInYear(LocateYear(day))
    BY <1>6, <1>7 DEF LocateYear
  <1> QED
    BY <1>8 DEF FiletimeEpochYear

-----------------------------------------------------------------------------
(* The months of a year as the loop accumulates them.                       *)
LEMMA MonthTable ==
    ASSUME NEW y \in Nat, NEW leap \in 0 .. 1, leap = (IF IsLeapYear(y) THEN 1 ELSE 0)
    PROVE  /\ DaysInYear(y) = 365 + leap
           /\ DaysInMonth(y, 1) = 31 /\ DaysInMonth(y, 2) = 28 + leap
           /\ DaysInMonth(y, 3) = 31 /\ DaysInMonth(y, 4) = 30
           /\ DaysInMonth(y, 5) = 31 /\ DaysInMonth(y, 6) = 30
           /\ DaysInMonth(y, 7) = 31 /\ DaysInMonth(y, 8) = 31
           /\ DaysInMonth(y, 9) = 30 /\ DaysInMonth(y, 10) = 31
           /\ DaysInMonth(y, 11) = 30 /\ DaysInMonth(y, 12) = 31
PROOF
  BY DEF DaysInYear, DaysInMonth

(* The loop over the months ends, at the month that holds the day.          *)
LEMMA MonthIsFound ==
    ASSUME NEW y \in Nat, NEW days \in Nat, days < DaysInYear(y)
    PROVE  /\ LocateMonth(y, days) \in 1 .. 12
           /\ DaysBeforeMonth(y, LocateMonth(y, days)) \in Nat
           /\ DaysInMonth(y, LocateMonth(y, days)) \in Nat
           /\ DaysBeforeMonth(y, LocateMonth(y, days)) <= days
           /\ days < DaysBeforeMonth(y, LocateMonth(y, days))
                        + DaysInMonth(y, LocateMonth(y, days))
PROOF
  <1> DEFINE leap == IF IsLeapYear(y) THEN 1 ELSE 0
  <1>1. leap \in 0 .. 1
    OBVIOUS
  <1>2. /\ DaysInYear(y) = 365 + leap
        /\ DaysInMonth(y, 1) = 31 /\ DaysInMonth(y, 2) = 28 + leap
        /\ DaysInMonth(y, 3) = 31 /\ DaysInMonth(y, 4) = 30
        /\ DaysInMonth(y, 5) = 31 /\ DaysInMonth(y, 6) = 30
        /\ DaysInMonth(y, 7) = 31 /\ DaysInMonth(y, 8) = 31
        /\ DaysInMonth(y, 9) = 30 /\ DaysInMonth(y, 10) = 31
        /\ DaysInMonth(y, 11) = 30 /\ DaysInMonth(y, 12) = 31
    BY <1>1, MonthTable
  <1> HIDE DEF leap
  <1>3. /\ DaysBeforeMonth(y, 1) = 0 /\ DaysBeforeMonth(y, 2) = 31
        /\ DaysBeforeMonth(y, 3) = 59 + leap /\ DaysBeforeMonth(y, 4) = 90 + leap
        /\ DaysBeforeMonth(y, 5) = 120 + leap /\ DaysBeforeMonth(y, 6) = 151 + leap
        /\ DaysBeforeMonth(y, 7) = 181 + leap /\ DaysBeforeMonth(y, 8) = 212 + leap
        /\ DaysBeforeMonth(y, 9) = 243 + leap /\ DaysBeforeMonth(y, 10) = 273 + leap
        /\ DaysBeforeMonth(y, 11) = 304 + leap /\ DaysBeforeMonth(y, 12) = 334 + leap
    BY <1>1, <1>2 DEF DaysBeforeMonth
  <1>4. \E month \in 1 .. 12 :
            /\ DaysBeforeMonth(y, month) <= days
            /\ days < DaysBeforeMonth(y, month) + DaysInMonth(y, month)
    BY <1>1, <1>2, <1>3
  <1>5. /\ LocateMonth(y, days) \in 1 .. 12
        /\ DaysBeforeMonth(y, LocateMonth(y, days)) <= days
        /\ days < DaysBeforeMonth(y, LocateMonth(y, days))
                     + DaysInMonth(y, LocateMonth(y, days))
    BY <1>4 DEF LocateMonth
  <1>6. \A month \in 1 .. 12 : DaysBeforeMonth(y, month) \in Nat /\ DaysInMonth(y, month) \in Nat
    BY <1>1, <1>2, <1>3
  <1> QED
    BY <1>5, <1>6

(* Hours, minutes, double seconds and the odd second make up the time of    *)
(* day again.                                                               *)
Hour(s) == s \div 3600
Minute(s) == (s % 3600) \div 60
Double(s) == (s % 60) \div 2
Odd(s) == s % 2

LEMMA OddFits ==
    ASSUME NEW s \in Nat, s <= 86399
    PROVE  s - Odd(s) \in Nat /\ s - Odd(s) <= 86399
PROOF
  BY SMT DEF Odd

LEMMA ClockDigits ==
    ASSUME NEW s \in Nat, s <= 86399
    PROVE  /\ Hour(s) \in 0 .. 23 /\ Minute(s) \in 0 .. 59
           /\ Double(s) \in 0 .. 29 /\ Odd(s) \in 0 .. 1
           /\ Hour(s) * 3600 + Minute(s) * 60 + Double(s) * 2 = s - Odd(s)
PROOF
  <1> DEFINE inHour == s % 3600
             inMinute == s % 60
  <1>1. Hour(s) \in 0 .. 23 /\ inHour \in Nat /\ inHour <= 3599
    BY SMT DEF Hour
  <1>2. inHour = s - 3600 * Hour(s)
    BY SMT DEF Hour
  <1>3. Minute(s) \in 0 .. 59
    BY <1>1, SMT DEF Minute
  <1>4. inHour % 60 = inHour - 60 * Minute(s)
    BY <1>1, SMT DEF Minute
  <1>5. inHour % 60 = inMinute /\ inMinute \in Nat /\ inMinute <= 59
    BY SMT
  <1>6. Double(s) \in 0 .. 29
    BY <1>5, SMT DEF Double
  <1>7. inMinute % 2 = inMinute - 2 * Double(s)
    BY <1>5, SMT DEF Double
  <1>8. inMinute % 2 = Odd(s) /\ Odd(s) \in 0 .. 1
    BY SMT DEF Odd
  <1>9. Hour(s) * 3600 + Minute(s) * 60 + Double(s) * 2 = s - Odd(s)
    <2> DEFINE hour == Hour(s)
               minute == Minute(s)
               double == Double(s)
               odd == Odd(s)
    <2> HIDE DEF inHour, inMinute
    <2>1. /\ hour \in 0 .. 23 /\ minute \in 0 .. 59 /\ double \in 0 .. 29 /\ odd \in 0 .. 1
          /\ inHour \in Nat /\ inMinute \in Nat
      BY <1>1, <1>3, <1>5, <1>6, <1>8, SMT
    <2>2. /\ inHour = s - 3600 * hour /\ inMinute = inHour - 60 * minute
          /\ odd = inMinute - 2 * double
      BY <1>2, <1>4, <1>5, <1>7, <1>8, SMT
    <2> HIDE DEF hour, minute, double, odd
    <2>3. hour * 3600 + minute * 60 + double * 2 = s - odd
      BY <2>1, <2>2, SMT
    <2> QED
      BY <2>3, SMT DEF hour, minute, double, odd
  <1> QED
    BY <1>1, <1>3, <1>6, <1>8, <1>9, SMT

-----------------------------------------------------------------------------
(* The year that holds a day is one exFAT can store exactly when the day    *)
(* lies between the first of 1980 and the last of 2107.                     *)
LEMMA ExfatYears ==
    ASSUME NEW day \in Nat
    PROVE  LocateYear(day) \in ExfatEpochYear .. LastExfatYear
               <=> day \in DaysBeforeYear(ExfatEpochYear)
                              .. DaysBeforeYear(LastExfatYear + 1) - 1
PROOF
  <1> DEFINE year == LocateYear(day)
  <1>1. /\ year \in Nat /\ year >= 1601
        /\ DaysCounted(year) <= day /\ day < DaysCounted(year) + DaysInYear(year)
    BY YearIsFound
  <1> HIDE DEF year
  <1>2. DaysCounted(year) = DaysBeforeYear(year) /\ DaysBeforeYear(year) \in Int
    BY <1>1, CountedIsClosed, ClosedStep
  <1>3. day < DaysBeforeYear(year + 1) /\ DaysBeforeYear(year + 1) \in Int
    BY <1>1, <1>2, ClosedStep
  <1>4. DaysBeforeYear(1980) \in Int /\ DaysBeforeYear(2108) \in Int
    BY ClosedStep
  <1>5. ASSUME year < 1980 PROVE day < DaysBeforeYear(1980)
    <2>1. DaysBeforeYear(year + 1) <= DaysBeforeYear(1980)
      BY <1>1, <1>5, YearsAscend
    <2> QED
      BY <1>3, <1>4, <2>1
  <1>6. ASSUME year > 2107 PROVE day >= DaysBeforeYear(2108)
    <2>1. DaysBeforeYear(2108) <= DaysBeforeYear(year)
      BY <1>1, <1>6, YearsAscend
    <2> QED
      BY <1>1, <1>2, <1>4, <2>1
  <1>7. ASSUME year >= 1980, year <= 2107
        PROVE  DaysBeforeYear(1980) <= day /\ day < DaysBeforeYear(2108)
    <2>1. DaysBeforeYear(1980) <= DaysBeforeYear(year)
      BY <1>1, <1>7, YearsAscend
    <2>2. DaysBeforeYear(year + 1) <= DaysBeforeYear(2108)
      BY <1>1, <1>7, YearsAscend
    <2> QED
      BY <1>1, <1>2, <1>3, <1>4, <2>1, <2>2
  <1>8. year \in 1980 .. 2107 <=> day \in DaysBeforeYear(1980) .. DaysBeforeYear(2108) - 1
    BY <1>1, <1>4, <1>5, <1>6, <1>7
  <1>9. ExfatEpochYear = 1980 /\ LastExfatYear = 2107 /\ LastExfatYear + 1 = 2108
    BY DEF ExfatEpochYear, LastExfatYear
  <1> QED
    BY <1>8, <1>9 DEF year

(* A timestamp in UTC is unpacked into its day, its time of day and its     *)
(* increment.                                                               *)
StampYear(stamp) == 1980 + stamp.year
StampDay(stamp) ==
    DaysBeforeYear(StampYear(stamp)) + DaysBeforeMonth(StampYear(stamp), stamp.month)
        + stamp.day - 1
StampClock(stamp) == stamp.hour * 3600 + stamp.minute * 60 + stamp.double * 2
                         + stamp.increment \div 100

LEMMA Unpacked ==
    ASSUME NEW stamp, ValidExfat(stamp), stamp.offset = 128, StampDay(stamp) \in Nat,
           stamp.hour \in Nat, stamp.minute \in Nat, stamp.double \in Nat,
           stamp.increment \in Nat,
           StampClock(stamp) \in Nat, StampClock(stamp) <= 86399
    PROVE  ToFiletime(stamp) = [day |-> StampDay(stamp), second |-> StampClock(stamp),
                                hundredth |-> stamp.increment % 100, tick |-> 0]
PROOF
  <1> DEFINE seconds == stamp.hour * 3600 + stamp.minute * 60 + stamp.double * 2
                            - QuarterHours(stamp.offset) * 900 + stamp.increment \div 100
  <1>1. QuarterHours(stamp.offset) = 0
    BY SMT DEF QuarterHours
  <1>2. seconds = StampClock(stamp)
    BY <1>1, SMT DEF StampClock
  <1>3. /\ StampClock(stamp) \div 86400 = 0 /\ StampClock(stamp) % 86400 = StampClock(stamp)
        /\ StampDay(stamp) + 0 = StampDay(stamp)
    BY SMT
  <1>4. ToFiletime(stamp) = [day |-> StampDay(stamp) + seconds \div 86400,
                             second |-> seconds % 86400,
                             hundredth |-> stamp.increment % 100, tick |-> 0]
    BY SMT DEF ToFiletime, ExfatEpochYear, StampDay, StampYear
  <1> HIDE DEF seconds
  <1> QED
    BY <1>2, <1>3, <1>4, SMT

(* What comes back of one time: the digits a timestamp with an increment,   *)
(* or without one, can hold.                                                *)
KeptMoment(moment, withIncrement) ==
    IF withIncrement THEN [moment EXCEPT !.tick = 0]
    ELSE [moment EXCEPT !.tick = 0, !.hundredth = 0, !.second = @ - (@ % 2)]

(* The digits of a FILETIME, and of what is kept of it.                     *)
LEMMA DigitBounds ==
    /\ \A second \in SecondsOfDay : second \in Nat /\ second <= 86399
    /\ \A hundredth \in Hundredths : hundredth \in 0 .. 99
PROOF
  BY SMT DEF SecondsOfDay, Hundredths

LEMMA Digits ==
    ASSUME NEW m \in Filetimes
    PROVE  /\ m.day \in Nat /\ m.second \in SecondsOfDay /\ m.hundredth \in Hundredths
           /\ KeptMoment(m, TRUE) = [day |-> m.day, second |-> m.second,
                               hundredth |-> m.hundredth, tick |-> 0]
           /\ KeptMoment(m, FALSE) = [day |-> m.day, second |-> m.second - (m.second % 2),
                                hundredth |-> 0, tick |-> 0]
PROOF
  <1>1. m.day \in Nat /\ m.second \in SecondsOfDay /\ m.hundredth \in Hundredths
    BY SMT DEF Filetimes
  <1>2. [m EXCEPT !.tick = 0] = [day |-> m.day, second |-> m.second,
                                 hundredth |-> m.hundredth, tick |-> 0]
    BY SMT DEF Filetimes
  <1>3. KeptMoment(m, TRUE) = [day |-> m.day, second |-> m.second,
                         hundredth |-> m.hundredth, tick |-> 0]
    BY <1>2, Zenon DEF KeptMoment
  <1>4. KeptMoment(m, FALSE) = [day |-> m.day, second |-> m.second - (m.second % 2),
                          hundredth |-> 0, tick |-> 0]
    <2>1. PICK even : even = m.second - (m.second % 2)
      OBVIOUS
    <2>2. KeptMoment(m, FALSE) = [m EXCEPT !.tick = 0, !.hundredth = 0, !.second = even]
      BY <2>1 DEF KeptMoment
    <2>3. [m EXCEPT !.tick = 0, !.hundredth = 0, !.second = even]
              = [day |-> m.day, second |-> even, hundredth |-> 0, tick |-> 0]
      <3> DEFINE first == [m EXCEPT !.tick = 0]
                 then == [first EXCEPT !.hundredth = 0]
      <3>1. [m EXCEPT !.tick = 0, !.hundredth = 0, !.second = even] = [then EXCEPT !.second = even]
        OBVIOUS
      <3>2. first = [day |-> m.day, second |-> m.second, hundredth |-> m.hundredth,
                     tick |-> 0]
        BY <1>2, Zenon
      <3> HIDE DEF first
      <3>3. then = [day |-> m.day, second |-> m.second, hundredth |-> 0, tick |-> 0]
        BY <3>2, SMT
      <3> HIDE DEF then
      <3>4. [then EXCEPT !.second = even]
                = [day |-> m.day, second |-> even, hundredth |-> 0, tick |-> 0]
        BY <3>3, SMT
      <3> QED
        BY <3>1, <3>4, Zenon DEF then, first
    <2> QED
      BY <2>1, <2>2, <2>3, Zenon
  <1> QED
    BY <1>1, <1>3, <1>4, Zenon

(* A time packed into a year exFAT can store is a valid timestamp and is    *)
(* unpacked to the same time.                                               *)
LEMMA PackedReturns ==
    ASSUME NEW m \in Filetimes, NEW w \in BOOLEAN,
           NEW year \in ExfatEpochYear .. LastExfatYear, NEW month \in 1 .. 12,
           NEW days \in Nat, m.day = DaysBeforeYear(year) + days,
           NEW before \in Nat, before = DaysBeforeMonth(year, month),
           NEW last \in Nat, last = DaysInMonth(year, month),
           before <= days, days < before + last
    PROVE  /\ Packed(m, w, year, month, days) # NoTime
           /\ ToFiletime(Packed(m, w, year, month, days)) = KeptMoment(m, w)
           /\ ~w => [Packed(m, w, year, month, days) EXCEPT !.increment = 0]
                        = Packed(m, w, year, month, days)
PROOF
  <1> DEFINE second == m.second
  <1>1. m.day \in Nat /\ second \in SecondsOfDay /\ m.hundredth \in Hundredths
    BY Digits, Zenon
  <1>2. /\ second \in Nat /\ second <= 86399
        /\ m.hundredth \in Nat /\ m.hundredth <= 99
    BY <1>1, DigitBounds, SMT
  <1> DEFINE since == year - ExfatEpochYear
             day == days - before + 1
             increment == IF w THEN Odd(second) * 100 + m.hundredth ELSE 0
             stamp == [year |-> since, month |-> month, day |-> day, hour |-> Hour(second),
                       minute |-> Minute(second), double |-> Double(second),
                       increment |-> increment, offset |-> 128]
  <1>3. Packed(m, w, year, month, days) = stamp
    <2>1. /\ Hour(second) = m.second \div 3600 /\ Minute(second) = (m.second % 3600) \div 60
          /\ Double(second) = (m.second % 60) \div 2 /\ Odd(second) = m.second % 2
      BY SMT DEF Hour, Minute, Double, Odd
    <2>2. day = days - DaysBeforeMonth(year, month) + 1
      OBVIOUS
    <2> HIDE DEF second, day
    <2> QED
      BY <2>1, <2>2 DEF Packed
  <1> HIDE DEF second
  <1>4. /\ Hour(second) \in 0 .. 23 /\ Minute(second) \in 0 .. 59
        /\ Double(second) \in 0 .. 29 /\ Odd(second) \in 0 .. 1
        /\ Hour(second) * 3600 + Minute(second) * 60 + Double(second) * 2 = second - Odd(second)
    BY <1>2, ClockDigits, SMT
  <1>5. since \in Nat /\ 1980 + since = year /\ year \in Nat /\ year >= 1601
    BY SMT DEF ExfatEpochYear, LastExfatYear
  <1>6. day \in Nat /\ 1 <= day /\ day <= last
    BY SMT
  <1>7. m.day = DaysBeforeYear(year) + before + day - 1
    <2>1. DaysBeforeYear(year) \in Int
      BY <1>5, ClosedStep
    <2> QED
      BY <2>1, SMT
  <1> HIDE DEF since, day
  <1>8. /\ increment \in Nat /\ increment <= 199
        /\ increment \div 100 = (IF w THEN Odd(second) ELSE 0)
        /\ increment % 100 = (IF w THEN m.hundredth ELSE 0)
    BY <1>2, <1>4, SMT
  <1> HIDE DEF increment
  <1>9. /\ stamp.year = since /\ stamp.month = month /\ stamp.day = day
        /\ stamp.hour = Hour(second) /\ stamp.minute = Minute(second)
        /\ stamp.double = Double(second) /\ stamp.increment = increment
        /\ stamp.offset = 128
    BY SMT
  <1>10. ~w => [stamp EXCEPT !.increment = 0] = stamp
    BY SMT DEF increment
  <1> HIDE DEF stamp
  <1>11. stamp # NoTime
    BY <1>6, <1>9, SMT DEF NoTime
  <1>12. StampYear(stamp) = year /\ StampDay(stamp) = m.day
    BY <1>5, <1>7, <1>9, SMT DEF StampYear, StampDay
  <1>13. ValidExfat(stamp)
    BY <1>4, <1>5, <1>6, <1>8, <1>9, SMT DEF ValidExfat, ExfatEpochYear
  <1>14. StampClock(stamp) = second - Odd(second) + increment \div 100
    BY <1>4, <1>9, SMT DEF StampClock
  <1>15. /\ w => StampClock(stamp) = second
         /\ ~w => StampClock(stamp) = second - Odd(second)
    BY <1>2, <1>4, <1>8, <1>14, SMT
  <1>16. StampClock(stamp) \in Nat /\ StampClock(stamp) <= 86399
    <2>1. second - Odd(second) \in Nat /\ second - Odd(second) <= 86399
      BY <1>2, OddFits, SMT
    <2>2. StampClock(stamp) = second \/ StampClock(stamp) = second - Odd(second)
      BY <1>15, Zenon
    <2> QED
      BY <1>2, <2>1, <2>2, SMT
  <1>17. ToFiletime(stamp) = [day |-> m.day, second |-> StampClock(stamp),
                              hundredth |-> increment % 100, tick |-> 0]
    BY <1>1, <1>4, <1>8, <1>9, <1>12, <1>13, <1>16, Unpacked, SMT
  <1>18. second = m.second /\ second - Odd(second) = m.second - (m.second % 2)
    BY DEF second, Odd
  <1>19. ToFiletime(stamp) = KeptMoment(m, w)
    <2>1. CASE w
      BY <1>8, <1>15, <1>17, <1>18, <2>1, Digits, Zenon
    <2>2. CASE ~w
      BY <1>8, <1>15, <1>17, <1>18, <2>2, Digits, Zenon
    <2> QED
      BY <2>1, <2>2
  <1> QED
    BY <1>3, <1>10, <1>11, <1>19, Zenon

(* One time there and back: refused outside exFAT's years, kept inside.     *)
LEMMA TimeReturns ==
    ASSUME NEW m \in Filetimes, NEW w \in BOOLEAN
    PROVE  LET inside == m.day \in DaysBeforeYear(ExfatEpochYear)
                                      .. DaysBeforeYear(LastExfatYear + 1) - 1 IN
           /\ ToExfat(m, w) # NoTime <=> inside
           /\ inside => ToFiletime(ToExfat(m, w)) = KeptMoment(m, w)
           /\ inside /\ ~w => ToFiletime([ToExfat(m, w) EXCEPT !.increment = 0]) = KeptMoment(m, w)
PROOF
  <1> DEFINE year == LocateYear(m.day)
             days == m.day - DaysCounted(year)
             month == LocateMonth(year, days)
             inside == m.day \in DaysBeforeYear(ExfatEpochYear)
                                    .. DaysBeforeYear(LastExfatYear + 1) - 1
  <1>1. m.day \in Nat
    BY DEF Filetimes
  <1>2. /\ year \in Nat /\ year >= 1601
        /\ DaysCounted(year) <= m.day /\ m.day < DaysCounted(year) + DaysInYear(year)
    BY <1>1, YearIsFound
  <1>3. year \in ExfatEpochYear .. LastExfatYear <=> inside
    BY <1>1, ExfatYears
  <1>4. ToExfat(m, w) = Packed(m, w, year, month, days)
    BY DEF ToExfat
  <1> HIDE DEF year, inside
  <1>5. DaysCounted(year) = DaysBeforeYear(year) /\ DaysCounted(year) \in Nat
    BY <1>2, CountedIsClosed, CountedStep
  <1>6. days \in Nat /\ m.day = DaysBeforeYear(year) + days /\ days < DaysInYear(year)
    BY <1>1, <1>2, <1>5 DEF DaysInYear
  <1> HIDE DEF days
  <1>7. /\ month \in 1 .. 12
        /\ DaysBeforeMonth(year, month) \in Nat /\ DaysInMonth(year, month) \in Nat
        /\ DaysBeforeMonth(year, month) <= days
        /\ days < DaysBeforeMonth(year, month) + DaysInMonth(year, month)
    BY <1>2, <1>6, MonthIsFound
  <1> HIDE DEF month
  <1>8. CASE inside
    <2>1. year \in ExfatEpochYear .. LastExfatYear
      BY <1>3, <1>8
    <2>2. /\ Packed(m, w, year, month, days) # NoTime
          /\ ToFiletime(Packed(m, w, year, month, days)) = KeptMoment(m, w)
          /\ ~w => [Packed(m, w, year, month, days) EXCEPT !.increment = 0]
                       = Packed(m, w, year, month, days)
      BY <1>6, <1>7, <2>1, PackedReturns
    <2> QED
      BY <1>4, <1>8, <2>2 DEF inside
  <1>9. CASE ~inside
    <2>1. Packed(m, w, year, month, days) = NoTime
      BY <1>3, <1>9 DEF Packed
    <2> QED
      BY <1>4, <1>9, <2>1 DEF inside
  <1> QED
    BY <1>8, <1>9

-----------------------------------------------------------------------------
(* While a single time travels, nothing but ConvertTime happens to it.      *)
TimeInv ==
    from = "time" =>
        /\ source \in Filetimes
        /\ step \in {"source", "returned", "refused"}
        /\ CalendarRoundTrips

LEMMA ConvertTimeStep == ASSUME TimeInv, ConvertTime PROVE TimeInv'
PROOF
  <1> DEFINE inside == source.day \in DaysBeforeYear(ExfatEpochYear)
                                         .. DaysBeforeYear(LastExfatYear + 1) - 1
             stamps == MapNtfsTimestamps([create |-> source, modify |-> source,
                                          change |-> source, access |-> source])
  <1>1. source \in Filetimes /\ UNCHANGED <<source, from>>
    BY DEF TimeInv, ConvertTime, Refuse
  <1>2. /\ stamps = [create |-> ToExfat(source, TRUE), modify |-> ToExfat(source, TRUE),
                     access |-> ToExfat(source, FALSE)]
        /\ DOMAIN stamps = {"create", "modify", "access"}
    BY DEF MapNtfsTimestamps
  <1>3. /\ ToExfat(source, TRUE) # NoTime <=> inside
        /\ ToExfat(source, FALSE) # NoTime <=> inside
        /\ inside => /\ ToFiletime(ToExfat(source, TRUE)) = KeptMoment(source, TRUE)
                     /\ ToFiletime([ToExfat(source, FALSE) EXCEPT !.increment = 0])
                            = KeptMoment(source, FALSE)
    BY <1>1, TimeReturns
  <1> HIDE DEF inside, stamps
  <1>4. /\ stamps.create = ToExfat(source, TRUE) /\ stamps.modify = ToExfat(source, TRUE)
        /\ stamps.access = ToExfat(source, FALSE)
    BY <1>2
  <1>5. Mapped(stamps) <=> inside
    <2>1. Mapped(stamps) <=> /\ stamps["create"] # NoTime /\ stamps["modify"] # NoTime
                             /\ stamps["access"] # NoTime
      BY <1>2, Zenon DEF Mapped
    <2> QED
      BY <1>3, <1>4, <2>1, Zenon
  <1>6. inside => /\ MapExfatTimestamps(stamps).create = KeptMoment(source, TRUE)
                  /\ MapExfatTimestamps(stamps).modify = KeptMoment(source, TRUE)
                  /\ MapExfatTimestamps(stamps).access = KeptMoment(source, FALSE)
    BY <1>3, <1>4 DEF MapExfatTimestamps
  <1>7. CASE inside
    <2>1. step' = "returned" /\ returned' = MapExfatTimestamps(stamps)
      BY <1>5, <1>7 DEF ConvertTime, stamps
    <2> QED
      BY <1>1, <1>6, <1>7, <2>1 DEF TimeInv, CalendarRoundTrips, KeptMoment, inside
  <1>8. CASE ~inside
    <2>1. step' = "refused"
      BY <1>5, <1>8 DEF ConvertTime, stamps, Refuse
    <2> QED
      BY <1>1, <1>8, <2>1 DEF TimeInv, CalendarRoundTrips, inside
  <1> QED
    BY <1>7, <1>8

(* Every other step belongs to a volume or changes nothing.                 *)
LEMMA OtherStep ==
    ASSUME TimeInv, Next \/ UNCHANGED vars, ~ConvertTime
    PROVE  TimeInv'
PROOF
  <1>1. CASE ExportNtfs
    BY <1>1 DEF TimeInv, ExportNtfs, Refuse
  <1>2. CASE ExportExfat
    BY <1>2 DEF TimeInv, ExportExfat, Refuse
  <1>3. CASE OlderRelease
    BY <1>3 DEF TimeInv, OlderRelease
  <1>4. CASE Edit
    BY <1>4 DEF TimeInv, Edit
  <1>5. CASE ReturnToNtfs
    BY <1>5 DEF TimeInv, ReturnToNtfs, ReturnMatched, ReturnWithMetadata, ReturnRestored,
                Refuse
  <1>6. CASE ReturnToExfat
    BY <1>6 DEF TimeInv, ReturnToExfat, Refuse
  <1>7. CASE Done \/ UNCHANGED vars
    BY <1>7 DEF TimeInv, Done, vars, CalendarRoundTrips
  <1> QED
    BY <1>1, <1>2, <1>3, <1>4, <1>5, <1>6, <1>7 DEF Next

(* Every FILETIME, whatever set of them is tried, returns from exFAT with   *)
(* 10 ms precision (two seconds for the access time) when its year is one   *)
(* exFAT stores, and is refused otherwise (cross_format.rs: the year and    *)
(* month loops against the closed formula of the way back).                 *)
THEOREM CalendarIsExact == Spec => []CalendarRoundTrips
PROOF
  <1>1. Init => TimeInv
    BY MomentAssumption DEF Init, TimeInv, CalendarRoundTrips
  <1>2. TimeInv /\ [Next]_vars => TimeInv'
    BY ConvertTimeStep, OtherStep
  <1>3. TimeInv => CalendarRoundTrips
    BY DEF TimeInv, CalendarRoundTrips
  <1> QED
    BY <1>1, <1>2, <1>3, PTL DEF Spec
=============================================================================
