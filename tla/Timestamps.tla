----------------------------- MODULE Timestamps ------------------------------
(***************************************************************************)
(* FILETIME and exFAT timestamps (cross_format.rs). A FILETIME counts ticks *)
(* since 1601; a moment is [day, second, hundredth, tick], the digits of    *)
(* that count in days, seconds, 10 ms and what is left below.               *)
(***************************************************************************)
EXTENDS Integers, FiniteSets, SequencesExt

FiletimeEpochYear == 1601
ExfatEpochYear == 1980
LastExfatYear == 2107

SecondsOfDay == 0 .. 86399
Hundredths == 0 .. 99
Ticks == 0 .. 99999
Filetimes == [day : Nat, second : SecondsOfDay, hundredth : Hundredths, tick : Ticks]

NoTime == [day |-> -1, second |-> 0, hundredth |-> 0, tick |-> 0]

(* Mutant: centuries are always leap years.                                 *)
JulianLeapYear(year) == year % 4 = 0

IsLeapYear(year) == year % 4 = 0 /\ (year % 100 # 0 \/ year % 400 = 0)

DaysInMonth(year, month) ==
    CASE month \in {1, 3, 5, 7, 8, 10, 12} -> 31
      [] month \in {4, 6, 9, 11} -> 30
      [] month = 2 -> IF IsLeapYear(year) THEN 29 ELSE 28
      [] OTHER -> 0

DaysInYear(year) == IF IsLeapYear(year) THEN 366 ELSE 365

LeapYearsThrough(year) == year \div 4 - year \div 100 + year \div 400

DaysBeforeYear(year) ==
    (year - FiletimeEpochYear) * 365
        + LeapYearsThrough(year - 1) - LeapYearsThrough(FiletimeEpochYear - 1)

(* The loop over the months before this one.                                *)
DaysBeforeMonth(year, month) ==
    LET Days(m) == IF m < month THEN DaysInMonth(year, m) ELSE 0 IN
    Days(1) + Days(2) + Days(3) + Days(4) + Days(5) + Days(6)
        + Days(7) + Days(8) + Days(9) + Days(10) + Days(11) + Days(12)

(* The loop over the years: all the years before it have been subtracted    *)
(* from the days, and the days left are fewer than it has.                  *)
DaysCounted(year) ==
    365 * (year - FiletimeEpochYear)
        + Cardinality({y \in FiletimeEpochYear .. year - 1 : IsLeapYear(y)})

LocateYear(day) ==
    CHOOSE year \in FiletimeEpochYear + (day \div 366)
                       .. FiletimeEpochYear + (day \div 365) :
        /\ DaysCounted(year) <= day
        /\ day < DaysCounted(year) + DaysInYear(year)

(* The loop over the months, likewise.                                      *)
LocateMonth(year, days) ==
    CHOOSE month \in 1 .. 12 :
        /\ DaysBeforeMonth(year, month) <= days
        /\ days < DaysBeforeMonth(year, month) + DaysInMonth(year, month)

(* An exFAT timestamp: the packed field, the 10 ms increment and the offset *)
(* from UTC in quarters of an hour (128 is the flag of a valid offset).     *)
Packed(moment, withIncrement, year, month, days) ==
    IF year \notin ExfatEpochYear .. LastExfatYear THEN NoTime
    ELSE [year |-> year - ExfatEpochYear, month |-> month,
          day |-> days - DaysBeforeMonth(year, month) + 1,
          hour |-> moment.second \div 3600,
          minute |-> (moment.second % 3600) \div 60,
          double |-> (moment.second % 60) \div 2,
          increment |-> IF withIncrement
                        THEN (moment.second % 2) * 100 + moment.hundredth ELSE 0,
          offset |-> 128]

ToExfat(moment, withIncrement) ==
    LET InYear(year, days) ==
            Packed(moment, withIncrement, year, LocateMonth(year, days), days)
        Since(year) == InYear(year, moment.day - DaysCounted(year))
    IN Since(LocateYear(moment.day))

QuarterHours(offset) ==
    LET raw == offset % 128 IN
    IF offset < 128 THEN 0 ELSE IF raw < 64 THEN raw ELSE raw - 128

ValidExfat(stamp) ==
    /\ stamp.increment <= 199
    /\ stamp.month \in 1 .. 12
    /\ stamp.day \in 1 .. DaysInMonth(ExfatEpochYear + stamp.year, stamp.month)
    /\ stamp.hour <= 23 /\ stamp.minute <= 59 /\ stamp.double <= 29

(* The seconds are normalized into days; the increment is at most 1.99 s.   *)
ToFiletime(stamp) ==
    IF ~ValidExfat(stamp) THEN NoTime
    ELSE
    LET year == ExfatEpochYear + stamp.year
        days == DaysBeforeYear(year) + DaysBeforeMonth(year, stamp.month) + stamp.day - 1
        seconds == stamp.hour * 3600 + stamp.minute * 60 + stamp.double * 2
                   - QuarterHours(stamp.offset) * 900 + stamp.increment \div 100
    IN [day |-> days + seconds \div 86400, second |-> seconds % 86400,
        hundredth |-> stamp.increment % 100, tick |-> 0]

-----------------------------------------------------------------------------
(* The four NTFS times and the three exFAT times.                           *)
MapNtfsTimestamps(times) ==
    [create |-> ToExfat(times.create, TRUE),
     modify |-> ToExfat(times.modify, TRUE),
     access |-> ToExfat(times.access, FALSE)]

(* exFAT has no metadata-change time: the modification time stands in; the  *)
(* access time has no increment.                                            *)
MapExfatTimestamps(times) ==
    [create |-> ToFiletime(times.create),
     modify |-> ToFiletime(times.modify),
     change |-> ToFiletime(times.modify),
     access |-> ToFiletime([times.access EXCEPT !.increment = 0])]

Mapped(times) == \A f \in DOMAIN times : times[f] # NoTime

Earlier(a, b) ==
    \/ a.day < b.day
    \/ a.day = b.day /\ a.second < b.second
    \/ a.day = b.day /\ a.second = b.second /\ a.hundredth < b.hundredth

Latest(a, b) == IF Earlier(a, b) THEN b ELSE a

ExfatEpoch == [day |-> DaysBeforeYear(ExfatEpochYear), second |-> 0,
               hundredth |-> 0, tick |-> 0]

(* resolve_system_timestamp without an explicit request.                    *)
ResolveSystemTimestamp(all) ==
    FoldLeft(LAMBDA latest, times :
                 LET mapped == MapExfatTimestamps(times)
                 IN Latest(Latest(latest, mapped.create), mapped.modify),
             ExfatEpoch, all)
=============================================================================
