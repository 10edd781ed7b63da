------------------------------ MODULE Calendar ------------------------------
(***************************************************************************)
(* crates/tools-utility/src/date.rs: lunar dates, solar terms and holidays *)
(* from baked tables of four years.  The lookups keep no state: a client   *)
(* asks for any day and for those that follow it, between the last day     *)
(* that is too early for the tables and the first that is too late.        *)
(***************************************************************************)
EXTENDS Integers, Sequences, FiniteSetsExt

VARIABLE today

calendarVars == <<today>>

Date(y, m, d) == [year |-> y, month |-> m, day |-> d]

\* SUPPORTED_YEAR_MIN, SUPPORTED_YEAR_MAX
Supported(y) == y \in 2024..2027

-----------------------------------------------------------------------------
(* The Gregorian calendar.                                                 *)

IsLeapYear(y) == (y % 4 = 0 /\ y % 100 # 0) \/ y % 400 = 0

DaysInMonth(y, m) ==
    CASE m \in {1, 3, 5, 7, 8, 10, 12} -> 31
      [] m \in {4, 6, 9, 11} -> 30
      [] m = 2 -> IF IsLeapYear(y) THEN 29 ELSE 28

DaysInYear(y) == IF IsLeapYear(y) THEN 366 ELSE 365

DayOfYear(date) ==
    date.day + MapThenSumSet(LAMBDA m : DaysInMonth(date.year, m), 1..(date.month - 1))

-----------------------------------------------------------------------------
(* The lunar tables: the day of the new year, the lengths of the months    *)
(* from there on, and which of them are leap months.                       *)

LunarYear == [y \in 2024..2027 |->
    CASE y = 2024 -> [newYear |-> Date(2024, 2, 10), leap |-> {},
            months |-> <<29, 30, 29, 29, 30, 29, 30, 30, 29, 30, 30, 29>>]
      [] y = 2025 -> [newYear |-> Date(2025, 1, 29), leap |-> {7},
            months |-> <<30, 29, 30, 29, 30, 29, 29, 30, 30, 29, 30, 29, 30>>]
      [] y = 2026 -> [newYear |-> Date(2026, 2, 17), leap |-> {},
            months |-> <<30, 29, 30, 29, 30, 29, 30, 29, 30, 29, 30, 30>>]
      [] y = 2027 -> [newYear |-> Date(2027, 2, 6), leap |-> {},
            months |-> <<30, 29, 29, 30, 29, 30, 29, 30, 29, 30, 30, 29>>]]

\* UnsupportedYear, UnsupportedLunarYear: the year whose table is wanting.
Unsupported(y) == [ok |-> FALSE, needed |-> y]

\* Mutant: a leap month takes the number of the month after it.
NumberOfNext(lunar, i) == 1 + Cardinality((1..(i - 1)) \ lunar.leap)

\* A leap month repeats the number of the month before it.
MonthNumber(lunar, i) ==
    1 + Cardinality((1..(i - 1)) \ lunar.leap) - (IF i \in lunar.leap THEN 1 ELSE 0)

\* The day that is so many days after the new year of lunar year y.
WalkMonths(y, days) ==
    LET lunar == LunarYear[y]
        Before(i) == MapThenSumSet(LAMBDA j : lunar.months[j], 1..(i - 1))
        hits == {i \in DOMAIN lunar.months : Before(i) <= days /\ days < Before(i + 1)}
    IN  IF hits = {} THEN Unsupported(y + 1)
        ELSE LET i == CHOOSE i \in hits : TRUE
             IN  [ok |-> TRUE, year |-> y, month |-> MonthNumber(lunar, i),
                  day |-> days - Before(i) + 1, leap |-> i \in lunar.leap]

\* A day before the new year is walked to from the new year before.
GregorianToLunar(date) ==
    LET y == date.year
        sinceNewYear == DayOfYear(date) - DayOfYear(LunarYear[y].newYear)
        sinceLast == DayOfYear(date) + DaysInYear(y - 1) - DayOfYear(LunarYear[y - 1].newYear)
    IN  IF ~Supported(y) THEN Unsupported(y)
        ELSE IF sinceNewYear >= 0 THEN WalkMonths(y, sinceNewYear)
        ELSE IF Supported(y - 1) THEN WalkMonths(y - 1, sinceLast)
        ELSE Unsupported(y - 1)

-----------------------------------------------------------------------------
(* Solar terms: two in every month, on these days of it.                   *)

SolarTerms == <<"XiaoHan", "DaHan", "LiChun", "YuShui", "JingZhe", "ChunFen", "QingMing", "GuYu",
                "LiXia", "XiaoMan", "MangZhong", "XiaZhi", "XiaoShu", "DaShu", "LiQiu", "ChuShu",
                "BaiLu", "QiuFen", "HanLu", "ShuangJiang", "LiDong", "XiaoXue", "DaXue", "DongZhi">>

TermDays == [y \in 2024..2027 |->
    CASE y = 2024 -> <<6, 20, 4, 19, 5, 20, 4, 19, 5, 20, 5, 21,
                       6, 22, 7, 22, 7, 22, 8, 23, 7, 22, 6, 21>>
      [] y = 2025 -> <<5, 20, 3, 18, 5, 20, 4, 20, 5, 21, 5, 21,
                       7, 22, 7, 23, 7, 23, 8, 23, 7, 22, 7, 21>>
      [] y = 2026 -> <<5, 20, 4, 18, 5, 20, 5, 20, 5, 21, 5, 21,
                       7, 23, 7, 23, 7, 23, 8, 23, 7, 22, 7, 21>>
      [] y = 2027 -> <<5, 20, 4, 19, 6, 21, 5, 20, 6, 21, 6, 21,
                       7, 23, 8, 23, 8, 23, 8, 23, 7, 22, 7, 22>>]

\* solar_term_for_date, as the set of its one answer or none
SolarTermOn(date) ==
    IF ~Supported(date.year) THEN {}
    ELSE {SolarTerms[t] : t \in {t \in 1..24 :
             (t + 1) \div 2 = date.month /\ TermDays[date.year][t] = date.day}}

-----------------------------------------------------------------------------
(* Holidays: those on the same day every year, and those that move.        *)

FixedHolidays == [Founding |-> <<1, 1>>, Peace |-> <<2, 28>>, Children |-> <<4, 4>>,
                  Labour |-> <<5, 1>>, DoubleTen |-> <<10, 10>>]

MovableHolidays == [y \in 2024..2027 |->
    CASE y = 2024 -> [NewYear |-> <<2, 10>>, QingMing |-> <<4, 4>>,
                      DragonBoat |-> <<6, 10>>, MidAutumn |-> <<9, 17>>]
      [] y = 2025 -> [NewYear |-> <<1, 29>>, QingMing |-> <<4, 4>>,
                      DragonBoat |-> <<5, 31>>, MidAutumn |-> <<10, 6>>]
      [] y = 2026 -> [NewYear |-> <<2, 17>>, QingMing |-> <<4, 5>>,
                      DragonBoat |-> <<6, 19>>, MidAutumn |-> <<9, 25>>]
      [] y = 2027 -> [NewYear |-> <<2, 6>>, QingMing |-> <<4, 5>>,
                      DragonBoat |-> <<6, 9>>, MidAutumn |-> <<9, 15>>]]

OnDay(holidays, date) == {h \in DOMAIN holidays : holidays[h] = <<date.month, date.day>>}

\* Mutant: Qing Ming on its customary day in every year.
CustomaryHolidaysOn(date) ==
    IF ~Supported(date.year) THEN {}
    ELSE OnDay(FixedHolidays, date) \cup (IF <<date.month, date.day>> = <<4, 5>> THEN {"QingMing"} ELSE {})

\* is_national_holiday, as the set of the holidays that its answer names
HolidaysOn(date) ==
    IF ~Supported(date.year) THEN {}
    ELSE OnDay(FixedHolidays, date) \cup OnDay(MovableHolidays[date.year], date)

-----------------------------------------------------------------------------
FirstDay == Date(2023, 12, 31)
LastDay == Date(2028, 1, 1)

SupportedDays ==
    {date \in {Date(y, m, d) : y \in 2024..2027, m \in 1..12, d \in 1..31} :
        date.day <= DaysInMonth(date.year, date.month)}

CalendarInit == today \in {FirstDay} \cup SupportedDays

\* The next valid date (validate_gregorian).
NextDay(date) ==
    IF date.day < DaysInMonth(date.year, date.month) THEN [date EXCEPT !.day = @ + 1]
    ELSE IF date.month < 12 THEN Date(date.year, date.month + 1, 1)
    ELSE Date(date.year + 1, 1, 1)

AskNextDay == today # LastDay /\ today' = NextDay(today)

CalendarNext == AskNextDay

CalendarSpec == CalendarInit /\ [][CalendarNext]_calendarVars
-----------------------------------------------------------------------------
\* What the lunar calendar may call the day after x: the next day of the
\* month, or the first of the next month once 29 or 30 days are over.
Follows(x, y) ==
    \/ y = [x EXCEPT !.day = @ + 1] /\ y.day <= 30
    \/ /\ y.day = 1 /\ x.day \in {29, 30}
       /\ \/ y.year = x.year /\ ~y.leap /\ y.month = x.month + 1
          \/ y.year = x.year /\ y.leap /\ ~x.leap /\ y.month = x.month
          \/ y.year = x.year + 1 /\ ~y.leap /\ x.month = 12 /\ y.month = 1

\* From the first lunar new year of the tables on, every supported day has a
\* lunar date, and it follows that of the day before: over leap months, over
\* the Gregorian new year and over the change of tables at the lunar one
\* (date.rs:225-309, 353-400).
LunarAdvances == [][LET before == GregorianToLunar(today)
                        after == GregorianToLunar(today')
                    IN  before.ok /\ Supported(today'.year) =>
                            after.ok /\ Follows(before, after)]_calendarVars

\* "so `is_national_holiday` and `solar_term_for_date` agree on the date"
\* (date.rs:699-704): the Qing Ming holiday is on the day of the solar term.
QingMingAgrees == "QingMing" \in HolidaysOn(today) <=> "QingMing" \in SolarTermOn(today)

\* The day of a festival that the holiday table names has the lunar date of
\* that festival: 1/1, 5/5 ("the canonical cross-check", date.rs:464-465), 8/15.
FestivalsOnTheirLunarDay ==
    LET lunar == GregorianToLunar(today)
        Falls(festival, m, d) == festival \in HolidaysOn(today) =>
            lunar.ok /\ lunar.month = m /\ lunar.day = d /\ ~lunar.leap
    IN  Falls("NewYear", 1, 1) /\ Falls("DragonBoat", 5, 5) /\ Falls("MidAutumn", 8, 15)
=============================================================================
