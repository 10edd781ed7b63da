\* The walk ends with the tables.
CHECK_DEADLOCK FALSE
SPECIFICATION CalendarSpec
INVARIANTS
    FestivalsOnTheirLunarDay
