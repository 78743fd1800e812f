SPECIFICATION LocationSpec
CONSTANTS
    Week = 2
    Horizon = 4
    WeekdayLists <- AnyWeekdays
    ExceptionLists <- AnyExceptions
    LastDay = 3
INVARIANTS
    ExceptionsReadAlike
    PeriodsAreTheClosedRanges
    AvoidsClosuresInWeekOrder
PROPERTIES
    CleaningKeepsTheCalendar
