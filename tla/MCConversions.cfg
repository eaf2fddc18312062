SPECIFICATION Spec
CONSTANTS
    FirstDay <- MCFirstDay
    LastDay = 49307
    FirstYear = 1896
    FirstWeekDay = 3
    Numbers <- MCNumbers
    Zones <- MCZones
    Instants <- MCInstants
INVARIANTS
    CalendarExact
    TextExact
CHECK_DEADLOCK FALSE
