SPECIFICATION CalendarSpec
CONSTANTS
    Null = Null
    DayLength = 6
    WeekLength = 3
    Zones <- MCZones
    BrowserZone <- MCBrowser
    Utc <- MCUtc
    DefaultTime = 4
    DefaultDays <- MCDays
    Dates = {2, 3}
    Times = {0, 2, 5}
    EditTimes = {8, 15}
    MaxEdits = 3
    Horizon = 36
INVARIANTS
    RunsAreExact
    PreviewIsKept
    RulesAgree
CHECK_DEADLOCK FALSE
