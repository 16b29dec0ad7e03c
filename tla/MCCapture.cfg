SPECIFICATION CaptureSpec
CONSTANTS
    PerSecond = 2
    Jiffies = 2
    Works = {{1, 2, 5}}
    Durations = {0, 3}
    CliInterval = 3
    MaxRun = 6
    StartInterval = 3
    StartRefresh = 2
    Intervals = {1}
    Limits = {0, 1}
    MaxNow = 3
    MaxActs = 2
    MaxFails = 1
    Early = 1
    MaxLag = 1
INVARIANTS
    SeriesIsSound
    KeepsDuration
    SeriesIsSession
PROPERTIES
    TimedCaptureEnds
CHECK_DEADLOCK FALSE
