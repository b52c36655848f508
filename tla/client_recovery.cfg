SPECIFICATION ClientSpec
CONSTANTS
    ReplayLimit = 2
    MaxNoProgress = 1
    NoAnswer = NoAnswer
    MaxCommits = 3
    MaxDisconnects = 1
    MaxFailures = 2
INVARIANTS
    StoreMatchesLatest
PROPERTIES
    EventsWakeIdleClient
    GapFilled
    KeepsUpWithStream
CHECK_DEADLOCK FALSE
