SPECIFICATION Spec
CONSTANTS
    MaxNum = 1
    KindOf <- Weekend
    States = {0, 4, 5, 6}
    FlagSets <- SomeFlags
    MaxSubSessions = 2
    Cars = {a, b}
    Gaps = {1, 2}
    CloseGap = 2
    MinFrames = 2
    Cooldown = 1
    MaxTime = 2
    Pairs = {p1, own}
    OwnPairs = {own}
    PairGaps = {0, 1, 2, 4}
    EngageGap = 2
    BreakGap = 3
    EngageFrames = 2
    BreakFrames = 3
    ClosingDrop = 1
    ClosingInterval = 1
    MaxFights = 2
    MaxClock = 1
    MaxLap = 2
    Positions = {1, 2}
    PitFrames = 2
    MaxRestarts = 1
    TireMin = 2
    TireMax = 2
    FuelWindow = 2
    Rivals = {r}
    NoRival = NoRival
    NoSlope = NoSlope
    Slopes = {1, 2}
    Buckets = {3}
    PushSlope = 1
    AttackSlope = 1
    PushReadings = 2
    AttackReadings = 3
    Speeds = {0, 30, 80}
    Jump = Jump
    Expiry = 2
    DropLimit = 8
    MovingLimit = 5
    Anchors = 3
    SegmentTimes = {100, 102, 115, 125}
    MinBucket = 5
    MinStreak = 20
INVARIANTS
    PictureCurrent
    PitRoadTold
    DecidedInTime
    StintEvidence
    AlertsOfDrivers
    RunsReported
PROPERTIES
    EndingToldOnce
    BrokenAsEngaged
    QuietAfterEngaging
    TellsOfFights
    FramesOfEvidence
    LapAsDriven
    AlertsPaired
