SPECIFICATION SpecHost
CONSTANTS
    NumBuf = 2
    MaxLag = 0
    Published = {{"core", "driving", "budget"}, {"core", "metadata", "driving"}}
    MaxTick = 2
    MaxStarts = 2
    MaxFailures = 1
INVARIANTS FrameWhole IndexCurrent FileWhole
PROPERTIES Follows StatusTold
CHECK_DEADLOCK FALSE
