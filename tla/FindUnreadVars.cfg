SPECIFICATION Spec
CONSTANTS
    NumBuf = 3
    MaxLag = 1
    Published = {{"core", "driving", "budget"}, {"core", "metadata", "driving"}}
    MaxTick = 2
    MaxStarts = 1
INVARIANT FrameShowsDriving
CHECK_DEADLOCK FALSE
