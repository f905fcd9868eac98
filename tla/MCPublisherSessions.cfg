SPECIFICATION Spec
CONSTANTS
    Cars = {me}
    Player = me
    BatchLimit = 2
    HeldCap = 1
    RequestCap = 1
    MaxSessions = 2
    MaxNum = 0
    MaxUpdates = 2
    MaxStarts = 1
    MaxRestarts = 1
    MaxRequests = 0
    MaxSignals = 2
INVARIANTS
    HelloFirst
    TransitionAnnounced
    StampsNeverGoBack
    EnvelopeNotOlder
