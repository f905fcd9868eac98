SPECIFICATION Spec
CONSTANTS
    Cars = {me}
    Player = me
    BatchLimit = 2
    HeldCap = 1
    RequestCap = 1
    MaxSessions = 2
    MaxNum = 0
    MaxUpdates = 2
    MaxStarts = 2
    MaxRestarts = 0
    MaxRequests = 2
    MaxSignals = 0
INVARIANTS
    ConnectedOncePerAttach
    RequestsOnceInOrder
PROPERTIES
    PublishedIdAdopted
