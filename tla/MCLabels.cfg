SPECIFICATION Spec
CONSTANTS
    Cars = {me, rival}
    Player = me
    Weekend <- PracticeAndRace
    AiSessions = {1}
    Named <- SomeNamed
    Reported <- SomeKinds
    HeldCap = 1
    MaxSubSessions = 2
    MaxUpdates = 2
    MaxDay = 1
INVARIANTS
    NamesNotOlder
    TypeOfItsNumber
    NamedWhenPosted
