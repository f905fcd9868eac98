SPECIFICATION Spec
CONSTANTS
    Buttons <- RigButtons
    InitialFiles <- RigFiles
    Debounce = 1
    FocusCooldown = 2
    ToggleCooldown = 1
    ButtonlessReports = FALSE
    MaxHolds <- RigHolds
    MaxReports = 1
    MaxTime = 2
INVARIANTS
    Paced
    FileAgrees
    OneUsePerHold
PROPERTY
    RequestAsBound
