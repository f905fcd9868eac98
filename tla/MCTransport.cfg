SPECIFICATION Spec
CONSTANTS
    Modes = {"entra", "static", "dry_run"}
    BatchLimit = 2
    Retries = 2
    RefreshBuffer = 1
    Lifetimes = {1, 3}
    MaxEvents = 4
INVARIANTS
    Accounting
    OrderedReceipt
    ReceiptBound
    TokenAlive
PROPERTIES
    EventSettles
    StreamSpec
