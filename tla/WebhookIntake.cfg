\* One event of each source, two handlers at a time and four faults.  After the
\* acknowledgement nothing is left to do.
CONSTANTS
    Sources = {"telegram", "webhook", "widget"}
    Handlers = {h1, h2}
    MaxFaults = 4
    NoHandler = NoHandler
SPECIFICATION LiveSpec
CHECK_DEADLOCK FALSE
INVARIANTS
    OneInboundMessage
    ProcessedIsComplete
    AckedIsProcessed
PROPERTIES
    OnlyTheOwnerPublishes
    UpdateIsProcessed
