\* Two messages, which arrive in either order, two overlapping attempts and one
\* takeover.
CONSTANTS
    Messages = {1, 2}
    Attempts = {a1, a2}
    MaxAttempts = 2
    MaxTakeovers = 1
    NoMessage = NoMessage
SYMMETRY AttemptSymmetry
SPECIFICATION Spec
INVARIANTS
    OneReplyPerSuccess
    ActiveRunIsAtTheFence
PROPERTIES
    SettledRunsStaySettled
    NoReplyAfterTakeOver
    RepliesInOrder
