\* Violated: an older message that is persisted late supersedes a newer one.
CONSTANTS
    Messages = {1, 2}
    Attempts = {a1, a2}
    MaxAttempts = 2
    MaxTakeovers = 1
    NoMessage = NoMessage
SPECIFICATION Spec
PROPERTIES
    SupersededByNewerInput
