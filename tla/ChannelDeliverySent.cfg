\* Violated: a run that found the channel unusable overwrites the message of a run that sent it.
CONSTANTS
    Runs = {d1, d2}
    Routes = {k1}
    MaxAttempts = 2
    NoRun = NoRun
    NoRoute = NoRoute
SPECIFICATION Spec
CHECK_DEADLOCK FALSE
PROPERTIES
    SentStaysSent
