\* Violated: a widget handler that lost its lease still ends the event.
CONSTANTS
    Sources = {"widget"}
    Handlers = {h1, h2}
    MaxFaults = 2
    NoHandler = NoHandler
SPECIFICATION Spec
CHECK_DEADLOCK FALSE
PROPERTIES
    ExpiredOwnerCannotPublish
