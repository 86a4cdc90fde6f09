\* One request at a time: an archived listing is renewed.
SPECIFICATION Spec
CONSTANTS
    Requests = {e1}
    Sweepers = {s1}
CHECK_DEADLOCK FALSE
PROPERTIES ArchivedIsFinal
