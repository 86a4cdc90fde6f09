\* One request at a time: media are changed while a moderator reviews the
\* listing.
SPECIFICATION Spec
CONSTANTS
    Requests = {e1}
    Sweepers = {s1}
CHECK_DEADLOCK FALSE
PROPERTIES ApprovedIsWhatWasReviewed
