\* Two events, three attempts, a server that stops twice.
SPECIFICATION FairSpec
CONSTANTS
    Events = {e1, e2}
    Attempts = 3
    Stops = 2
CHECK_DEADLOCK FALSE
INVARIANTS MailsAreAccountedFor
PROPERTIES DeliveriesEnd
