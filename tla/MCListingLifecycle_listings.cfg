\* Two requests and two runs of the hourly job on one listing.
SPECIFICATION FairSpec
CONSTANTS
    Requests = {e1, e2}
    Sweepers = {s1, s2}
CHECK_DEADLOCK FALSE
INVARIANTS ListingTypeOK ReminderOncePerCycle PurgedStaysOffline
PROPERTIES PeriodsAreGrantedOnce EditsGoThroughReview ExpiredListingsRetire
