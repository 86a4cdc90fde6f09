--------------------------- MODULE ListingProofs ---------------------------
(***************************************************************************)
(* Proofs about ListingLifecycle, for any number of requests and of runs   *)
(* of the hourly job: the type invariant, one reminder per cycle, what     *)
(* retention has purged stays offline, periods are granted once, and edits *)
(* of the fields of PATCH go through review.                               *)
(***************************************************************************)
EXTENDS ListingLifecycle, TLAPS

\* A reminder sent in this cycle is marked on the row.
RemindersAreMarked == reminders = IF reminded THEN 1 ELSE 0

\* What a publication under way has read is not older than a period, nor than
\* the retention.
PublicationsAreFresh ==
    \A e \in Requests : request[e].op = "PUBLISH" =>
        /\ purge # "DUE"
        /\ request[e].first => expires \in {"NONE", "FAR"}
        /\ ~request[e].first => expires # "NONE"

\* The row that the retention job has purged.
PurgedRow == deleted = "PURGE" => purge = "DUE" /\ status # "PUBLISHED"

\* A listing under review is what was submitted, with a period to start.
UnderReview ==
    status = "PENDING_REVIEW" => ~edited /\ (expires = "NONE" => period)

LifecycleInv ==
    /\ ListingTypeOK
    /\ RemindersAreMarked
    /\ PublicationsAreFresh
    /\ PurgedRow
    /\ UnderReview

-----------------------------------------------------------------------------
\* The invariant holds of a new listing.
LEMMA InitEstablishesLifecycleInv == Init => LifecycleInv
<1> SUFFICES ASSUME Init PROVE LifecycleInv
  OBVIOUS
<1>1. request \in [Requests -> [op : Operations, first : BOOLEAN]]
  BY DEF Init, NoRequest, Operations
<1>2. \A e \in Requests : request[e].op # "PUBLISH"
  BY DEF Init, NoRequest
<1>3. ListingTypeOK
  BY <1>1 DEF Init, ListingTypeOK, TRANSITIONS
<1> QED BY <1>2, <1>3 DEF Init, LifecycleInv, RemindersAreMarked, PublicationsAreFresh,
                          PurgedRow, UnderReview

\* A publication that read expires as it is, while nothing is due for purge,
\* keeps the invariant.
LEMMA MarkPublishedKeepsRow ==
    ASSUME LifecycleInv, NEW first \in BOOLEAN, MarkPublished(first),
           deleted # "PURGE",
           ~first => expires # "NONE"
    PROVE  /\ status' = "PUBLISHED"
           /\ expires' # "NONE"
           /\ expires' \in {"FAR", expires}
           /\ purge' \in {"NONE", purge}
           /\ deleted' = deleted /\ edited' = edited /\ contentEdited' = contentEdited
           /\ renewed' = renewed
           /\ RemindersAreMarked'
           /\ period' \in BOOLEAN /\ frozen' \in BOOLEAN /\ (frozen' <=> purge' # "NONE")
           /\ reminded' \in BOOLEAN /\ reminders' \in Nat
<1> USE DEF LifecycleInv, ListingTypeOK, RemindersAreMarked
<1>1. status' = "PUBLISHED" /\ UNCHANGED <<renewed, deleted, edited, contentEdited>>
  BY DEF MarkPublished
<1>2. CASE first
  <2>1. StartCycle
    BY <1>2 DEF MarkPublished
  <2> QED BY <1>1, <2>1 DEF StartCycle
<1>3. CASE ~first
  <2>1. UNCHANGED <<period, expires, reminded, frozen, purge, reminders>>
    BY <1>3 DEF MarkPublished
  <2> QED BY <1>1, <1>3, <2>1
<1> QED BY <1>2, <1>3

-----------------------------------------------------------------------------
\* The steps of the review keep the invariant.
LEMMA ReviewKeepsLifecycleInv ==
    ASSUME LifecycleInv, Review
    PROVE  LifecycleInv'
<1> USE DEF LifecycleInv, ListingTypeOK, RemindersAreMarked, PublicationsAreFresh, PurgedRow,
            UnderReview
<1>1. CASE SubmitForReview
  BY <1>1 DEF SubmitForReview, TRANSITIONS
<1>2. CASE UpdateListing
  BY <1>2 DEF UpdateListing
<1>3. CASE Approve
  <2> DEFINE first == expires = "NONE" /\ period
  <2>1. MarkPublished(first) /\ deleted = "NO" /\ request' = request /\ sweep' = sweep
    BY <1>3 DEF Approve
  <2>2. first \in BOOLEAN /\ (~first => expires # "NONE")
    BY <1>3 DEF Approve
  <2>3. /\ first => expires' = "FAR" /\ purge' = "NONE"
        /\ ~first => expires' = expires /\ purge' = purge
    BY <2>1 DEF MarkPublished, StartCycle
  <2> HIDE DEF first
  <2>4. /\ status' = "PUBLISHED"
        /\ expires' # "NONE"
        /\ expires' \in {"FAR", expires}
        /\ purge' \in {"NONE", purge}
        /\ deleted' = deleted /\ edited' = edited /\ contentEdited' = contentEdited
           /\ renewed' = renewed
        /\ RemindersAreMarked'
        /\ period' \in BOOLEAN /\ frozen' \in BOOLEAN /\ (frozen' <=> purge' # "NONE")
        /\ reminded' \in BOOLEAN /\ reminders' \in Nat
    BY <2>1, <2>2, MarkPublishedKeepsRow
  <2>5. ListingTypeOK'
    BY <2>1, <2>4 DEF TRANSITIONS
  <2>6. PublicationsAreFresh'
    BY <2>1, <2>3, <2>4
  <2> QED BY <2>1, <2>4, <2>5, <2>6
<1>4. CASE ReturnForChanges
  BY <1>4 DEF ReturnForChanges, MarkStatus, TRANSITIONS
<1>5. CASE UpdateContent
  BY <1>5 DEF UpdateContent
<1> QED BY <1>1, <1>2, <1>3, <1>4, <1>5 DEF Review

\* A read keeps the invariant: what it read is true now.
LEMMA ReadsKeepLifecycleInv ==
    ASSUME LifecycleInv, NEW e \in Requests, NEW op \in Operations, NEW first \in BOOLEAN,
           Reads(e, op, first),
           op = "PUBLISH" => ~frozen /\ first = (expires = "NONE")
    PROVE  LifecycleInv'
<1> USE DEF LifecycleInv, ListingTypeOK, RemindersAreMarked, PublicationsAreFresh, PurgedRow,
            UnderReview
<1>1. /\ request' = [request EXCEPT ![e] = [op |-> op, first |-> first]]
      /\ UNCHANGED <<status, period, expires, frozen, purge, reminded, renewed, deleted,
                     edited, contentEdited, sweep, reminders>>
  BY DEF Reads, listingVars
<1>2. request' \in [Requests -> [op : Operations, first : BOOLEAN]]
  BY <1>1
<1>3. ASSUME NEW f \in Requests, request'[f].op = "PUBLISH"
      PROVE  /\ purge # "DUE"
             /\ request'[f].first => expires \in {"NONE", "FAR"}
             /\ ~request'[f].first => expires # "NONE"
  <2>1. CASE f = e
    BY <1>1, <1>3, <2>1
  <2>2. CASE f # e
    BY <1>1, <1>3, <2>2
  <2> QED BY <2>1, <2>2
<1>4. PublicationsAreFresh'
  BY <1>1, <1>3
<1> QED BY <1>1, <1>2, <1>4

\* A write keeps the invariant: a renewal looks again, and a publication that
\* does not look again is a fresh one.
LEMMA WritesKeepLifecycleInv ==
    ASSUME LifecycleInv, NEW e \in Requests, Writes(e)
    PROVE  LifecycleInv'
<1> USE DEF LifecycleInv, ListingTypeOK, RemindersAreMarked, PublicationsAreFresh, PurgedRow,
            UnderReview
<1>1. request' = [request EXCEPT ![e] = NoRequest] /\ sweep' = sweep
  BY DEF Writes
<1>2. /\ request' \in [Requests -> [op : Operations, first : BOOLEAN]]
      /\ request'[e].op # "PUBLISH"
      /\ \A f \in Requests : f # e => request'[f] = request[f]
  BY <1>1 DEF NoRequest, Operations
<1>3. \A f \in Requests : request'[f].op = "PUBLISH" => request'[f] = request[f]
  BY <1>2
<1>4. CASE request[e].op = "PUBLISH" /\ MarkPublished(request[e].first)
  <2> DEFINE first == request[e].first
  <2>1. first \in BOOLEAN
    OBVIOUS
  <2>2. deleted # "PURGE" /\ (~first => expires # "NONE")
    BY <1>4
  <2>3. /\ first => expires' = "FAR" /\ purge' = "NONE"
        /\ ~first => expires' = expires /\ purge' = purge
    BY <1>4 DEF MarkPublished, StartCycle
  <2>4. MarkPublished(first)
    BY <1>4
  <2> HIDE DEF first
  <2>5. /\ status' = "PUBLISHED"
        /\ expires' # "NONE"
        /\ expires' \in {"FAR", expires}
        /\ purge' \in {"NONE", purge}
        /\ deleted' = deleted /\ edited' = edited /\ contentEdited' = contentEdited
           /\ renewed' = renewed
        /\ RemindersAreMarked'
        /\ period' \in BOOLEAN /\ frozen' \in BOOLEAN /\ (frozen' <=> purge' # "NONE")
        /\ reminded' \in BOOLEAN /\ reminders' \in Nat
    BY <2>1, <2>2, <2>4, MarkPublishedKeepsRow
  <2>6. ListingTypeOK'
    BY <1>1, <1>2, <2>5 DEF TRANSITIONS
  <2>7. PublicationsAreFresh'
    BY <1>3, <2>3, <2>5
  <2> QED BY <2>2, <2>5, <2>6, <2>7
<1>5. CASE MarkStatus("UNPUBLISHED") \/ MarkStatus("ARCHIVED")
  BY <1>1, <1>2, <1>3, <1>5 DEF MarkStatus, TRANSITIONS
<1>6. CASE SoftDelete
  BY <1>1, <1>2, <1>3, <1>6 DEF SoftDelete
<1>7. CASE UNCHANGED <<listingVars, reminders>>
  BY <1>1, <1>2, <1>3, <1>7 DEF listingVars
<1>8. CASE Extend /\ ~UNCHANGED <<listingVars, reminders>>
  <2>1. /\ ~frozen /\ deleted = "NO" /\ status = "PUBLISHED"
        /\ expires' = "FAR" /\ period' = TRUE
        /\ reminded' = FALSE /\ reminders' = 0 /\ renewed' = TRUE
        /\ UNCHANGED <<status, frozen, purge, deleted, edited, contentEdited>>
    BY <1>8 DEF Extend
  <2> QED BY <1>1, <1>2, <1>3, <2>1
<1>9. CASE Reactivate /\ ~UNCHANGED <<listingVars, reminders>>
  <2>1. /\ deleted = "NO" /\ StartCycle
        /\ status' = "PUBLISHED" /\ renewed' = TRUE
        /\ UNCHANGED <<deleted, edited, contentEdited>>
    BY <1>9 DEF Reactivate
  <2>2. /\ period' = TRUE /\ expires' = "FAR" /\ reminded' = FALSE /\ reminders' = 0
        /\ frozen' = FALSE /\ purge' = "NONE"
    BY <2>1 DEF StartCycle
  <2> QED BY <1>1, <1>2, <1>3, <2>1, <2>2 DEF TRANSITIONS
<1> QED BY <1>4, <1>5, <1>6, <1>7, <1>8, <1>9 DEF Writes

\* The hourly job keeps the invariant.
LEMMA SweepKeepsLifecycleInv ==
    ASSUME LifecycleInv, NEW s \in Sweepers, SweepStep(s)
    PROVE  LifecycleInv'
<1> USE DEF LifecycleInv, ListingTypeOK, RemindersAreMarked, PublicationsAreFresh, PurgedRow,
            UnderReview
<1>1. CASE SweepFreezes(s)
  BY <1>1 DEF SweepFreezes, Step, TRANSITIONS
<1>2. CASE SweepListsDue(s)
  BY <1>2 DEF SweepListsDue, Step, listingVars
<1>3. CASE SweepClaims(s)
  <2>1. sweep' \in [Sweepers -> {"IDLE", "FROZE", "LISTED"}]
    BY <1>3 DEF SweepClaims, Step
  <2>2. UNCHANGED <<status, period, expires, frozen, purge, renewed, deleted, edited, contentEdited, request>>
    BY <1>3 DEF SweepClaims
  <2>3. CASE DueForReminder
    <3>1. reminded' = TRUE /\ reminders' = reminders + 1 /\ reminders = 0
      BY <1>3, <2>3 DEF SweepClaims, DueForReminder
    <3> QED BY <2>1, <2>2, <3>1
  <2>4. CASE ~DueForReminder
    <3>1. (reminded' <=> reminded) /\ reminded' \in BOOLEAN /\ reminders' = reminders
      BY <1>3, <2>4 DEF SweepClaims
    <3> QED BY <2>1, <2>2, <3>1
  <2> QED BY <2>3, <2>4
<1>4. CASE SweepFails(s)
  BY <1>4 DEF SweepFails, listingVars
<1> QED BY <1>1, <1>2, <1>3, <1>4 DEF SweepStep

\* The daily job and the passing of time keep the invariant.
LEMMA TimeKeepsLifecycleInv ==
    ASSUME LifecycleInv, PurgeRetired \/ ExpiryNears \/ RetentionEnds \/ DebouncePasses
    PROVE  LifecycleInv'
<1> USE DEF LifecycleInv, ListingTypeOK, RemindersAreMarked, PublicationsAreFresh, PurgedRow,
            UnderReview
<1>1. CASE PurgeRetired
  BY <1>1 DEF PurgeRetired
<1>2. CASE ExpiryNears
  BY <1>2 DEF ExpiryNears, Publishing
<1>3. CASE RetentionEnds
  BY <1>3 DEF RetentionEnds, Publishing
<1>4. CASE DebouncePasses
  BY <1>4 DEF DebouncePasses
<1> QED BY <1>1, <1>2, <1>3, <1>4

\* Every step keeps the invariant.
LEMMA NextKeepsLifecycleInv == LifecycleInv /\ [Next]_vars => LifecycleInv'
<1> SUFFICES ASSUME LifecycleInv, [Next]_vars PROVE LifecycleInv'
  OBVIOUS
<1>1. CASE Review
  BY <1>1, ReviewKeepsLifecycleInv
<1>2. ASSUME NEW e \in Requests, RequestStep(e)
      PROVE  LifecycleInv'
  <2>1. CASE PublishReads(e)
    <3>1. Reads(e, "PUBLISH", expires = "NONE") /\ ~frozen
      BY <2>1 DEF PublishReads
    <3>2. "PUBLISH" \in Operations /\ (expires = "NONE") \in BOOLEAN
      BY DEF Operations
    <3> QED BY <3>1, <3>2, ReadsKeepLifecycleInv
  <2>2. ASSUME NEW op \in Operations \ {"PUBLISH"}, Reads(e, op, FALSE)
        PROVE  LifecycleInv'
    BY <2>2, ReadsKeepLifecycleInv
  <2>3. CASE UnpublishReads(e) \/ ArchiveReads(e) \/ DeleteReads(e) \/ RenewReads(e)
    BY <2>2, <2>3 DEF UnpublishReads, ArchiveReads, DeleteReads, RenewReads, Operations
  <2>4. CASE Writes(e)
    BY <2>4, WritesKeepLifecycleInv
  <2> QED BY <1>2, <2>1, <2>3, <2>4 DEF RequestStep
<1>3. ASSUME NEW s \in Sweepers, SweepStep(s)
      PROVE  LifecycleInv'
  BY <1>3, SweepKeepsLifecycleInv
<1>4. CASE PurgeRetired \/ ExpiryNears \/ RetentionEnds \/ DebouncePasses
  BY <1>4, TimeKeepsLifecycleInv
<1>5. CASE UNCHANGED vars
  BY <1>5 DEF vars, listingVars, LifecycleInv, ListingTypeOK, RemindersAreMarked,
              PublicationsAreFresh, PurgedRow, UnderReview
<1> QED BY <1>1, <1>2, <1>3, <1>4, <1>5 DEF Next

\* The invariant holds throughout.
LEMMA LifecycleInvHolds == Spec => []LifecycleInv
BY InitEstablishesLifecycleInv, NextKeepsLifecycleInv, PTL DEF Spec

-----------------------------------------------------------------------------
\* The columns of a listing keep their values, and frozen_at and purge_after
\* are set and cleared together.
THEOREM ListingTypeCorrect == Spec => []ListingTypeOK
<1>1. LifecycleInv => ListingTypeOK
  BY DEF LifecycleInv
<1> QED BY <1>1, LifecycleInvHolds, PTL

\* However runs of the hourly job overlap, a partner is reminded at most once
\* in a publication cycle.
THEOREM RemindedOnce == Spec => []ReminderOncePerCycle
<1>1. LifecycleInv => ReminderOncePerCycle
  BY DEF LifecycleInv, RemindersAreMarked, ReminderOncePerCycle
<1> QED BY <1>1, LifecycleInvHolds, PTL

\* A renewal or a publication racing the retention job does not put a purged
\* listing online.
THEOREM PurgedStays == Spec => []PurgedStaysOffline
<1>1. LifecycleInv => PurgedStaysOffline
  BY DEF LifecycleInv, ListingTypeOK, PurgedRow, PurgedStaysOffline
<1> QED BY <1>1, LifecycleInvHolds, PTL

-----------------------------------------------------------------------------
\* Steps that put nothing online and give no time.
LEMMA QuietSteps ==
    ASSUME LifecycleInv,
           \/ SubmitForReview \/ UpdateListing \/ UpdateContent \/ ReturnForChanges
           \/ \E e \in Requests : \/ PublishReads(e) \/ UnpublishReads(e)
                                  \/ ArchiveReads(e) \/ DeleteReads(e) \/ RenewReads(e)
           \/ \E s \in Sweepers : SweepStep(s)
           \/ PurgeRetired \/ ExpiryNears \/ RetentionEnds \/ DebouncePasses
           \/ UNCHANGED vars
    PROVE  /\ status' = "PUBLISHED" => status = "PUBLISHED" /\ edited' = edited
           /\ expires' = "FAR" => expires = "FAR"
<1>1. CASE SubmitForReview \/ UpdateListing \/ UpdateContent \/ ReturnForChanges
  BY <1>1 DEF SubmitForReview, UpdateListing, UpdateContent, ReturnForChanges, MarkStatus
<1>2. CASE \E e \in Requests : \/ PublishReads(e) \/ UnpublishReads(e)
                               \/ ArchiveReads(e) \/ DeleteReads(e) \/ RenewReads(e)
  BY <1>2 DEF PublishReads, UnpublishReads, ArchiveReads, DeleteReads, RenewReads, Reads,
              listingVars
<1>3. CASE \E s \in Sweepers : SweepStep(s)
  BY <1>3 DEF SweepStep, SweepFreezes, SweepListsDue, SweepClaims, SweepFails, listingVars
<1>4. CASE PurgeRetired \/ ExpiryNears \/ RetentionEnds \/ DebouncePasses
  BY <1>4 DEF PurgeRetired, ExpiryNears, RetentionEnds, DebouncePasses
<1>5. CASE UNCHANGED vars
  BY <1>5 DEF vars, listingVars
<1> QED BY <1>1, <1>2, <1>3, <1>4, <1>5

\* A step is a quiet one, an approval, or a request's write.
LEMMA OtherSteps ==
    ASSUME LifecycleInv, [Next]_vars, ~Approve, \A e \in Requests : ~Writes(e)
    PROVE  /\ status' = "PUBLISHED" => status = "PUBLISHED" /\ edited' = edited
           /\ expires' = "FAR" => expires = "FAR"
BY QuietSteps DEF Next, Review, RequestStep

\* A listing goes online with a period, and only a renewal gives it more.
THEOREM PeriodsGranted == Spec => PeriodsAreGrantedOnce
<1> DEFINE Granted ==
      /\ status' = "PUBLISHED" /\ status # "PUBLISHED" => expires' # "NONE"
      /\ expires' = "FAR" /\ expires # "FAR" => expires = "NONE" \/ (renewed' /\ ~renewed)
<1>1. ASSUME LifecycleInv, [Next]_vars PROVE Granted
  <2>1. CASE Approve
    BY <1>1, <2>1 DEF Approve, MarkPublished, StartCycle, LifecycleInv, UnderReview
  <2>2. ASSUME NEW e \in Requests, Writes(e) PROVE Granted
    <3> USE DEF LifecycleInv, ListingTypeOK, PublicationsAreFresh
    <3>1. CASE request[e].op = "PUBLISH" /\ MarkPublished(request[e].first)
      BY <1>1, <3>1 DEF MarkPublished, StartCycle
    <3>2. CASE MarkStatus("UNPUBLISHED") \/ MarkStatus("ARCHIVED") \/ SoftDelete
      BY <3>2 DEF MarkStatus, SoftDelete
    <3>3. CASE Extend
      BY <3>3 DEF Extend, listingVars
    <3>4. CASE Reactivate
      BY <3>4 DEF Reactivate, StartCycle, listingVars
    <3> QED BY <2>2, <3>1, <3>2, <3>3, <3>4 DEF Writes
  <2>3. CASE ~Approve /\ \A e \in Requests : ~Writes(e)
    BY <1>1, <2>3, OtherSteps
  <2> QED BY <2>1, <2>2, <2>3
<1>2. LifecycleInv /\ [Next]_vars => [Granted]_vars
  BY <1>1
<1> QED BY <1>2, LifecycleInvHolds, PTL DEF Spec, PeriodsAreGrantedOnce

\* An approval never puts online a field of PATCH that was edited after its
\* submission; media and collections are not covered (ApprovedIsWhatWasReviewed).
THEOREM EditsReviewed == Spec => EditsGoThroughReview
<1> DEFINE Reviewed ==
      edited' /\ status' = "PUBLISHED" =>
          \/ edited /\ status = "PUBLISHED"
          \/ frozen
          \/ \E e \in Requests : request[e].op = "PUBLISH"
<1>1. ASSUME LifecycleInv, [Next]_vars PROVE Reviewed
  <2>1. CASE Approve
    BY <1>1, <2>1 DEF Approve, MarkPublished, LifecycleInv, UnderReview
  <2>2. ASSUME NEW e \in Requests, Writes(e) PROVE Reviewed
    <3>1. CASE request[e].op = "PUBLISH"
      BY <3>1
    <3>2. CASE MarkStatus("UNPUBLISHED") \/ MarkStatus("ARCHIVED") \/ SoftDelete
      BY <3>2 DEF MarkStatus, SoftDelete
    <3>3. CASE Extend
      BY <3>3 DEF Extend, listingVars
    <3>4. CASE Reactivate
      BY <3>4 DEF Reactivate, StartCycle, listingVars
    <3> QED BY <2>2, <3>1, <3>2, <3>3, <3>4 DEF Writes
  <2>3. CASE ~Approve /\ \A e \in Requests : ~Writes(e)
    BY <1>1, <2>3, OtherSteps
  <2> QED BY <2>1, <2>2, <2>3
<1>2. LifecycleInv /\ [Next]_vars => [Reviewed]_vars
  BY <1>1
<1> QED BY <1>2, LifecycleInvHolds, PTL DEF Spec, EditsGoThroughReview
=============================================================================
