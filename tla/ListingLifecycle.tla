-------------------------- MODULE ListingLifecycle --------------------------
(***************************************************************************)
(* The publication lifecycle of one listing: drafts, review, publication   *)
(* for a period, renewal, expiry, retention and purge                      *)
(* (listings/services/listingService.js, mysqlListingRepository.js and the *)
(* hourly and daily jobs).  Every statement the code runs is about one     *)
(* row, so one listing shows every behaviour.                              *)
(*                                                                         *)
(* submitForReview and updateModerationStatus lock the row, look at it     *)
(* again and write: one step each.  publishListing, unpublishListing,      *)
(* archiveListing, deleteListing and renewListing read the listing without *)
(* a lock and write it later: a request is a read, then a write, and any   *)
(* step may fall between.  Renewals write under a WHERE that looks again;  *)
(* the others write whatever the listing has become.                       *)
(*                                                                         *)
(* Instants are kept as what the code asks of them: expires_at is none,    *)
(* far, within two days, or past; purge_after is none, waiting or due.     *)
(* Content is kept as whether it is what was last submitted for review:    *)
(* once for the fields that updateListing (PATCH) writes, and once for the *)
(* media and the collections, whose writes do not look at the status.      *)
(* Readiness and moderation notes are left out: a request that is refused  *)
(* changes nothing.                                                        *)
(***************************************************************************)
EXTENDS Naturals

CONSTANTS
    Requests,  \* concurrent requests that read the listing and then write it
    Sweepers   \* overlapping runs of the hourly job

VARIABLES
    status,     \* status_id
    period,     \* publication_period_days is set
    expires,    \* expires_at
    frozen,     \* frozen_at is set
    purge,      \* purge_after
    reminded,   \* expiry_reminder_sent_at is set
    renewed,    \* renewed_at is less than three seconds old
    deleted,    \* deleted_at: "NO", or set by somebody, or by the purge
    edited,     \* what PATCH writes has changed since the last submission
    contentEdited, \* media, highlights, itinerary, included items, guest notes
                \* or FAQs have changed since the last submission
    request,    \* per request, what it read and is about to write
    sweep,      \* per run of the hourly job, where it is
    reminders   \* reminders sent in this publication cycle

listingVars ==
    <<status, period, expires, frozen, purge, reminded, renewed, deleted, edited, contentEdited>>
vars == <<listingVars, request, sweep, reminders>>

-----------------------------------------------------------------------------
TRANSITIONS ==
    [ DRAFT          |-> {"PENDING_REVIEW", "PUBLISHED"},
      PENDING_REVIEW |-> {"PUBLISHED", "DRAFT"},
      PUBLISHED      |-> {"UNPUBLISHED", "ARCHIVED"},
      UNPUBLISHED    |-> {"PUBLISHED", "ARCHIVED", "PENDING_REVIEW"},
      ARCHIVED       |-> {} ]

Operations == {"NONE", "PUBLISH", "UNPUBLISH", "ARCHIVE", "DELETE", "EXTEND", "REACTIVATE"}

NoRequest == [op |-> "NONE", first |-> FALSE]

\* The values of every column; frozen_at and purge_after are set, and cleared,
\* together.
ListingTypeOK ==
    /\ status \in DOMAIN TRANSITIONS
    /\ expires \in {"NONE", "FAR", "SOON", "PAST"}
    /\ purge \in {"NONE", "WAITING", "DUE"}
    /\ (frozen <=> purge # "NONE")
    /\ deleted \in {"NO", "REQUEST", "PURGE"}
    /\ period \in BOOLEAN /\ frozen \in BOOLEAN /\ reminded \in BOOLEAN
    /\ renewed \in BOOLEAN /\ edited \in BOOLEAN /\ contentEdited \in BOOLEAN
    /\ request \in [Requests -> [op : Operations, first : BOOLEAN]]
    /\ sweep \in [Sweepers -> {"IDLE", "FROZE", "LISTED"}]
    /\ reminders \in Nat

\* A new draft, or a listing published before listings had a lifecycle.
Init ==
    /\ status \in {"DRAFT", "PUBLISHED"}
    /\ expires = "NONE" /\ purge = "NONE" /\ deleted = "NO"
    /\ period = FALSE /\ frozen = FALSE /\ reminded = FALSE /\ renewed = FALSE
    /\ edited = (status = "DRAFT") /\ contentEdited = edited
    /\ request = [e \in Requests |-> NoRequest]
    /\ sweep = [s \in Sweepers |-> "IDLE"]
    /\ reminders = 0

-----------------------------------------------------------------------------
(* Publication cycles. *)

\* A period starts: whatever belongs to the last one is cleared.
StartCycle ==
    /\ period' = TRUE
    /\ expires' = "FAR"
    /\ reminded' = FALSE
    /\ frozen' = FALSE
    /\ purge' = "NONE"
    /\ reminders' = 0

\* Mutant of MarkPublished: every publication starts a period.
MarkPublishedAfresh(first) ==
    /\ status' = "PUBLISHED"
    /\ StartCycle
    /\ UNCHANGED <<renewed, deleted, edited, contentEdited>>

\* markPublished: a first publication starts a period, a later one goes on
\* with what is left of it.
MarkPublished(first) ==
    /\ status' = "PUBLISHED"
    /\ IF first THEN StartCycle
       ELSE UNCHANGED <<period, expires, reminded, frozen, purge, reminders>>
    /\ UNCHANGED <<renewed, deleted, edited, contentEdited>>

\* Only the status, whatever the listing has become.
MarkStatus(to) ==
    /\ status' = to
    /\ UNCHANGED <<period, expires, frozen, purge, reminded, renewed, deleted,
                   edited, contentEdited, reminders>>

-----------------------------------------------------------------------------
(* Review, under the lock of the row. *)

\* The period of a first publication is stored until a moderator decides.
SubmitForReview ==
    /\ deleted = "NO" /\ ~frozen
    /\ "PENDING_REVIEW" \in TRANSITIONS[status]
    /\ status' = "PENDING_REVIEW"
    /\ period' = (period \/ expires = "NONE")
    /\ edited' = FALSE /\ contentEdited' = FALSE
    /\ UNCHANGED <<expires, frozen, purge, reminded, renewed, deleted, request,
                   sweep, reminders>>

\* Mutant of UpdateListing: a listing under review may be edited.
UpdateUnlessPublished ==
    /\ deleted = "NO" /\ status # "PUBLISHED"
    /\ edited' = TRUE
    /\ UNCHANGED <<status, period, expires, frozen, purge, reminded, renewed,
                   deleted, contentEdited, request, sweep, reminders>>

\* The fields of PATCH: neither under review nor published; a frozen or
\* archived listing may be edited.
UpdateListing ==
    /\ deleted = "NO" /\ status \notin {"PENDING_REVIEW", "PUBLISHED"}
    /\ edited' = TRUE
    /\ UNCHANGED <<status, period, expires, frozen, purge, reminded, renewed,
                   deleted, contentEdited, request, sweep, reminders>>

\* attachMedia, updateMedia, removeMedia and the replace... of a collection,
\* whatever the status.
UpdateContent ==
    /\ deleted = "NO"
    /\ contentEdited' = TRUE
    /\ UNCHANGED <<status, period, expires, frozen, purge, reminded, renewed,
                   deleted, edited, request, sweep, reminders>>

Approve ==
    /\ deleted = "NO" /\ status = "PENDING_REVIEW"
    /\ MarkPublished(expires = "NONE" /\ period)
    /\ UNCHANGED <<request, sweep>>

\* REJECTED while under review, REJECTED or FLAGGED while published.
ReturnForChanges ==
    /\ deleted = "NO"
    /\ \/ status = "PENDING_REVIEW" /\ MarkStatus("DRAFT")
       \/ status = "PUBLISHED" /\ MarkStatus("UNPUBLISHED")
    /\ UNCHANGED <<request, sweep>>

-----------------------------------------------------------------------------
(* Requests: what they read ... *)

Reads(e, op, first) ==
    /\ request[e] = NoRequest
    /\ deleted = "NO"
    /\ request' = [request EXCEPT ![e] = [op |-> op, first |-> first]]
    /\ UNCHANGED <<listingVars, sweep, reminders>>

PublishReads(e) ==
    /\ "PUBLISHED" \in TRANSITIONS[status] /\ ~frozen
    /\ Reads(e, "PUBLISH", expires = "NONE")

UnpublishReads(e) ==
    /\ "UNPUBLISHED" \in TRANSITIONS[status]
    /\ Reads(e, "UNPUBLISH", FALSE)

ArchiveReads(e) ==
    /\ "ARCHIVED" \in TRANSITIONS[status]
    /\ Reads(e, "ARCHIVE", FALSE)

DeleteReads(e) == Reads(e, "DELETE", FALSE)

\* Renewal extends a running period, or publishes again what is frozen, or
\* has expired and is about to be; it refuses every other listing.
RenewReads(e) ==
    \/ /\ status = "PUBLISHED" /\ ~frozen /\ expires \in {"FAR", "SOON"}
       /\ Reads(e, "EXTEND", FALSE)
    \/ /\ frozen \/ (status = "PUBLISHED" /\ expires = "PAST")
       /\ Reads(e, "REACTIVATE", FALSE)

(* ... and what they write. *)

\* Mutant of Reactivate: the WHERE does not look at deleted_at.
ReactivateAnyway ==
    IF ~renewed /\ (frozen \/ (status = "PUBLISHED" /\ expires = "PAST"))
    THEN /\ StartCycle
         /\ status' = "PUBLISHED"
         /\ renewed' = TRUE
         /\ UNCHANGED <<deleted, edited, contentEdited>>
    ELSE UNCHANGED <<listingVars, reminders>>

\* reactivateExpiredPublication: no row matches when the listing has changed.
Reactivate ==
    IF /\ deleted = "NO" /\ ~renewed
       /\ frozen \/ (status = "PUBLISHED" /\ expires = "PAST")
    THEN /\ StartCycle
         /\ status' = "PUBLISHED"
         /\ renewed' = TRUE
         /\ UNCHANGED <<deleted, edited, contentEdited>>
    ELSE UNCHANGED <<listingVars, reminders>>

\* extendActivePublication: the period is added to the old expires_at.
Extend ==
    IF /\ deleted = "NO" /\ ~renewed /\ ~frozen
       /\ status = "PUBLISHED" /\ expires \in {"FAR", "SOON"}
    THEN /\ expires' = "FAR" /\ period' = TRUE
         /\ reminded' = FALSE /\ reminders' = 0
         /\ renewed' = TRUE
         /\ UNCHANGED <<status, frozen, purge, deleted, edited, contentEdited>>
    ELSE UNCHANGED <<listingVars, reminders>>

\* softDelete, whatever the status.
SoftDelete ==
    /\ deleted' = "REQUEST"
    /\ UNCHANGED <<status, period, expires, frozen, purge, reminded, renewed,
                   edited, contentEdited, reminders>>

Writes(e) ==
    /\ \/ request[e].op = "PUBLISH" /\ MarkPublished(request[e].first)
       \/ request[e].op = "UNPUBLISH" /\ MarkStatus("UNPUBLISHED")
       \/ request[e].op = "ARCHIVE" /\ MarkStatus("ARCHIVED")
       \/ request[e].op = "DELETE" /\ SoftDelete
       \/ request[e].op = "EXTEND" /\ Extend
       \/ request[e].op = "REACTIVATE" /\ Reactivate
    /\ request' = [request EXCEPT ![e] = NoRequest]
    /\ UNCHANGED sweep

-----------------------------------------------------------------------------
(* The hourly job: freeze what has expired, then list what is due for a    *)
(* reminder, then claim it.  A run may fail between two statements.        *)

Step(s, from, to) == sweep[s] = from /\ sweep' = [sweep EXCEPT ![s] = to]

\* Mutant of SweepFreezes: the retention is not set.
SweepFreezesOnly(s) ==
    /\ Step(s, "IDLE", "FROZE")
    /\ IF deleted = "NO" /\ status = "PUBLISHED" /\ ~frozen /\ expires = "PAST"
       THEN status' = "UNPUBLISHED" /\ frozen' = TRUE
       ELSE UNCHANGED <<status, frozen>>
    /\ UNCHANGED <<purge, period, expires, reminded, renewed, deleted, edited, contentEdited,
                   request, reminders>>

\* Mutant of SweepFreezes: only a partner who was reminded loses the listing.
SweepFreezesReminded(s) ==
    /\ Step(s, "IDLE", "FROZE")
    /\ IF /\ deleted = "NO" /\ status = "PUBLISHED" /\ ~frozen /\ expires = "PAST"
          /\ reminded
       THEN status' = "UNPUBLISHED" /\ frozen' = TRUE /\ purge' = "WAITING"
       ELSE UNCHANGED <<status, frozen, purge>>
    /\ UNCHANGED <<period, expires, reminded, renewed, deleted, edited, contentEdited,
                   request, reminders>>

SweepFreezes(s) ==
    /\ Step(s, "IDLE", "FROZE")
    /\ IF deleted = "NO" /\ status = "PUBLISHED" /\ ~frozen /\ expires = "PAST"
       THEN status' = "UNPUBLISHED" /\ frozen' = TRUE /\ purge' = "WAITING"
       ELSE UNCHANGED <<status, frozen, purge>>
    /\ UNCHANGED <<period, expires, reminded, renewed, deleted, edited, contentEdited,
                   request, reminders>>

DueForReminder ==
    /\ deleted = "NO" /\ status = "PUBLISHED" /\ ~frozen
    /\ expires = "SOON" /\ ~reminded

SweepListsDue(s) ==
    /\ Step(s, "FROZE", IF DueForReminder THEN "LISTED" ELSE "IDLE")
    /\ UNCHANGED <<listingVars, request, reminders>>

\* Mutant of SweepClaims: what was listed is marked without a second look.
SweepMarks(s) ==
    /\ Step(s, "LISTED", "IDLE")
    /\ reminded' = TRUE
    /\ reminders' = reminders + 1
    /\ UNCHANGED <<status, period, expires, frozen, purge, renewed, deleted,
                   edited, contentEdited, request>>

\* The claim looks at every condition again; the reminder goes out only when
\* it has changed the row.
SweepClaims(s) ==
    /\ Step(s, "LISTED", "IDLE")
    /\ reminded' = (reminded \/ DueForReminder)
    /\ reminders' = IF DueForReminder THEN reminders + 1 ELSE reminders
    /\ UNCHANGED <<status, period, expires, frozen, purge, renewed, deleted,
                   edited, contentEdited, request>>

SweepFails(s) ==
    /\ sweep[s] # "IDLE"
    /\ sweep' = [sweep EXCEPT ![s] = "IDLE"]
    /\ UNCHANGED <<listingVars, request, reminders>>

\* The daily job.
PurgeRetired ==
    /\ deleted = "NO" /\ status = "UNPUBLISHED" /\ frozen /\ purge = "DUE"
    /\ deleted' = "PURGE"
    /\ UNCHANGED <<status, period, expires, frozen, purge, reminded, renewed,
                   edited, contentEdited, request, sweep, reminders>>

-----------------------------------------------------------------------------
(* Time.  A publication that has read that no period was ever given, or    *)
(* that the listing is not frozen, writes before the weeks of a period or  *)
(* the months of the retention have gone by.  No other pace is assumed.    *)

Publishing(first) ==
    \E e \in Requests : request[e].op = "PUBLISH" /\ (first => request[e].first)

ExpiryNears ==
    /\ \/ expires = "FAR" /\ ~Publishing(TRUE) /\ expires' = "SOON"
       \/ expires = "SOON" /\ expires' = "PAST"
    /\ UNCHANGED <<status, period, frozen, purge, reminded, renewed, deleted,
                   edited, contentEdited, request, sweep, reminders>>

RetentionEnds ==
    /\ purge = "WAITING" /\ ~Publishing(FALSE)
    /\ purge' = "DUE"
    /\ UNCHANGED <<status, period, expires, frozen, reminded, renewed, deleted,
                   edited, contentEdited, request, sweep, reminders>>

DebouncePasses ==
    /\ renewed
    /\ renewed' = FALSE
    /\ UNCHANGED <<status, period, expires, frozen, purge, reminded, deleted,
                   edited, contentEdited, request, sweep, reminders>>

-----------------------------------------------------------------------------
Review ==
    \/ SubmitForReview
    \/ UpdateListing \/ UpdateContent
    \/ Approve \/ ReturnForChanges

RequestStep(e) ==
    \/ PublishReads(e) \/ UnpublishReads(e) \/ ArchiveReads(e)
    \/ DeleteReads(e) \/ RenewReads(e)
    \/ Writes(e)

SweepStep(s) == SweepFreezes(s) \/ SweepListsDue(s) \/ SweepClaims(s) \/ SweepFails(s)

Next ==
    \/ Review
    \/ \E e \in Requests : RequestStep(e)
    \/ \E s \in Sweepers : SweepStep(s)
    \/ PurgeRetired
    \/ ExpiryNears \/ RetentionEnds \/ DebouncePasses

Spec == Init /\ [][Next]_vars

\* Requests end, both jobs repeat for ever, and six months do go by.
Fairness ==
    /\ \A e \in Requests : WF_vars(Writes(e))
    /\ \A s \in Sweepers : /\ WF_vars(SweepFreezes(s))
                           /\ WF_vars(SweepListsDue(s))
                           /\ WF_vars(SweepClaims(s))
    /\ WF_vars(PurgeRetired)
    /\ WF_vars(RetentionEnds)

FairSpec == Spec /\ Fairness

-----------------------------------------------------------------------------
(* Properties. *)

\* A partner is reminded at most once that a period runs out, though runs of
\* the job overlap, fail, and race renewals.
ReminderOncePerCycle == reminders <= 1

\* A listing the retention job has purged is not online, whatever renewal or
\* publication was under way ("no interleaving that leaves a listing both
\* PUBLISHED and soft-deleted, or deleted-then-resurrected").
PurgedStaysOffline == deleted = "PURGE" => status # "PUBLISHED" /\ frozen

\* Whoever puts a listing online, it expires: the period asked for at its
\* submission is there when a moderator approves it.  And only a renewal
\* gives more time to one that already had a period: unpublishing and
\* publishing again does not.
PeriodsAreGrantedOnce ==
    [][/\ status' = "PUBLISHED" /\ status # "PUBLISHED" => expires' # "NONE"
       /\ expires' = "FAR" /\ expires # "FAR" =>
             expires = "NONE" \/ (renewed' /\ ~renewed)]_vars

\* An expired listing does not stay published, and a frozen one that nobody
\* renews, archives or deletes is purged.
ExpiredListingsRetire ==
    /\ status = "PUBLISHED" /\ expires = "PAST" /\ ~frozen /\ deleted = "NO"
          ~> status # "PUBLISHED" \/ expires # "PAST" \/ frozen \/ deleted # "NO"
    /\ status = "UNPUBLISHED" /\ frozen /\ deleted = "NO"
          ~> status # "UNPUBLISHED" \/ ~frozen \/ deleted # "NO"

\* A field that updateListing (PATCH) has changed since it was submitted for
\* review goes online only when an administrator publishes it or a frozen
\* listing is renewed: never by a moderator's approval, nor under one.  Media
\* and collections do: ApprovedIsWhatWasReviewed.
EditsGoThroughReview ==
    [][edited' /\ status' = "PUBLISHED" =>
          \/ edited /\ status = "PUBLISHED"
          \/ frozen
          \/ \E e \in Requests : request[e].op = "PUBLISH"]_vars

\* The comment of updateListing: while a listing is under review "the Moderator
\* must see exactly what they reviewed".  What a moderator approves, the fields,
\* the media and the collections, is what was submitted for that review.
ApprovedIsWhatWasReviewed == [][Approve => ~edited /\ ~contentEdited]_vars

\* The comment of archiveListing: "Deliberately terminal".
ArchivedIsFinal == [][status = "ARCHIVED" => status' = "ARCHIVED"]_vars
=============================================================================
