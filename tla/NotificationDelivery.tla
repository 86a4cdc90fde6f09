------------------------ MODULE NotificationDelivery ------------------------
(***************************************************************************)
(* Notifications and the e-mails that follow them: an event's listener     *)
(* writes a row and queues a job; a worker takes one job at a time, asks   *)
(* the provider to send, and logs what it was told (notificationService,   *)
(* notificationDeliveryService, notificationDeliveryQueue,                 *)
(* resendEmailProvider).  A run that throws is tried again, three times in *)
(* all; a server that stops leaves its job stalled, and the queue gives a  *)
(* stalled job out once more.                                              *)
(*                                                                         *)
(* The queue is BullMQ on Redis: what the code relies on is modelled, not  *)
(* how it is built.  Each event has one recipient; delays between tries,   *)
(* texts and languages are left out.                                       *)
(***************************************************************************)
EXTENDS Naturals

CONSTANTS
    Events,    \* events that somebody is told of
    Attempts,  \* DELIVERY_JOB_ATTEMPTS
    Stops      \* how often the server stops

ASSUME DeliveryAssumption == Attempts \in Nat \ {0} /\ Stops \in Nat

VARIABLES
    up,        \* the server runs
    row,       \* the notification: not written, kept, or deleted by its reader
    job,       \* its job in the queue
    attempts,  \* runs of the job that threw
    stalls,    \* runs of the job that a stop of the server cut off
    run,       \* what the current run has come to
    mails,     \* mails the provider has accepted
    log,       \* rows of email_deliveries: how many SENT, how many FAILED
    stops      \* stops of the server

vars == <<up, row, job, attempts, stalls, run, mails, log, stops>>

\* BullMQ's maxStalledCount, which the code leaves as it is.
MaxStalled == 1

DeliveriesTypeOK ==
    /\ up \in BOOLEAN
    /\ row \in [Events -> {"NONE", "KEPT", "DELETED"}]
    /\ job \in [Events -> {"NONE", "WAITING", "ACTIVE", "STALLED", "COMPLETED", "FAILED"}]
    /\ run \in [Events -> {"NONE", "READ", "ACCEPTED", "UNANSWERED", "REFUSED", "LOGGED"}]
    /\ attempts \in [Events -> Nat] /\ stalls \in [Events -> Nat]
    /\ mails \in [Events -> Nat]
    /\ log \in [Events -> [sent : Nat, failed : Nat]]
    /\ stops \in Nat

Init ==
    /\ up = TRUE /\ stops = 0
    /\ row = [e \in Events |-> "NONE"]
    /\ job = [e \in Events |-> "NONE"]
    /\ run = [e \in Events |-> "NONE"]
    /\ attempts = [e \in Events |-> 0] /\ stalls = [e \in Events |-> 0]
    /\ mails = [e \in Events |-> 0]
    /\ log = [e \in Events |-> [sent |-> 0, failed |-> 0]]

-----------------------------------------------------------------------------
(* The listener.                                                           *)

\* The row is written, then its job is queued.  The job is missing when the
\* recipient has no e-mail for this category, when Redis does not answer
\* (the bus logs the error and goes on), or when the server stops in between.
CreateNotification(e) ==
    /\ up /\ row[e] = "NONE"
    /\ row' = [row EXCEPT ![e] = "KEPT"]
    /\ \E queued \in {"NONE", "WAITING"} : job' = [job EXCEPT ![e] = queued]
    /\ UNCHANGED <<up, attempts, stalls, run, mails, log, stops>>

\* The recipient deletes it, whatever the job is doing.
SoftDelete(e) ==
    /\ up /\ row[e] = "KEPT"
    /\ row' = [row EXCEPT ![e] = "DELETED"]
    /\ UNCHANGED <<up, job, attempts, stalls, run, mails, log, stops>>

-----------------------------------------------------------------------------
(* A run of a job. *)

\* The worker is idle and takes the job; a deleted row needs no mail.
Takes(e) ==
    /\ up /\ job[e] = "WAITING"
    /\ \A f \in Events : job[f] # "ACTIVE"
    /\ IF row[e] = "DELETED"
       THEN job' = [job EXCEPT ![e] = "COMPLETED"] /\ UNCHANGED run
       ELSE /\ job' = [job EXCEPT ![e] = "ACTIVE"]
            /\ run' = [run EXCEPT ![e] = "READ"]
    /\ UNCHANGED <<up, row, attempts, stalls, mails, log, stops>>

\* A mail is accepted and the answer arrives; or it is lost, or comes after
\* ten seconds; or there is no mail.
Sends(e) ==
    /\ run[e] = "READ"
    /\ \E answer \in {"ACCEPTED", "UNANSWERED", "REFUSED"} :
          /\ run' = [run EXCEPT ![e] = answer]
          /\ mails' = IF answer = "REFUSED" THEN mails ELSE [mails EXCEPT ![e] = @ + 1]
    /\ UNCHANGED <<up, row, job, attempts, stalls, log, stops>>

\* Mutant of Logs: a mail with no answer is logged as sent.
LogsUnlessRefused(e) ==
    /\ run[e] \in {"ACCEPTED", "UNANSWERED", "REFUSED"}
    /\ log' = [log EXCEPT ![e].sent = @ + 1]
    /\ run' = [run EXCEPT ![e] = "LOGGED"]
    /\ UNCHANGED <<up, row, job, attempts, stalls, mails, stops>>

\* What the provider did not answer is logged like what it refused.
Logs(e) ==
    /\ run[e] \in {"ACCEPTED", "UNANSWERED", "REFUSED"}
    /\ log' = IF run[e] = "ACCEPTED" THEN [log EXCEPT ![e].sent = @ + 1]
              ELSE [log EXCEPT ![e].failed = @ + 1]
    /\ run' = [run EXCEPT ![e] = "LOGGED"]
    /\ UNCHANGED <<up, row, job, attempts, stalls, mails, stops>>

Completes(e) ==
    /\ run[e] = "LOGGED"
    /\ run' = [run EXCEPT ![e] = "NONE"]
    /\ job' = [job EXCEPT ![e] = "COMPLETED"]
    /\ UNCHANGED <<up, row, attempts, stalls, mails, log, stops>>

\* Mutant of RunFails: a run that threw is not counted.
RunFailsUncounted(e) ==
    /\ run[e] \in {"READ", "ACCEPTED", "UNANSWERED", "REFUSED"}
    /\ run' = [run EXCEPT ![e] = "NONE"]
    /\ job' = [job EXCEPT ![e] = "WAITING"]
    /\ UNCHANGED <<up, row, attempts, stalls, mails, log, stops>>

\* A read of the database throws before the mail, or the row of the log is
\* refused after it.
RunFails(e) ==
    /\ run[e] \in {"READ", "ACCEPTED", "UNANSWERED", "REFUSED"}
    /\ run' = [run EXCEPT ![e] = "NONE"]
    /\ attempts' = [attempts EXCEPT ![e] = @ + 1]
    /\ job' = [job EXCEPT ![e] = IF attempts[e] + 1 < Attempts THEN "WAITING" ELSE "FAILED"]
    /\ UNCHANGED <<up, row, stalls, mails, log, stops>>

-----------------------------------------------------------------------------
(* Stops of the server, and the queue's own recovery. *)

ServerStops ==
    /\ up /\ stops < Stops
    /\ up' = FALSE
    /\ stops' = stops + 1
    /\ stalls' = [e \in Events |-> IF job[e] = "ACTIVE" THEN stalls[e] + 1 ELSE stalls[e]]
    /\ job' = [e \in Events |-> IF job[e] = "ACTIVE" THEN "STALLED" ELSE job[e]]
    /\ run' = [e \in Events |-> "NONE"]
    /\ UNCHANGED <<row, attempts, mails, log>>

ServerStarts ==
    /\ ~up
    /\ up' = TRUE
    /\ UNCHANGED <<row, job, attempts, stalls, run, mails, log, stops>>

StalledJobReturns(e) ==
    /\ up /\ job[e] = "STALLED"
    /\ job' = [job EXCEPT ![e] = IF stalls[e] > MaxStalled THEN "FAILED" ELSE "WAITING"]
    /\ UNCHANGED <<up, row, attempts, stalls, run, mails, log, stops>>

-----------------------------------------------------------------------------
Run(e) == Sends(e) \/ Logs(e) \/ Completes(e) \/ RunFails(e)

Next ==
    \/ \E e \in Events : \/ CreateNotification(e) \/ SoftDelete(e)
                         \/ Takes(e) \/ Run(e) \/ StalledJobReturns(e)
    \/ ServerStops
    \/ ServerStarts

Spec == Init /\ [][Next]_vars

\* The server is started again, a run ends one way or another, and an idle
\* worker takes what waits.
Fairness ==
    /\ WF_vars(ServerStarts)
    /\ \A e \in Events : /\ WF_vars(Run(e))
                         /\ WF_vars(StalledJobReturns(e))
                         /\ WF_vars(Takes(e))

FairSpec == Spec /\ Fairness

-----------------------------------------------------------------------------
(* Properties. *)

\* A mail is behind every SENT row, and behind every mail a row of its own, or
\* a run that threw or was cut off: a second mail for one event needs one of
\* these.  The tries are bounded, however runs fail and the server stops.
MailsAreAccountedFor ==
    \A e \in Events :
        /\ log[e].sent <= mails[e]
        /\ mails[e] <= log[e].sent + log[e].failed + attempts[e] + stalls[e]
                         + (IF run[e] \in {"ACCEPTED", "UNANSWERED"} THEN 1 ELSE 0)
        /\ mails[e] <= Attempts + MaxStalled

\* A job that was queued ends, completed or failed; none is forgotten.
DeliveriesEnd ==
    \A e \in Events : job[e] = "WAITING" ~> job[e] \in {"COMPLETED", "FAILED"}
=============================================================================
