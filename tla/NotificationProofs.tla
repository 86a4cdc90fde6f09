------------------------- MODULE NotificationProofs -------------------------
(***************************************************************************)
(* Proofs about NotificationDelivery, for any number of events, attempts   *)
(* and stops: the types, and that every mail is accounted for and their    *)
(* number bounded.                                                         *)
(***************************************************************************)
EXTENDS NotificationDelivery, TLAPS

InRun(e) == run[e] \in {"ACCEPTED", "UNANSWERED", "REFUSED", "LOGGED"}

\* A run is under way exactly while its job is active, and a job that may
\* still run has tries left.
TriesAreCounted(e) ==
    /\ row[e] = "NONE" => job[e] = "NONE"
    /\ job[e] = "ACTIVE" <=> run[e] # "NONE"
    /\ job[e] \in {"NONE", "WAITING", "ACTIVE", "COMPLETED"} =>
          attempts[e] < Attempts /\ stalls[e] <= MaxStalled
    /\ attempts[e] + stalls[e] <= Attempts + MaxStalled
    /\ job[e] = "STALLED" => attempts[e] < Attempts /\ stalls[e] <= MaxStalled + 1

\* Mails against the runs that can have sent them, and against the log.
MailsAreOfRuns(e) ==
    /\ mails[e] <= attempts[e] + stalls[e] + (IF InRun(e) THEN 1 ELSE 0)
                     + (IF job[e] = "COMPLETED" THEN 1 ELSE 0)
    /\ log[e].sent + (IF run[e] = "ACCEPTED" THEN 1 ELSE 0) <= mails[e]
    /\ mails[e] <= log[e].sent + log[e].failed + attempts[e] + stalls[e]
                     + (IF run[e] \in {"ACCEPTED", "UNANSWERED"} THEN 1 ELSE 0)

DeliveryInv ==
    /\ DeliveriesTypeOK
    /\ \A e \in Events : TriesAreCounted(e) /\ MailsAreOfRuns(e)

-----------------------------------------------------------------------------
\* Before any event there is nothing to account for.
LEMMA InitEstablishesDeliveryInv == Init => DeliveryInv
<1> SUFFICES ASSUME Init PROVE DeliveryInv
  OBVIOUS
<1>1. DeliveriesTypeOK
  BY DEF Init, DeliveriesTypeOK
<1>2. ASSUME NEW e \in Events PROVE TriesAreCounted(e) /\ MailsAreOfRuns(e)
  BY DeliveryAssumption DEF Init, TriesAreCounted, MailsAreOfRuns, InRun, MaxStalled
<1> QED BY <1>1, <1>2 DEF DeliveryInv

\* Another event's counts do not change when its row, job, run, mails and log
\* do not.
LEMMA OthersKeepTheirCounts ==
    ASSUME NEW f \in Events, TriesAreCounted(f), MailsAreOfRuns(f),
           row'[f] = row[f], job'[f] = job[f], run'[f] = run[f], attempts'[f] = attempts[f],
           stalls'[f] = stalls[f], mails'[f] = mails[f], log'[f] = log[f]
    PROVE  TriesAreCounted(f)' /\ MailsAreOfRuns(f)'
BY DEF TriesAreCounted, MailsAreOfRuns, InRun

\* A step about one event keeps the invariant when it keeps that event's part.
LEMMA OneEventSteps ==
    ASSUME DeliveryInv, NEW e \in Events, DeliveriesTypeOK',
           \A f \in Events \ {e} : /\ row'[f] = row[f] /\ job'[f] = job[f] /\ run'[f] = run[f]
                                   /\ attempts'[f] = attempts[f] /\ stalls'[f] = stalls[f]
                                   /\ mails'[f] = mails[f] /\ log'[f] = log[f],
           TriesAreCounted(e)' /\ MailsAreOfRuns(e)'
    PROVE  DeliveryInv'
<1>1. ASSUME NEW f \in Events PROVE TriesAreCounted(f)' /\ MailsAreOfRuns(f)'
  <2>1. CASE f = e
    BY <2>1
  <2>2. CASE f # e
    BY <2>2, OthersKeepTheirCounts DEF DeliveryInv
  <2> QED BY <2>1, <2>2
<1> QED BY <1>1 DEF DeliveryInv

-----------------------------------------------------------------------------
\* Every step about one event keeps the invariant: the types, the counts of
\* the other events, and its own.
LEMMA EventStepsKeepDeliveryInv ==
    ASSUME DeliveryInv, NEW e \in Events,
           \/ CreateNotification(e) \/ SoftDelete(e) \/ Takes(e) \/ Run(e)
           \/ StalledJobReturns(e)
    PROVE  DeliveryInv'
<1> DEFINE Others == \A f \in Events \ {e} :
              /\ row'[f] = row[f] /\ job'[f] = job[f] /\ run'[f] = run[f]
              /\ attempts'[f] = attempts[f] /\ stalls'[f] = stalls[f]
              /\ mails'[f] = mails[f] /\ log'[f] = log[f]
<1> DEFINE Own == TriesAreCounted(e)' /\ MailsAreOfRuns(e)'
<1>0. DeliveriesTypeOK /\ TriesAreCounted(e) /\ MailsAreOfRuns(e)
  BY DEF DeliveryInv
<1> USE <1>0, DeliveryAssumption DEF DeliveriesTypeOK, MaxStalled
<1>1. CASE CreateNotification(e)
  <2>1. DeliveriesTypeOK' /\ Others
    BY <1>1 DEF CreateNotification
  <2>2. Own
    BY <1>1, <2>1 DEF CreateNotification, TriesAreCounted, MailsAreOfRuns, InRun
  <2> QED BY <2>1, <2>2, OneEventSteps
<1>2. CASE SoftDelete(e)
  <2>1. DeliveriesTypeOK' /\ Others
    BY <1>2 DEF SoftDelete
  <2>2. Own
    BY <1>2, <2>1 DEF SoftDelete, TriesAreCounted, MailsAreOfRuns, InRun
  <2> QED BY <2>1, <2>2, OneEventSteps
<1>3. CASE Takes(e)
  <2>1. DeliveriesTypeOK' /\ Others
    BY <1>3 DEF Takes
  <2>2. Own
    BY <1>3, <2>1 DEF Takes, TriesAreCounted, MailsAreOfRuns, InRun
  <2> QED BY <2>1, <2>2, OneEventSteps
<1>4. CASE Sends(e)
  <2>1. DeliveriesTypeOK' /\ Others
    BY <1>4 DEF Sends
  <2>2. Own
    BY <1>4, <2>1 DEF Sends, TriesAreCounted, MailsAreOfRuns, InRun
  <2> QED BY <2>1, <2>2, OneEventSteps
<1>5. CASE Logs(e)
  <2>1. DeliveriesTypeOK' /\ Others
    BY <1>5 DEF Logs
  <2>2. Own
    BY <1>5, <2>1 DEF Logs, TriesAreCounted, MailsAreOfRuns, InRun
  <2> QED BY <2>1, <2>2, OneEventSteps
<1>6. CASE Completes(e)
  <2>1. DeliveriesTypeOK' /\ Others
    BY <1>6 DEF Completes
  <2>2. Own
    BY <1>6, <2>1 DEF Completes, TriesAreCounted, MailsAreOfRuns, InRun
  <2> QED BY <2>1, <2>2, OneEventSteps
<1>7. CASE RunFails(e)
  <2>1. DeliveriesTypeOK' /\ Others
    BY <1>7 DEF RunFails
  <2>2. Own
    BY <1>7, <2>1 DEF RunFails, TriesAreCounted, MailsAreOfRuns, InRun
  <2> QED BY <2>1, <2>2, OneEventSteps
<1>8. CASE StalledJobReturns(e)
  <2>1. DeliveriesTypeOK' /\ Others
    BY <1>8 DEF StalledJobReturns
  <2>2. Own
    BY <1>8, <2>1 DEF StalledJobReturns, TriesAreCounted, MailsAreOfRuns, InRun
  <2> QED BY <2>1, <2>2, OneEventSteps
<1> QED BY <1>1, <1>2, <1>3, <1>4, <1>5, <1>6, <1>7, <1>8 DEF Run

\* A stop of the server counts a stall for the job it cuts off.
LEMMA ServerStopsKeepsDeliveryInv ==
    ASSUME DeliveryInv, ServerStops
    PROVE  DeliveryInv'
<1> USE DeliveryAssumption DEF DeliveriesTypeOK, MaxStalled
<1>1. DeliveriesTypeOK'
  <2>0. DeliveriesTypeOK
    BY DEF DeliveryInv
  <2>1. up' = FALSE /\ stops' = stops + 1
    BY DEF ServerStops
  <2>4. UNCHANGED <<row, attempts, mails, log>>
    BY DEF ServerStops
  <2>2. stalls' \in [Events -> Nat]
    BY DEF ServerStops, DeliveryInv
  <2>3. /\ job' \in [Events -> {"NONE", "WAITING", "ACTIVE", "STALLED", "COMPLETED", "FAILED"}]
        /\ run' \in [Events -> {"NONE", "READ", "ACCEPTED", "UNANSWERED", "REFUSED", "LOGGED"}]
    BY DEF ServerStops, DeliveryInv
  <2>5. up' \in BOOLEAN
    BY <2>1, Zenon
  <2>6. stops' \in Nat
    BY <2>0, <2>1
  <2>7. /\ row' \in [Events -> {"NONE", "KEPT", "DELETED"}]
        /\ attempts' \in [Events -> Nat] /\ mails' \in [Events -> Nat]
        /\ log' \in [Events -> [sent : Nat, failed : Nat]]
    BY <2>0, <2>4
  <2> QED BY <2>2, <2>3, <2>5, <2>6, <2>7
<1>2. ASSUME NEW e \in Events
      PROVE  TriesAreCounted(e)' /\ MailsAreOfRuns(e)'
  <2>1. DeliveriesTypeOK /\ TriesAreCounted(e) /\ MailsAreOfRuns(e)
    BY DEF DeliveryInv
  <2>2. /\ row'[e] = row[e] /\ run'[e] = "NONE"
        /\ attempts'[e] = attempts[e] /\ mails'[e] = mails[e] /\ log'[e] = log[e]
    BY DEF ServerStops
  <2>3. CASE job[e] = "ACTIVE"
    <3>1. job'[e] = "STALLED" /\ stalls'[e] = stalls[e] + 1
      BY <2>3 DEF ServerStops
    <3> QED BY <2>1, <2>2, <2>3, <3>1 DEF TriesAreCounted, MailsAreOfRuns, InRun
  <2>4. CASE job[e] # "ACTIVE"
    <3>1. job'[e] = job[e] /\ stalls'[e] = stalls[e]
      BY <2>4 DEF ServerStops
    <3> QED BY <2>1, <2>2, <2>4, <3>1 DEF TriesAreCounted, MailsAreOfRuns, InRun
  <2> QED BY <2>3, <2>4
<1> QED BY <1>1, <1>2 DEF DeliveryInv

\* A step that changes none of the counts keeps the invariant.
LEMMA IdleStepsKeepDeliveryInv ==
    ASSUME DeliveryInv, ServerStarts \/ UNCHANGED vars
    PROVE  DeliveryInv'
<1>1. /\ UNCHANGED <<row, job, attempts, stalls, run, mails, log, stops>>
      /\ up' \in BOOLEAN
  BY DEF ServerStarts, vars, DeliveryInv, DeliveriesTypeOK
<1>2. DeliveriesTypeOK'
  BY <1>1 DEF DeliveryInv, DeliveriesTypeOK
<1>3. ASSUME NEW e \in Events
      PROVE  TriesAreCounted(e)' /\ MailsAreOfRuns(e)'
  BY <1>1, OthersKeepTheirCounts DEF DeliveryInv
<1> QED BY <1>2, <1>3 DEF DeliveryInv

\* The invariant holds throughout.
LEMMA DeliveryInvHolds == Spec => []DeliveryInv
<1>1. DeliveryInv /\ [Next]_vars => DeliveryInv'
  BY EventStepsKeepDeliveryInv, ServerStopsKeepsDeliveryInv, IdleStepsKeepDeliveryInv DEF Next
<1> QED BY InitEstablishesDeliveryInv, <1>1, PTL DEF Spec

-----------------------------------------------------------------------------
\* Rows, jobs, runs and counts keep their types.
THEOREM DeliveriesTypeCorrect == Spec => []DeliveriesTypeOK
<1>1. DeliveryInv => DeliveriesTypeOK
  BY DEF DeliveryInv
<1> QED BY <1>1, DeliveryInvHolds, PTL

\* However runs fail and the server stops, no SENT row lacks its mail, no mail
\* lacks a row or a run that was cut short, and a job sends at most one mail
\* for each of its tries.
THEOREM MailsAccounted == Spec => []MailsAreAccountedFor
<1>1. DeliveryInv => MailsAreAccountedFor
  <2> SUFFICES ASSUME DeliveryInv, NEW e \in Events
               PROVE  /\ log[e].sent <= mails[e]
                      /\ mails[e] <= log[e].sent + log[e].failed + attempts[e] + stalls[e]
                           + (IF run[e] \in {"ACCEPTED", "UNANSWERED"} THEN 1 ELSE 0)
                      /\ mails[e] <= Attempts + MaxStalled
    BY DEF MailsAreAccountedFor
  <2>1. DeliveriesTypeOK /\ TriesAreCounted(e) /\ MailsAreOfRuns(e)
    BY DEF DeliveryInv
  <2>2. log[e] \in [sent : Nat, failed : Nat] /\ mails[e] \in Nat
        /\ attempts[e] \in Nat /\ stalls[e] \in Nat
    BY <2>1 DEF DeliveriesTypeOK
  <2> QED BY <2>1, <2>2, DeliveryAssumption
             DEF TriesAreCounted, MailsAreOfRuns, InRun, MaxStalled
<1> QED BY <1>1, DeliveryInvHolds, PTL
=============================================================================
