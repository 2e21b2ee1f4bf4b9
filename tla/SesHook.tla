------------------------------ MODULE SesHook ------------------------------
(***************************************************************************)
(* What SES reports about one email that was sent: the callback route      *)
(* (app/api/ses_callback/route.ts), the queue ses-webhook and parseSesHook *)
(* with what it calls (service/ses-hook-parser.ts, unsubscribeContact and  *)
(* updateCampaignAnalytics in service/campaign-service.ts).                *)
(*                                                                         *)
(* A notification of SNS is a hook.  SNS repeats and reorders: two hooks   *)
(* may be of one kind, and all of them may run at once (concurrency 50).   *)
(* One action per await that reads or writes shared state.  The recipient  *)
(* has one contact here; the loop over its other contacts does the same.   *)
(***************************************************************************)
EXTENDS Naturals

CONSTANTS
    Hooks,          \* notifications
    Kinds,          \* what they may be
    Faults          \* "db" rejects, "queue" throws, "crash": a worker dies

AllKinds == {"Send", "Reject", "Rendering Failure", "DeliveryDelay", "Delivery", "Soft Bounce",
             "Hard Bounce", "Open", "Click", "Unsubscribe Click", "Complaint"}

ASSUME KindsAssumption == Kinds \in SUBSET AllKinds

\* getEmailStatus.
StatusOf ==
    [kind \in AllKinds |->
        CASE kind = "Send" -> "SENT"
          [] kind = "Reject" -> "REJECTED"
          [] kind = "Rendering Failure" -> "RENDERING_FAILURE"
          [] kind = "DeliveryDelay" -> "DELIVERY_DELAYED"
          [] kind = "Delivery" -> "DELIVERED"
          [] kind \in {"Soft Bounce", "Hard Bounce"} -> "BOUNCED"
          [] kind = "Open" -> "OPENED"
          [] kind \in {"Click", "Unsubscribe Click"} -> "CLICKED"
          [] kind = "Complaint" -> "COMPLAINED"]

\* The order of the enum EmailStatus in the database, by which SQL compares.
Rank ==
    [SCHEDULED |-> 1, CANCELLED |-> 2, RENDERING_FAILURE |-> 3, QUEUED |-> 4, SENT |-> 5,
     REJECTED |-> 6, DELIVERY_DELAYED |-> 7, DELIVERED |-> 8, BOUNCED |-> 9, OPENED |-> 10,
     CLICKED |-> 11, COMPLAINED |-> 12, FAILED |-> 13, SUPPRESSED |-> 14]

Statuses == DOMAIN Rank
Counted == {"SENT", "DELIVERED", "BOUNCED", "OPENED", "CLICKED", "COMPLAINED"}
Engagement == {"OPENED", "CLICKED"}

\* BullMQ's default maxStalledCount.
MaxStalled == 1

VARIABLES
    kind,       \* what each hook is
    campaign,   \* the email belongs to a campaign
    pc,         \* where each hook is
    known,      \* whether its existingMailEvent is a row
    stalls,     \* times its job was taken again
    status,     \* email.latestStatus
    daily,      \* dailyEmailUsage, per status
    total,      \* cumulatedMetrics, per status
    tally,      \* the campaign's counters, per status
    rows,       \* rows of EmailEvent written by each hook
    suppressed, \* the recipient is on the suppression list
    subscribed, \* contact.subscribed
    left,       \* the campaign's counter unsubscribed
    emitted,    \* webhook events emitted for each hook
    reports     \* history: the statuses written to the email

counters == <<daily, total, tally, left>>
vars == <<kind, campaign, pc, known, stalls, status, counters, rows, suppressed, subscribed,
          emitted, reports>>

Zero == [s \in Counted |-> 0]

Init ==
    /\ kind \in [Hooks -> Kinds]
    /\ campaign \in BOOLEAN
    /\ pc = [h \in Hooks |-> "sns"]
    /\ known = [h \in Hooks |-> FALSE]
    /\ stalls = [h \in Hooks |-> 0]
    /\ status \in {"QUEUED", "SCHEDULED"}
    /\ daily = Zero /\ total = Zero /\ tally = Zero
    /\ rows = [h \in Hooks |-> 0]
    /\ suppressed = FALSE
    /\ subscribed \in BOOLEAN
    /\ left = 0
    /\ emitted = [h \in Hooks |-> 0]
    /\ reports = {status}

New(h) == StatusOf[kind[h]]
Bad(h) == kind[h] \in {"Hard Bounce", "Complaint"}
HasRow(s) == \E h \in Hooks : New(h) = s /\ rows[h] > 0
GoesTo(h, point) == pc' = [pc EXCEPT ![h] = point]
Plus(counter, s) == [counter EXCEPT ![s] = @ + 1]

\* A rejected database call fails the job (attempts 1), and what is left of it is
\* never done.
Throws(h) == "db" \in Faults /\ GoesTo(h, "lost")

-----------------------------------------------------------------------------
\* POST of the route adds a job, without a jobId; an error of it is answered
\* with 200 too, so that SNS does not repeat the notification.
Receive(h) ==
    /\ pc[h] = "sns"
    /\ \/ GoesTo(h, "read")
       \/ "queue" \in Faults /\ GoesTo(h, "lost")
    /\ UNCHANGED <<kind, campaign, known, stalls, status, counters, rows, suppressed, subscribed,
                   emitted, reports>>

\* The email is found by its SES id or by the header; a second delay is dropped.
ReadEmail(h) ==
    /\ pc[h] = "read"
    /\ \/ GoesTo(h, IF status = "DELIVERY_DELAYED" /\ New(h) = status THEN "done" ELSE "check")
       \/ Throws(h)
    /\ UNCHANGED <<kind, campaign, known, stalls, status, counters, rows, suppressed, subscribed,
                   emitted, reports>>

\* existingMailEvent, looked up for campaigns and for engagement.
CheckExisting(h) ==
    /\ pc[h] = "check"
    /\ \/ /\ known' = [known EXCEPT ![h] =
                          (campaign \/ New(h) \in Engagement) /\ HasRow(New(h))]
          /\ GoesTo(h, "raise")
       \/ Throws(h) /\ UNCHANGED known
    /\ UNCHANGED <<kind, campaign, stalls, status, counters, rows, suppressed, subscribed,
                   emitted, reports>>

\* Mutant: the new status is written whatever the old one is.
Overwrite(h) ==
    /\ pc[h] = "raise"
    /\ status' = New(h)
    /\ reports' = reports \cup {New(h)}
    /\ GoesTo(h, "suppress")
    /\ UNCHANGED <<kind, campaign, known, stalls, counters, rows, suppressed, subscribed, emitted>>

\* Mutant: the event row is written before the counters.
RaiseAndRecord(h) ==
    /\ pc[h] = "raise"
    /\ status' = IF Rank[New(h)] > Rank[status] THEN New(h) ELSE status
    /\ reports' = reports \cup {New(h)}
    /\ rows' = [rows EXCEPT ![h] = @ + 1]
    /\ GoesTo(h, "suppress")
    /\ UNCHANGED <<kind, campaign, known, stalls, counters, suppressed, subscribed, emitted>>

\* The UPDATE with CASE: the status never goes down in the order of the enum.
RaiseStatus(h) ==
    /\ pc[h] = "raise"
    /\ \/ /\ status' = IF Rank[New(h)] > Rank[status] THEN New(h) ELSE status
          /\ reports' = reports \cup {New(h)}
          /\ GoesTo(h, "suppress")
       \/ Throws(h) /\ UNCHANGED <<status, reports>>
    /\ UNCHANGED <<kind, campaign, known, stalls, counters, rows, suppressed, subscribed, emitted>>

\* addSuppression for a hard bounce or a complaint; its error is swallowed.
AddSuppression(h) ==
    /\ pc[h] = "suppress"
    /\ \/ suppressed' = (suppressed \/ Bad(h))
       \/ "db" \in Faults /\ UNCHANGED suppressed
    /\ GoesTo(h, "daily")
    /\ UNCHANGED <<kind, campaign, known, stalls, status, counters, rows, subscribed, emitted,
                   reports>>

Counts(h) == New(h) \in Counted /\ ~(known[h] /\ New(h) \in Engagement)

\* dailyEmailUsage, except for a repeated open or click.
CountDaily(h) ==
    /\ pc[h] = "daily"
    /\ \/ /\ daily' = IF Counts(h) THEN Plus(daily, New(h)) ELSE daily
          /\ GoesTo(h, "total")
       \/ Throws(h) /\ UNCHANGED daily
    /\ UNCHANGED <<kind, campaign, known, stalls, status, total, tally, left, rows, suppressed,
                   subscribed, emitted, reports>>

\* cumulatedMetrics, for a delivery, a hard bounce and a complaint.
CountTotal(h) ==
    /\ pc[h] = "total"
    /\ \/ /\ total' = IF Bad(h) \/ kind[h] = "Delivery" THEN Plus(total, New(h)) ELSE total
          /\ GoesTo(h, IF ~campaign \/ kind[h] = "Unsubscribe Click" THEN "record"
                       ELSE IF Bad(h) THEN "contact" ELSE "tally")
       \/ Throws(h) /\ UNCHANGED total
    /\ UNCHANGED <<kind, campaign, known, stalls, status, daily, tally, left, rows, suppressed,
                   subscribed, emitted, reports>>

\* checkUnsubscribe and unsubscribeContact: the contact is read ...
ReadContact(h) ==
    /\ pc[h] = "contact"
    /\ \/ GoesTo(h, IF subscribed THEN "leave" ELSE "tally")
       \/ Throws(h)
    /\ UNCHANGED <<kind, campaign, known, stalls, status, counters, rows, suppressed, subscribed,
                   emitted, reports>>

\* ... unsubscribed ...
Unsubscribe(h) ==
    /\ pc[h] = "leave"
    /\ \/ subscribed' = FALSE /\ GoesTo(h, "left")
       \/ Throws(h) /\ UNCHANGED subscribed
    /\ UNCHANGED <<kind, campaign, known, stalls, status, counters, rows, suppressed, emitted,
                   reports>>

\* ... and counted by the campaign.
CountLeft(h) ==
    /\ pc[h] = "left"
    /\ \/ left' = left + 1 /\ GoesTo(h, "tally")
       \/ Throws(h) /\ UNCHANGED left
    /\ UNCHANGED <<kind, campaign, known, stalls, status, daily, total, tally, rows, suppressed,
                   subscribed, emitted, reports>>

\* updateCampaignAnalytics, unless a row of this status was found.
CountTally(h) ==
    /\ pc[h] = "tally"
    /\ \/ /\ tally' = IF ~known[h] /\ New(h) \in Counted THEN Plus(tally, New(h)) ELSE tally
          /\ GoesTo(h, "record")
       \/ Throws(h) /\ UNCHANGED tally
    /\ UNCHANGED <<kind, campaign, known, stalls, status, daily, total, left, rows, suppressed,
                   subscribed, emitted, reports>>

\* emailEvent.create.
RecordEvent(h) ==
    /\ pc[h] = "record"
    /\ \/ rows' = [rows EXCEPT ![h] = @ + 1] /\ GoesTo(h, "emit")
       \/ Throws(h) /\ UNCHANGED rows
    /\ UNCHANGED <<kind, campaign, known, stalls, status, counters, suppressed, subscribed,
                   emitted, reports>>

\* WebhookService.emit; its error is swallowed.
EmitWebhook(h) ==
    /\ pc[h] = "emit"
    /\ \/ emitted' = [emitted EXCEPT ![h] = @ + 1]
       \/ "db" \in Faults /\ UNCHANGED emitted
    /\ GoesTo(h, "done")
    /\ UNCHANGED <<kind, campaign, known, stalls, status, counters, rows, suppressed, subscribed,
                   reports>>

\* The worker of a hook dies: the stalled job is taken again, once.
Crash(h) ==
    /\ "crash" \in Faults
    /\ pc[h] \notin {"sns", "done", "lost"}
    /\ IF stalls[h] < MaxStalled
       THEN GoesTo(h, "read") /\ stalls' = [stalls EXCEPT ![h] = @ + 1]
       ELSE GoesTo(h, "lost") /\ UNCHANGED stalls
    /\ UNCHANGED <<kind, campaign, known, status, counters, rows, suppressed, subscribed,
                   emitted, reports>>

\* executeEmail fails after SES took the mail: FAILED, without a look at the status.
MarkFailed ==
    /\ "db" \in Faults
    /\ status' = "FAILED"
    /\ reports' = reports \cup {"FAILED"}
    /\ UNCHANGED <<kind, campaign, pc, known, stalls, counters, rows, suppressed, subscribed,
                   emitted>>

Hook(h) ==
    \/ Receive(h) \/ ReadEmail(h) \/ CheckExisting(h) \/ RaiseStatus(h) \/ AddSuppression(h)
    \/ CountDaily(h) \/ CountTotal(h) \/ ReadContact(h) \/ Unsubscribe(h) \/ CountLeft(h)
    \/ CountTally(h) \/ RecordEvent(h) \/ EmitWebhook(h)

Next == (\E h \in Hooks : Hook(h) \/ Crash(h)) \/ MarkFailed

Spec == Init /\ [][Next]_vars

-----------------------------------------------------------------------------
Points == {"sns", "read", "check", "raise", "suppress", "daily", "total", "contact", "leave",
           "left", "tally", "record", "emit", "done", "lost"}

\* The variables have their types; only the contact of a campaign that bounced or
\* complained is being unsubscribed.
TypeOK ==
    /\ kind \in [Hooks -> Kinds]
    /\ campaign \in BOOLEAN
    /\ pc \in [Hooks -> Points]
    /\ known \in [Hooks -> BOOLEAN]
    /\ stalls \in [Hooks -> 0..MaxStalled]
    /\ status \in Statuses
    /\ daily \in [Counted -> Nat]
    /\ total \in [Counted -> Nat]
    /\ tally \in [Counted -> Nat]
    /\ rows \in [Hooks -> Nat]
    /\ suppressed \in BOOLEAN
    /\ subscribed \in BOOLEAN
    /\ left \in Nat
    /\ emitted \in [Hooks -> Nat]
    /\ reports \in SUBSET Statuses
    /\ \A h \in Hooks : pc[h] \in {"contact", "leave", "left"} => campaign /\ Bad(h)

\* Whatever the order in which concurrent hooks are handled, the email shows the
\* highest status reported so far ("to avoid race conditions").
LatestIsHighest ==
    /\ status \in reports
    /\ \A s \in reports : Rank[s] <= Rank[status]

\* An event row is written after its counters, so that a crash or a failure in
\* between may count an event twice but never leaves a recorded one uncounted.
\* (A click on the unsubscribe link has a row and no counter of the campaign.)
EventIsCounted ==
    \A h \in Hooks : rows[h] > 0 /\ New(h) \in Counted =>
        /\ daily[New(h)] > 0
        /\ Bad(h) \/ kind[h] = "Delivery" => total[New(h)] > 0
        /\ campaign => \/ tally[New(h)] > 0
                       \/ \E g \in Hooks : kind[g] = "Unsubscribe Click" /\ New(h) = New(g)

\* When a hard bounce or a complaint is recorded, the address is on the suppression
\* list, unless a database error was swallowed, and the campaign's contact is
\* unsubscribed, through crashes and failures in between.
BadAddressIsDropped ==
    \A h \in Hooks : rows[h] > 0 /\ Bad(h) =>
        /\ suppressed \/ "db" \in Faults
        /\ campaign => ~subscribed

=============================================================================
