--------------------------- MODULE CampaignBatch ---------------------------
(***************************************************************************)
(* One campaign: its schedule, pause and resume requests, the scheduler's  *)
(* tick (jobs/campaign-scheduler-job.ts) and the batch worker              *)
(* (CampaignBatchService, service/campaign-service.ts), which pages the    *)
(* contacts of the book by a cursor and makes one email for each.          *)
(*                                                                         *)
(* One action per await that reads or writes shared state.  Contacts are   *)
(* numbered in the order of their ids.  The emails of contact c are        *)
(* numbered 1..rows[c] in the order of creation.                           *)
(***************************************************************************)
EXTENDS Naturals, FiniteSets, FiniteSetsExt

CONSTANTS
    N,              \* contacts 1..N
    BatchSize,      \* campaign.batchSize
    Workers,        \* slots of the batch workers (concurrency 20 per process)
    MaxAsks,        \* bound: requests, where they come "again"
    MaxCrashes,     \* bound: crashes and stalls of the batch workers
    Mixes,          \* the sets of changes and faults that come together in a behaviour
    Nobody          \* no slot

ASSUME NumbersAssumption ==
    /\ N \in Nat
    /\ BatchSize \in Nat \ {0}
    /\ MaxAsks \in Nat
    /\ MaxCrashes \in Nat
    /\ Nobody \notin Workers

Contacts == 1..N

\* BullMQ's default maxStalledCount.
MaxStalled == 1

VARIABLES
    mix,        \* those of this behaviour: a contact may "join", "leave" or be deleted
                \* ("contact"), so may the "campaign" and the "domain"; "db" rejects,
                \* "queue" throws, its "reply" is lost, "render" throws, a slot's process
                \* dies ("crash"), or the slot loses its job and runs on ("stall");
                \* requests come "again"
    status,     \* campaign.status, "GONE" when deleted
    due,        \* campaign.scheduledAt is null or past
    cursor,     \* campaign.lastCursor, 0 when null
    contact,    \* what each contact is in the book
    rows,       \* emails created for the contact
    link,       \* CampaignEmail(campaign, contact).emailId, 0 without a row
    queued,     \* its emails handed to the email queue
    failed,     \* its emails marked FAILED
    suppressed, \* its emails created SUPPRESSED
    job,        \* the job campaign-batch-<id>
    run,        \* what each worker slot runs
    tick,       \* where the scheduler's tick is
    asking,     \* the schedule and resume requests between their reads and their write
    asks,       \* requests made
    crashes     \* crashes and stalls so far

book == <<rows, link, queued, failed, suppressed>>
outside == <<asking, asks, tick, crashes>>
state == <<status, due, cursor, contact, book, job, run, outside>>
vars == <<state, mix>>

NoJob == [state |-> "none", owner |-> Nobody, stalls |-> 0]

\* A slot's run: the cursor it read, its page, what is left of it,
\* the email in hand, and whether that one is to be queued.
IdleRun == [pc |-> "idle", from |-> 0, page |-> {}, todo |-> {}, email |-> 0, send |-> FALSE]

Init ==
    /\ mix \in Mixes
    /\ status = "DRAFT"
    /\ due = TRUE
    /\ cursor = 0
    /\ contact \in [Contacts -> {"subscribed", "unsubscribed"}
                                  \cup IF "join" \in mix THEN {"absent"} ELSE {}]
    /\ rows = [c \in Contacts |-> 0]
    /\ link = [c \in Contacts |-> 0]
    /\ queued = [c \in Contacts |-> {}]
    /\ failed = [c \in Contacts |-> {}]
    /\ suppressed = [c \in Contacts |-> {}]
    /\ job = NoJob
    /\ run = [k \in Workers |-> IdleRun]
    /\ tick = "idle"
    /\ asking = [r \in 1..MaxAsks |-> "none"]
    /\ asks = 0
    /\ crashes = 0

Subscribed == {c \in Contacts : contact[c] = "subscribed"}
Exists == status # "GONE"

-----------------------------------------------------------------------------
(***************************************************************************)
(* Requests                                                                *)
(***************************************************************************)

Ask == asks < MaxAsks /\ (asks = 0 \/ "again" \in mix) /\ asks' = asks + 1

\* A request has read the campaign and will write this.
WillWrite(what) == Ask /\ asking' = [asking EXCEPT ![asks + 1] = what]
Writes(r) == asking' = [asking EXCEPT ![r] = "none"]

\* scheduleCampaign up to the count of subscribed contacts, which must not be 0.
ScheduleRead ==
    /\ Exists
    /\ Subscribed # {}
    /\ WillWrite(IF status \in {"DRAFT", "SENT"} THEN "reset" ELSE "keep")
    /\ UNCHANGED <<status, due, cursor, contact, book, job, run, tick, crashes>>

\* Its update, whatever the status is by now.
ScheduleWrite(r) ==
    /\ asking[r] \in {"reset", "keep"}
    /\ Writes(r)
    /\ \/ ~Exists /\ UNCHANGED <<status, due, cursor>>
       \/ /\ Exists
          /\ status' = "SCHEDULED"
          /\ due' \in BOOLEAN
          /\ cursor' = IF asking[r] = "reset" THEN 0 ELSE cursor
    /\ UNCHANGED <<contact, book, job, run, asks, tick, crashes>>

\* pauseCampaign: from any status.  Its read only asks whether the campaign exists,
\* which its update asks again.
PauseCampaign ==
    /\ Exists
    /\ Ask
    /\ status' = "PAUSED"
    /\ UNCHANGED <<due, cursor, contact, book, job, run, asking, tick, crashes>>

\* resumeCampaign: from any status; the time decides what it will write ...
ResumeRead ==
    /\ Exists
    /\ WillWrite(IF due THEN "RUNNING" ELSE "SCHEDULED")
    /\ UNCHANGED <<status, due, cursor, contact, book, job, run, tick, crashes>>

\* ... whatever the time and the status are by then.
ResumeWrite(r) ==
    /\ asking[r] \in {"RUNNING", "SCHEDULED"}
    /\ Writes(r)
    /\ status' = IF Exists THEN asking[r] ELSE status
    /\ UNCHANGED <<due, cursor, contact, book, job, run, asks, tick, crashes>>

\* deleteCampaign: the rows of CampaignEmail and the campaign, in one transaction.
DeleteCampaign ==
    /\ "campaign" \in mix
    /\ Exists
    /\ status' = "GONE"
    /\ link' = [c \in Contacts |-> 0]
    /\ UNCHANGED <<due, cursor, contact, rows, queued, failed, suppressed, job, run, outside>>

\* scheduledAt passes.
TimePasses ==
    /\ ~due
    /\ due' = TRUE
    /\ UNCHANGED <<status, cursor, contact, book, job, run, outside>>

\* The contacts of the book change while the campaign runs; ids grow.
ContactChanges ==
    /\ \E c \in Contacts :
        \/ /\ "join" \in mix
           /\ contact[c] = "unsubscribed" \/ (\A d \in c..N : contact[d] = "absent")
           /\ contact' = [contact EXCEPT ![c] = "subscribed"]
        \/ /\ "leave" \in mix
           /\ contact[c] = "subscribed"
           /\ contact' = [contact EXCEPT ![c] = "unsubscribed"]
        \/ /\ "contact" \in mix
           /\ contact[c] \in {"subscribed", "unsubscribed"}
           /\ contact' = [contact EXCEPT ![c] = "deleted"]
    /\ UNCHANGED <<status, due, cursor, book, job, run, outside>>

-----------------------------------------------------------------------------
(***************************************************************************)
(* The scheduler's tick                                                    *)
(***************************************************************************)

\* findMany of the campaigns to run.
TickRead ==
    /\ tick = "idle"
    /\ status \in {"SCHEDULED", "RUNNING"}
    /\ due
    /\ tick' = "check"
    /\ UNCHANGED <<status, due, cursor, contact, book, job, run, asking, asks, crashes>>

\* queueBatch reads the campaign again; when the read fails it goes on.
QueueBatchRead ==
    /\ tick = "check"
    /\ \/ status \in {"GONE", "PAUSED", "SENT"} /\ tick' = "idle"
       \/ status \in {"SCHEDULED", "RUNNING"} /\ tick' = "add"
       \/ "db" \in mix /\ tick' = "add"
    /\ UNCHANGED <<status, due, cursor, contact, book, job, run, asking, asks, crashes>>

\* batchQueue.add: ignored while a job with this id exists, a failed one included.
AddBatch ==
    /\ tick = "add"
    /\ tick' = "idle"
    /\ job' = IF job.state = "none" THEN [NoJob EXCEPT !.state = "waiting"] ELSE job
    /\ UNCHANGED <<status, due, cursor, contact, book, run, asking, asks, crashes>>

-----------------------------------------------------------------------------
(***************************************************************************)
(* The batch worker                                                        *)
(***************************************************************************)

GoesTo(k, point) == run' = [run EXCEPT ![k].pc = point]

\* A rejected database call outside the loop over the contacts fails the job.
DbThrows(k) == "db" \in mix /\ GoesTo(k, "throw")

\* A free slot takes the job.
TakeJob(k) ==
    /\ run[k].pc = "idle"
    /\ job.state = "waiting"
    /\ job' = [job EXCEPT !.state = "active", !.owner = k]
    /\ GoesTo(k, "read")
    /\ UNCHANGED <<status, due, cursor, contact, book, outside>>

\* campaign.findUnique and the early returns.
ReadCampaign(k) ==
    /\ run[k].pc = "read"
    /\ \/ /\ status \in {"GONE", "PAUSED"} \/ ~due
          /\ GoesTo(k, "return")
       \/ /\ status \notin {"GONE", "PAUSED"} /\ due
          /\ run' = [run EXCEPT ![k].pc = IF status = "SCHEDULED" THEN "mark" ELSE "page",
                                ![k].from = cursor]
       \/ DbThrows(k)
    /\ UNCHANGED <<status, due, cursor, contact, book, job, outside>>

\* "First touch moves SCHEDULED -> RUNNING", whatever the status is by now.
MarkRunning(k) ==
    /\ run[k].pc = "mark"
    /\ \/ Exists /\ status' = "RUNNING" /\ GoesTo(k, "page")
       \/ ~Exists /\ GoesTo(k, "throw") /\ UNCHANGED status
       \/ DbThrows(k) /\ UNCHANGED status
    /\ UNCHANGED <<due, cursor, contact, book, job, outside>>

\* Mutant: skip: 1 without a cursor too.
PageSkipsFirst(from) ==
    LET match == {c \in Subscribed : c >= from}
        after == IF match = {} THEN {} ELSE match \ {Min(match)}
    IN  {c \in after : Cardinality({d \in after : d <= c}) <= BatchSize}

\* The page after a cursor row: the first BatchSize subscribed contacts from the
\* cursor on, the first match skipped.
Page(from) ==
    LET match == {c \in Subscribed : c >= from}
        after == IF from = 0 \/ match = {} THEN match ELSE match \ {Min(match)}
    IN  {c \in after : Cardinality({d \in after : d <= c}) <= BatchSize}

\* contact.findMany; it finds nothing when the cursor's row is deleted.
ReadPage(k) ==
    /\ run[k].pc = "page"
    /\ LET from == run[k].from
           lost == from # 0 /\ contact[from] = "deleted"
           page == IF lost THEN {} ELSE Page(from)
       IN  \/ run' = [run EXCEPT ![k].pc = IF page = {} THEN "empty" ELSE "existing",
                                 ![k].page = page]
           \/ DbThrows(k)
    /\ UNCHANGED <<status, due, cursor, contact, book, job, outside>>

\* "No more contacts -> mark SENT", whatever the status is by now.
MarkSent(k) ==
    /\ run[k].pc = "empty"
    /\ \/ Exists /\ status' = "SENT" /\ GoesTo(k, "return")
       \/ ~Exists /\ GoesTo(k, "throw") /\ UNCHANGED status
       \/ DbThrows(k) /\ UNCHANGED status
    /\ UNCHANGED <<due, cursor, contact, book, job, outside>>

\* Mutant: the contacts that have an email are not left out.
ReadNothing(k) ==
    /\ run[k].pc = "existing"
    /\ run' = [run EXCEPT ![k].pc = "create", ![k].todo = run[k].page]
    /\ UNCHANGED <<status, due, cursor, contact, book, job, outside>>

\* The domain, without which the worker returns, and the contacts of the page
\* that have an email of this campaign already.
ReadExisting(k) ==
    /\ run[k].pc = "existing"
    /\ \/ run' = [run EXCEPT ![k].pc = "create",
                             ![k].todo = {c \in run[k].page : link[c] = 0}]
       \/ "domain" \in mix /\ GoesTo(k, "return")
       \/ DbThrows(k)
    /\ UNCHANGED <<status, due, cursor, contact, book, job, outside>>

InHand(k) == Min(run[k].todo)

\* The run as it is when it is done with the contact in hand.
NextContact(k) ==
    run' = [run EXCEPT ![k].pc = "create", ![k].todo = @ \ {InHand(k)},
                       ![k].email = 0, ![k].send = FALSE]

\* processContactEmail: the suppression lookup, the rendering, email.create.
CreateEmail(k) ==
    /\ run[k].pc = "create"
    /\ run[k].todo # {}
    /\ LET c == InHand(k)
           n == rows[c] + 1
       IN  \/ \E send \in BOOLEAN :
                /\ rows' = [rows EXCEPT ![c] = n]
                /\ suppressed' = IF send THEN suppressed
                                 ELSE [suppressed EXCEPT ![c] = @ \cup {n}]
                /\ run' = [run EXCEPT ![k].pc = "link", ![k].email = n, ![k].send = send]
           \/ /\ mix \cap {"render", "db"} # {}
              /\ GoesTo(k, "record")
              /\ UNCHANGED <<rows, suppressed>>
    /\ UNCHANGED <<status, due, cursor, contact, link, queued, failed, job, outside>>

\* Mutant: an existing row is overwritten.
LinkOver(k) ==
    /\ run[k].pc = "link"
    /\ link' = [link EXCEPT ![InHand(k)] = run[k].email]
    /\ IF run[k].send THEN GoesTo(k, "queue") ELSE NextContact(k)
    /\ UNCHANGED <<status, due, cursor, contact, rows, queued, failed, suppressed, job, outside>>

\* campaignEmail.create, which throws when the contact has one.
LinkEmail(k) ==
    /\ run[k].pc = "link"
    /\ \/ /\ link[InHand(k)] = 0
          /\ link' = [link EXCEPT ![InHand(k)] = run[k].email]
          /\ IF run[k].send THEN GoesTo(k, "queue") ELSE NextContact(k)
       \/ /\ link[InHand(k)] # 0 \/ "db" \in mix
          /\ GoesTo(k, "record")
          /\ UNCHANGED link
    /\ UNCHANGED <<status, due, cursor, contact, rows, queued, failed, suppressed, job, outside>>

\* EmailQueueService.queueEmail.
QueueEmail(k) ==
    /\ run[k].pc = "queue"
    /\ LET put == queued' = [queued EXCEPT ![InHand(k)] = @ \cup {run[k].email}]
       IN  \/ put /\ NextContact(k)
           \/ "queue" \in mix /\ GoesTo(k, "record") /\ UNCHANGED queued
           \/ "reply" \in mix /\ put /\ GoesTo(k, "record")
    /\ UNCHANGED <<status, due, cursor, contact, rows, link, failed, suppressed, job, outside>>

\* Mutant: an email created before the failure is neither linked nor failed.
RecordNewFailure(k) ==
    /\ run[k].pc = "record"
    /\ LET c == InHand(k)
       IN  /\ rows' = [rows EXCEPT ![c] = @ + 1]
           /\ failed' = [failed EXCEPT ![c] = @ \cup {rows[c] + 1}]
           /\ link' = [link EXCEPT ![c] = IF @ = 0 THEN rows[c] + 1 ELSE @]
    /\ NextContact(k)
    /\ UNCHANGED <<status, due, cursor, contact, queued, suppressed, job, outside>>

\* recordCampaignContactFailure: marks the linked email FAILED, else links and
\* marks the newest one, else a new one.  Its own failure is logged and skipped.
RecordFailure(k) ==
    /\ run[k].pc = "record"
    /\ LET c == InHand(k)
           n == IF link[c] # 0 THEN link[c] ELSE IF rows[c] # 0 THEN rows[c] ELSE 1
       IN  \/ /\ link' = [link EXCEPT ![c] = n]
              /\ rows' = [rows EXCEPT ![c] = IF @ = 0 THEN 1 ELSE @]
              /\ failed' = [failed EXCEPT ![c] = @ \cup {n}]
           \/ "db" \in mix /\ UNCHANGED <<link, rows, failed>>
    /\ NextContact(k)
    /\ UNCHANGED <<status, due, cursor, contact, queued, suppressed, job, outside>>

\* The page is done: the cursor moves to its last contact.
AdvanceCursor(k) ==
    /\ run[k].pc = "create"
    /\ run[k].todo = {}
    /\ \/ Exists /\ cursor' = Max(run[k].page) /\ GoesTo(k, "return")
       \/ ~Exists /\ GoesTo(k, "throw") /\ UNCHANGED cursor
       \/ DbThrows(k) /\ UNCHANGED cursor
    /\ UNCHANGED <<status, due, contact, book, job, outside>>

\* Mutant: removeOnComplete is missing.
FinishKeepsJob(k) ==
    /\ run[k].pc \in {"return", "throw"}
    /\ job' = IF job.owner # k THEN job ELSE [job EXCEPT !.state = "failed", !.owner = Nobody]
    /\ run' = [run EXCEPT ![k] = IdleRun]
    /\ UNCHANGED <<status, due, cursor, contact, book, outside>>

\* BullMQ: a job that returned is removed and one that threw is kept as failed
\* (attempts 1); a slot that lost the job changes nothing.
FinishJob(k) ==
    /\ run[k].pc \in {"return", "throw"}
    /\ job' = IF job.owner # k THEN job
              ELSE IF run[k].pc = "return" THEN NoJob
              ELSE [job EXCEPT !.state = "failed", !.owner = Nobody]
    /\ run' = [run EXCEPT ![k] = IdleRun]
    /\ UNCHANGED <<status, due, cursor, contact, book, outside>>

\* The process of a slot dies.
Crash(k) ==
    /\ "crash" \in mix
    /\ run[k].pc # "idle"
    /\ crashes < MaxCrashes /\ crashes' = crashes + 1
    /\ run' = [run EXCEPT ![k] = IdleRun]
    /\ UNCHANGED <<status, due, cursor, contact, book, job, asking, asks, tick>>

\* The stalled check: the owner of the job died, or did not renew its lock in
\* time and runs on.  The job waits again, and fails the second time.
RecoverStalled ==
    /\ job.state = "active"
    /\ \/ run[job.owner].pc = "idle" /\ UNCHANGED crashes
       \/ "stall" \in mix /\ crashes < MaxCrashes /\ crashes' = crashes + 1
    /\ job' = [state |-> IF job.stalls < MaxStalled THEN "waiting" ELSE "failed",
               owner |-> Nobody, stalls |-> job.stalls + 1]
    /\ UNCHANGED <<status, due, cursor, contact, book, run, asking, asks, tick>>

Batch(k) ==
    \/ TakeJob(k) \/ ReadCampaign(k) \/ MarkRunning(k) \/ ReadPage(k) \/ MarkSent(k)
    \/ ReadExisting(k) \/ CreateEmail(k) \/ LinkEmail(k) \/ QueueEmail(k)
    \/ RecordFailure(k) \/ AdvanceCursor(k) \/ FinishJob(k)

Scheduler == TickRead \/ QueueBatchRead \/ AddBatch

Requests ==
    \/ ScheduleRead \/ PauseCampaign \/ ResumeRead \/ DeleteCampaign
    \/ \E r \in 1..MaxAsks : ScheduleWrite(r) \/ ResumeWrite(r)

Step ==
    \/ Requests
    \/ Scheduler
    \/ \E k \in Workers : Batch(k) \/ Crash(k)
    \/ RecoverStalled
    \/ TimePasses
    \/ ContactChanges

Next == Step /\ UNCHANGED mix

Spec == Init /\ [][Next]_vars

\* The repeated tick, the workers, the stalled check and the clock keep going.
FairSpec ==
    /\ Spec
    /\ WF_state(Scheduler)
    /\ \A k \in Workers : WF_state(Batch(k))
    /\ WF_state(RecoverStalled /\ UNCHANGED crashes)
    /\ WF_state(TimePasses)

-----------------------------------------------------------------------------
Points == {"idle", "read", "mark", "page", "empty", "existing", "create", "link", "queue",
           "record", "return", "throw"}
Statuses == {"DRAFT", "SCHEDULED", "RUNNING", "PAUSED", "SENT", "GONE"}

\* The variables have their types; emails are linked, queued and failed only
\* once they exist, and a run that works on a contact has one in hand.
TypeOK ==
    /\ mix \in Mixes
    /\ status \in Statuses
    /\ due \in BOOLEAN
    /\ cursor \in 0..N
    /\ contact \in [Contacts -> {"absent", "subscribed", "unsubscribed", "deleted"}]
    /\ rows \in [Contacts -> Nat]
    /\ link \in [Contacts -> Nat]
    /\ queued \in [Contacts -> SUBSET Nat]
    /\ failed \in [Contacts -> SUBSET Nat]
    /\ suppressed \in [Contacts -> SUBSET Nat]
    /\ job \in [state : {"none", "waiting", "active", "failed"},
                owner : Workers \cup {Nobody}, stalls : Nat]
    /\ job.state = "active" => job.owner \in Workers
    /\ run \in [Workers -> [pc : Points, from : 0..N, page : SUBSET Contacts,
                            todo : SUBSET Contacts, email : Nat, send : BOOLEAN]]
    /\ \A k \in Workers :
        /\ run[k].pc \in {"link", "queue", "record"} => run[k].todo # {}
        /\ run[k].pc \in {"existing", "create"} => run[k].page # {}
    /\ tick \in {"idle", "check", "add"}
    /\ asking \in [1..MaxAsks -> {"none", "reset", "keep", "RUNNING", "SCHEDULED"}]
    /\ asks \in 0..MaxAsks
    /\ crashes \in 0..MaxCrashes

\* A contact gets at most one email of the campaign, unless the campaign is deleted
\* under a run: reruns of a batch after a crash, slots that lost their job and run on,
\* and rescheduling of a campaign that was sent never hand a second one to the queue.
OneEmailPerContact ==
    "campaign" \notin mix => \A c \in Contacts : \A m, n \in queued[c] : m = n

\* As long as no slot crashed or lost its job, the queue's replies arrive and the
\* campaign is not deleted, an email reported FAILED or SUPPRESSED was not handed to
\* the email queue.
FailedIsNotQueued ==
    crashes = 0 /\ mix \cap {"reply", "campaign"} = {}
        => \A c \in Contacts : queued[c] \cap (failed[c] \cup suppressed[c]) = {}

\* "No more contacts -> mark SENT": a campaign is SENT only when every contact
\* that is subscribed has its email or a recorded failure.
SentIsComplete ==
    status = "SENT" => \A c \in Subscribed : link[c] # 0

\* The same while the book stays as it is, the campaign is not deleted and the database
\* answers, whatever crashes, fails or is paused and rescheduled.
SteadySentIsComplete ==
    mix \cap {"join", "leave", "contact", "campaign", "db"} = {} => SentIsComplete

\* No contact is passed over: those up to the cursor are accounted for.
CursorIsCovered == \A c \in Subscribed : c <= cursor => link[c] # 0

\* As long as no worker crashed, the email of a contact was queued, FAILED or
\* SUPPRESSED, unless a slot is still at it: none is left QUEUED and in no queue, but
\* for one that the queue refused when the database refused the record of that too.
LinkedIsSettled ==
    crashes = 0 /\ ~({"queue", "db"} \subseteq mix) => \A c \in Contacts :
        \/ link[c] \in {0} \cup queued[c] \cup failed[c] \cup suppressed[c]
        \/ \E k \in Workers : run[k].pc \in {"queue", "record"} /\ InHand(k) = c

\* A due campaign is not left RUNNING for ever, whatever crashes, stalls, fails or
\* changes, unless its domain is gone (its batches return and come back), or its batch
\* job has failed: that job keeps the jobId, and every further batch of the campaign is
\* ignored.  A job fails only by a second stall, or by a write that the database rejects.
BatchesFinish ==
    "domain" \notin mix /\ status = "RUNNING"
        ~> \/ status # "RUNNING"
           \/ job.state = "failed" /\ (job.stalls > MaxStalled \/ "db" \in mix)

=============================================================================
