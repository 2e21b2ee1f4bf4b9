--------------------------- MODULE EmailDelivery ---------------------------
(***************************************************************************)
(* One email: the request that creates it (sendEmail, sendBulkEmails),     *)
(* requests that reschedule or cancel it (updateEmail, cancelEmail in      *)
(* service/email-service.ts), the queue of its region and the worker that  *)
(* hands it to SES (service/email-queue-service.ts).                       *)
(*                                                                         *)
(* One action per await that reads or writes shared state.  Recipients,    *)
(* content and event rows are left out; SENT stands for every status that  *)
(* SES reports (SesHook models those).  A time is a number; BullMQ is told *)
(* no time but a delay, which was computed before the rows were written.   *)
(***************************************************************************)
EXTENDS Naturals, FiniteSets

CONSTANTS
    Workers,        \* slots of the email workers
    Clients,        \* concurrent update and cancel requests
    MaxTime,        \* bound: times
    MaxAsks,        \* bound: update and cancel requests
    MaxCrashes,     \* bound: crashes and stalls of the workers
    MaxEvents,      \* bound: both together
    Faults,         \* "db" rejects, "queue" throws, its "reply" is lost, "ses" accepts and
                    \* throws, "config" is missing, "stall": a live slot loses its job,
                    \* "abort": the sender dies or its bulk request is rejected halfway
    Nobody          \* no slot

ASSUME NumbersAssumption ==
    /\ IsFiniteSet(Workers)
    /\ MaxTime \in Nat
    /\ MaxAsks \in Nat
    /\ MaxCrashes \in Nat
    /\ MaxEvents \in Nat
    /\ Nobody \notin Workers

\* BullMQ's default maxStalledCount.
MaxStalled == 1

VARIABLES
    status,     \* email.latestStatus, "none" without a row
    at,         \* email.scheduledAt, 0 when null
    clock,      \* the time
    job,        \* the job whose jobId is the email's id
    added,      \* history: the job was added
    sender,     \* where the request that creates the email is
    delay,      \* and the delay it computed
    client,     \* where each update or cancel request is, its time and its delay
    run,        \* where each worker slot is
    sends,      \* mails accepted by SES for this email
    requeued,   \* history: times a stalled job was queued again
    missed,     \* history: an update wrote its time and could not move the job, or
                \* wrote it while another had the job to move
    revoked,    \* history: a cancellation removed a job that no slot had taken
    stranded,   \* history: the job was lost to a failure that leaves the status as it is
    asks,       \* requests so far
    crashes     \* crashes and stalls so far

history == <<added, requeued, missed, revoked>>
vars == <<status, at, clock, job, sender, delay, client, run, sends, history, stranded, asks, crashes>>

NoJob == [state |-> "none", wait |-> 0, owner |-> Nobody, stalls |-> 0]
IdleClient == [pc |-> "idle", at |-> 0, wait |-> 0]

\* More requests, crashes and stalls may come.
Room == asks + crashes < MaxEvents

\* Math.max(0, scheduledAtDate.getTime() - Date.now())
DelayUntil(t) == IF t > clock THEN t - clock ELSE 0

Init ==
    /\ status = "none"
    /\ at = 0
    /\ clock = 0
    /\ job = NoJob
    /\ sender = "start"
    /\ delay = 0
    /\ client = [c \in Clients |-> IdleClient]
    /\ run = [k \in Workers |-> "idle"]
    /\ sends = 0
    /\ added = FALSE
    /\ requeued = 0
    /\ missed = FALSE
    /\ revoked = FALSE
    /\ stranded = FALSE
    /\ asks = 0
    /\ crashes = 0

-----------------------------------------------------------------------------
(***************************************************************************)
(* The request that sends the email                                        *)
(***************************************************************************)

SenderStep == UNCHANGED <<clock, client, run, sends, requeued, missed, revoked, asks, crashes>>

\* The delay, then email.create: SUPPRESSED when all recipients are, SCHEDULED with a scheduledAt.
CreateEmail ==
    /\ sender = "start"
    /\ \/ \E t \in 0..MaxTime, how \in {"queue", "bulk"} :
            /\ status' = IF t = 0 THEN "QUEUED" ELSE "SCHEDULED"
            /\ at' = t
            /\ delay' = DelayUntil(t)
            /\ sender' = how
       \/ status' = "SUPPRESSED" /\ sender' = "ok" /\ UNCHANGED <<at, delay>>
    /\ UNCHANGED <<job, added, stranded>>
    /\ SenderStep

\* queue.add with jobId = emailId and the delay.
AddJob ==
    /\ job' = [NoJob EXCEPT !.state = IF delay = 0 THEN "waiting" ELSE "delayed", !.wait = delay]
    /\ delay' = 0
    /\ added' = TRUE

\* Mutant: a failed add is repeated.
QueueAgain ==
    /\ sender = "queue"
    /\ \/ AddJob /\ sender' = "ok"
       \/ "queue" \in Faults /\ UNCHANGED <<sender, delay, job, added>>
       \/ "reply" \in Faults /\ AddJob /\ UNCHANGED sender
    /\ UNCHANGED <<status, at, stranded>>
    /\ SenderStep

\* queueEmail in sendEmail.
QueueEmail ==
    /\ sender = "queue"
    /\ \/ AddJob /\ sender' = "ok"
       \/ "queue" \in Faults /\ sender' = "fail" /\ UNCHANGED <<delay, job, added>>
       \/ "reply" \in Faults /\ AddJob /\ sender' = "fail"
    /\ UNCHANGED <<status, at, stranded>>
    /\ SenderStep

\* queueBulk in sendBulkEmails: the error of addBulk is logged, not thrown; that of
\* init, which reads the regions first, is thrown.
QueueBulk ==
    /\ sender = "bulk"
    /\ \/ AddJob /\ sender' = "ok" /\ UNCHANGED stranded
       \/ "queue" \in Faults /\ sender' = "ok" /\ stranded' = TRUE /\ UNCHANGED <<delay, job, added>>
       \/ "db" \in Faults /\ sender' = "fail" /\ UNCHANGED <<delay, job, added, stranded>>
    /\ UNCHANGED <<status, at>>
    /\ SenderStep

\* The catch of sendEmail and that of sendBulkEmails; an error in it replaces the
\* first one.
MarkUnqueued ==
    /\ sender = "fail"
    /\ \/ status' = "FAILED"
       \/ "db" \in Faults /\ UNCHANGED status
    /\ sender' = "error"
    /\ UNCHANGED <<at, delay, job, added, stranded>>
    /\ SenderStep

\* The process dies, or a later email of the bulk request has no content and the
\* request is rejected with this one's row written.
SenderStops ==
    /\ "abort" \in Faults
    /\ sender \in {"queue", "bulk", "fail"}
    /\ sender' = "error"
    /\ UNCHANGED <<status, at, delay, job, added, stranded>>
    /\ SenderStep

-----------------------------------------------------------------------------
(***************************************************************************)
(* Requests to reschedule and to cancel.  One that throws just ends.       *)
(***************************************************************************)

ClientStep == UNCHANGED <<clock, sender, delay, run, sends, added, requeued, crashes>>
Moves(c, point) == client' = [client EXCEPT ![c].pc = point]
Stops(c) == client' = [client EXCEPT ![c] = IdleClient]

\* checkIfValidEmail: the email must be SCHEDULED.  An update computes its delay.
ReadScheduled(c) ==
    /\ client[c].pc = "idle"
    /\ status = "SCHEDULED"
    /\ asks < MaxAsks /\ Room
    /\ asks' = asks + 1
    /\ \/ \E t \in 1..MaxTime :
             client' = [client EXCEPT ![c] = [pc |-> "time", at |-> t, wait |-> DelayUntil(t)]]
       \/ Moves(c, "get")
    /\ UNCHANGED <<status, at, job, missed, revoked, stranded>>
    /\ ClientStep

\* updateEmail writes the new time first ...
WriteTime(c) ==
    /\ client[c].pc = "time"
    /\ \/ /\ at' = client[c].at
          /\ client' = [client EXCEPT ![c].pc = "delay", ![c].at = 0]
          /\ missed' = (missed \/ \E d \in Clients : client[d].pc = "delay")
       \/ "db" \in Faults /\ Stops(c) /\ UNCHANGED <<at, missed>>
    /\ UNCHANGED <<status, job, revoked, asks, stranded>>
    /\ ClientStep

\* Mutant: a job that is not delayed is left alone without an error.
DelayIgnored(c) ==
    /\ client[c].pc = "delay"
    /\ job' = IF job.state = "delayed" THEN [job EXCEPT !.wait = client[c].wait] ELSE job
    /\ Stops(c)
    /\ UNCHANGED <<status, at, missed, revoked, asks, stranded>>
    /\ ClientStep

\* ... then changeDelay moves the job, which throws unless the job is delayed.
ChangeDelay(c) ==
    /\ client[c].pc = "delay"
    /\ \/ job.state = "delayed" /\ job' = [job EXCEPT !.wait = client[c].wait] /\ UNCHANGED missed
       \/ /\ job.state # "delayed" \/ "queue" \in Faults
          /\ missed' = TRUE
          /\ UNCHANGED job
    /\ Stops(c)
    /\ UNCHANGED <<status, at, revoked, asks, stranded>>
    /\ ClientStep

\* chancelEmail: getJob, which must find the job ...
GetJob(c) ==
    /\ client[c].pc = "get"
    /\ IF job.state = "none" THEN Stops(c) ELSE Moves(c, "remove")
    /\ UNCHANGED <<status, at, job, missed, revoked, asks, stranded>>
    /\ ClientStep

Locked == job.state = "active" /\ job.owner # Nobody

\* ... and remove, which throws only when a slot holds the job's lock: removing a
\* job that is gone by now succeeds.
RemoveJob(c) ==
    /\ client[c].pc = "remove"
    /\ \/ /\ Locked \/ "queue" \in Faults
          /\ Stops(c)
          /\ UNCHANGED <<job, revoked>>
       \/ /\ ~Locked
          /\ job' = NoJob
          /\ Moves(c, "mark")
          /\ revoked' = (revoked \/ (job.state \in {"delayed", "waiting"} /\ job.stalls = 0))
    /\ UNCHANGED <<status, at, missed, asks, stranded>>
    /\ ClientStep

\* cancelEmail: CANCELLED, whatever the status is by now.
MarkCancelled(c) ==
    /\ client[c].pc = "mark"
    /\ \/ status' = "CANCELLED" /\ UNCHANGED stranded
       \/ "db" \in Faults /\ stranded' = TRUE /\ UNCHANGED status
    /\ Stops(c)
    /\ UNCHANGED <<at, job, missed, revoked, asks>>
    /\ ClientStep

-----------------------------------------------------------------------------
(***************************************************************************)
(* The worker: executeEmail                                                *)
(***************************************************************************)

WorkerStep == UNCHANGED <<at, clock, sender, delay, client, history, asks, crashes>>
GoesTo(k, point) == run' = [run EXCEPT ![k] = point]

\* BullMQ hands the job to a free slot.
TakeJob(k) ==
    /\ run[k] = "idle"
    /\ job.state = "waiting"
    /\ job' = [job EXCEPT !.state = "active", !.owner = k]
    /\ GoesTo(k, "read")
    /\ UNCHANGED <<status, sends, stranded>>
    /\ WorkerStep

\* The reads before the try: without a configuration set the job is done.
ReadEmail(k) ==
    /\ run[k] = "read"
    /\ \/ GoesTo(k, "limit") /\ UNCHANGED stranded
       \/ "config" \in Faults /\ GoesTo(k, "return") /\ stranded' = TRUE
       \/ "db" \in Faults /\ GoesTo(k, "throw") /\ stranded' = TRUE
    /\ UNCHANGED <<status, job, sends>>
    /\ WorkerStep

\* checkEmailLimit: the limit is reached, or not, or the check throws.
CheckLimit(k) ==
    /\ run[k] = "limit"
    /\ \/ GoesTo(k, "send")
       \/ GoesTo(k, "over")
       \/ "db" \in Faults /\ GoesTo(k, "fail")
    /\ UNCHANGED <<status, job, sends, stranded>>
    /\ WorkerStep

\* Over the limit: FAILED.
MarkOverLimit(k) ==
    /\ run[k] = "over"
    /\ \/ status' = "FAILED" /\ GoesTo(k, "return")
       \/ "db" \in Faults /\ GoesTo(k, "fail") /\ UNCHANGED status
    /\ UNCHANGED <<job, sends, stranded>>
    /\ WorkerStep

\* sendRawEmail.
SendRaw(k) ==
    /\ run[k] = "send"
    /\ \/ sends' = sends + 1 /\ GoesTo(k, "save")
       \/ sends' = sends /\ GoesTo(k, "fail")
       \/ "ses" \in Faults /\ sends' = sends + 1 /\ GoesTo(k, "fail")
    /\ UNCHANGED <<status, job, stranded>>
    /\ WorkerStep

\* The message id is saved, inside the try.
SaveMessageId(k) ==
    /\ run[k] = "save"
    /\ \/ GoesTo(k, "return")
       \/ "db" \in Faults /\ GoesTo(k, "fail")
    /\ UNCHANGED <<status, job, sends, stranded>>
    /\ WorkerStep

\* Mutant: the error is thrown on, without a status.
ThrowOn(k) ==
    /\ run[k] = "fail"
    /\ GoesTo(k, "throw")
    /\ UNCHANGED <<status, job, sends, stranded>>
    /\ WorkerStep

\* The catch: FAILED, whether or not SES has the mail.
MarkFailed(k) ==
    /\ run[k] = "fail"
    /\ \/ status' = "FAILED" /\ GoesTo(k, "return") /\ UNCHANGED stranded
       \/ "db" \in Faults /\ GoesTo(k, "throw") /\ stranded' = TRUE /\ UNCHANGED status
    /\ UNCHANGED <<job, sends>>
    /\ WorkerStep

\* Mutant: a job that threw is tried again.
FinishRetries(k) ==
    /\ run[k] \in {"return", "throw"}
    /\ job' = IF job.owner # k THEN job
              ELSE IF run[k] = "return" THEN NoJob
              ELSE [job EXCEPT !.state = "waiting", !.owner = Nobody]
    /\ GoesTo(k, "idle")
    /\ UNCHANGED <<status, sends, stranded>>
    /\ WorkerStep

\* BullMQ: a job that returned is removed and one that threw is kept as failed
\* (attempts 1); a slot that lost the job changes nothing.
FinishJob(k) ==
    /\ run[k] \in {"return", "throw"}
    /\ job' = IF job.owner # k THEN job
              ELSE IF run[k] = "return" THEN NoJob
              ELSE [job EXCEPT !.state = "failed", !.owner = Nobody]
    /\ GoesTo(k, "idle")
    /\ UNCHANGED <<status, sends, stranded>>
    /\ WorkerStep

-----------------------------------------------------------------------------
(***************************************************************************)
(* The environment                                                         *)
(***************************************************************************)

\* Time passes; no email has a time that is later than MaxTime.
Tick ==
    /\ clock < MaxTime \/ job.wait > 0
    /\ clock' = IF clock < MaxTime THEN clock + 1 ELSE clock
    /\ job' = IF job.wait > 0 THEN [job EXCEPT !.wait = @ - 1] ELSE job
    /\ UNCHANGED <<status, at, sender, delay, client, run, sends, history, asks, crashes, stranded>>

\* A delayed job whose delay is over waits for a slot.
PromoteJob ==
    /\ job.state = "delayed"
    /\ job.wait = 0
    /\ job' = [job EXCEPT !.state = "waiting"]
    /\ UNCHANGED <<status, at, clock, sender, delay, client, run, sends, history, asks, crashes, stranded>>

\* SES reports on a mail it accepted; parseSesHook raises the status, and FAILED
\* is above what SES reports in the order of the enum.
HookRaises ==
    /\ sends > 0
    /\ status' = IF status = "FAILED" THEN status ELSE "SENT"
    /\ UNCHANGED <<at, clock, job, sender, delay, client, run, sends, history, asks, crashes, stranded>>

\* The process of a slot dies.
Crash(k) ==
    /\ run[k] # "idle"
    /\ crashes < MaxCrashes /\ Room
    /\ crashes' = crashes + 1
    /\ GoesTo(k, "idle")
    /\ UNCHANGED <<status, at, clock, job, sender, delay, client, sends, history, asks, stranded>>

\* The lock of the job expires: its slot died, or did not renew it and runs on.
JobLockExpires ==
    /\ Locked
    /\ \/ run[job.owner] = "idle" /\ UNCHANGED crashes
       \/ "stall" \in Faults /\ crashes < MaxCrashes /\ Room /\ crashes' = crashes + 1
    /\ job' = [job EXCEPT !.owner = Nobody]
    /\ UNCHANGED <<status, at, clock, sender, delay, client, run, sends, history, asks, stranded>>

\* The stalled check: the job waits again, and fails the second time.
RecoverStalled ==
    /\ job.state = "active" /\ job.owner = Nobody
    /\ IF job.stalls < MaxStalled
       THEN /\ job' = [job EXCEPT !.state = "waiting", !.stalls = @ + 1]
            /\ requeued' = requeued + 1
            /\ UNCHANGED stranded
       ELSE /\ job' = [job EXCEPT !.state = "failed"]
            /\ stranded' = TRUE
            /\ UNCHANGED requeued
    /\ UNCHANGED <<status, at, clock, sender, delay, client, run, sends, added, missed, revoked,
                   asks, crashes>>

Sender == CreateEmail \/ QueueEmail \/ QueueBulk \/ MarkUnqueued

Client(c) == WriteTime(c) \/ ChangeDelay(c) \/ GetJob(c) \/ RemoveJob(c) \/ MarkCancelled(c)

Worker(k) ==
    \/ TakeJob(k) \/ ReadEmail(k) \/ CheckLimit(k) \/ MarkOverLimit(k)
    \/ SendRaw(k) \/ SaveMessageId(k) \/ MarkFailed(k) \/ FinishJob(k)

Next ==
    \/ Sender \/ SenderStops
    \/ \E c \in Clients : ReadScheduled(c) \/ Client(c)
    \/ \E k \in Workers : Worker(k) \/ Crash(k)
    \/ Tick \/ PromoteJob \/ HookRaises \/ JobLockExpires \/ RecoverStalled

Spec == Init /\ [][Next]_vars

\* Handlers and workers run on, time passes, SES reports, and BullMQ promotes due
\* jobs and looks for stalled ones.
FairSpec ==
    /\ Spec
    /\ WF_vars(Sender)
    /\ \A c \in Clients : WF_vars(Client(c))
    /\ \A k \in Workers : WF_vars(Worker(k))
    /\ WF_vars(Tick)
    /\ WF_vars(PromoteJob)
    /\ WF_vars(JobLockExpires /\ UNCHANGED crashes)
    /\ WF_vars(RecoverStalled)

-----------------------------------------------------------------------------
Statuses == {"SUPPRESSED", "SCHEDULED", "QUEUED", "CANCELLED", "FAILED", "SENT"}
Points == {"idle", "read", "limit", "over", "send", "save", "fail", "return", "throw"}

\* The variables have their types; a job exists only after it was added, and an
\* active one that is locked is so by a slot.
TypeOK ==
    /\ status \in Statuses \cup {"none"}
    /\ at \in 0..MaxTime
    /\ clock \in 0..MaxTime
    /\ job \in [state : {"none", "delayed", "waiting", "active", "failed"}, wait : 0..MaxTime,
                owner : Workers \cup {Nobody}, stalls : 0..MaxStalled]
    /\ job.owner # Nobody => job.state = "active"
    /\ job.state # "none" => added
    /\ sender \in {"start", "queue", "bulk", "fail", "ok", "error"}
    /\ delay \in 0..MaxTime
    /\ client \in [Clients -> [pc : {"idle", "time", "delay", "get", "remove", "mark"},
                               at : 0..MaxTime, wait : 0..MaxTime]]
    /\ run \in [Workers -> Points]
    /\ sends \in Nat
    /\ added \in BOOLEAN
    /\ requeued \in Nat
    /\ missed \in BOOLEAN
    /\ revoked \in BOOLEAN
    /\ stranded \in BOOLEAN
    /\ asks \in 0..MaxAsks
    /\ crashes \in 0..MaxCrashes

\* However often slots crash or lose the job and run on, SES gets the email once
\* for each time the job was queued, which is at most twice.
SendsBounded == sends <= 1 + requeued /\ requeued <= MaxStalled

\* Slots that may still hand the email to SES, whether or not they own the job, and
\* the run that a queued job will get.
ToSend == {k \in Workers : run[k] \in {"read", "limit", "send"}}
ToRun == IF job.state \in {"delayed", "waiting"} THEN 1 ELSE 0

\* Its inductive form, and that of CancelHolds: no mail without a run, no run
\* without a place in the queue, and only the sender adds the job, once.
RunsAreCounted ==
    /\ sends + Cardinality(ToSend) + ToRun <= 1 + requeued
    /\ requeued <= MaxStalled
    /\ job.state # "none" => requeued = job.stalls
    /\ sender \in {"start", "queue", "bulk"} => ~added
    /\ ~added => sends = 0 /\ ToSend = {} /\ requeued = 0 /\ ~revoked
    /\ revoked => sends = 0 /\ ToSend = {} /\ job.state = "none"

\* A cancellation that removed the job before any slot took it holds: the email
\* is never sent.
CancelHolds == revoked => sends = 0

\* An email is not sent before the time its row shows, except by a job that an
\* update could not move (it throws) or is yet to move, or by one that two updates
\* moved in the other order than they wrote their times.
NotEarly ==
    [][sends' # sends =>
          at <= clock \/ missed \/ \E c \in Clients : client[c].pc = "delay"]_vars

\* An accepted email does not stay queued for ever: it is sent, or its status says
\* that it will not be, unless its job is lost to a failure the code leaves without
\* a status: queueBulk logs the error of addBulk, executeEmail returns without a
\* configuration set or throws before its try, the catch or the cancellation cannot
\* write, or the job stalls a second time.
AcceptedIsSettled ==
    sender = "ok" /\ status \in {"QUEUED", "SCHEDULED"}
        ~> sends > 0 \/ status \in {"FAILED", "CANCELLED"} \/ stranded

=============================================================================
