-------------------------- MODULE WebhookDispatch --------------------------
(***************************************************************************)
(* Delivery of webhook calls: service/webhook-service.ts (WebhookService,  *)
(* WebhookQueueService, processWebhookCall), jobs/webhook-cleanup-job.ts   *)
(* and the BullMQ queue webhook-dispatch as that code configures it.       *)
(*                                                                         *)
(* Three kinds of actors interleave between any two awaits:                *)
(*  - producers: tRPC and event handlers running emit, testWebhook,        *)
(*    retryCall or setWebhookStatus (variable prod);                       *)
(*  - worker slots, each running processWebhookCall for one job            *)
(*    (variable exec);                                                     *)
(*  - the environment: BullMQ, the lock TTL in Redis, crashes, the         *)
(*    retention job.                                                       *)
(* Payloads, signatures, response texts and times are left out.  A delayed *)
(* job (backoff) is a waiting one, since nothing bounds how soon the other *)
(* actors move.                                                            *)
(***************************************************************************)
EXTENDS Naturals, FiniteSets

CONSTANTS
    Webhooks,       \* webhook ids
    MaxCalls,       \* bound: webhook calls ever created
    Workers,        \* worker slots, over all processes
    Producers,      \* concurrent API / event handlers
    MaxAttempts,    \* WEBHOOK_MAX_ATTEMPTS, also the attempts of a job
    Threshold,      \* WEBHOOK_AUTO_DISABLE_THRESHOLD
    MaxRetries,     \* bound: uses of the dashboard's retry button on a call
    Mixes,          \* sets of what may happen in one behaviour, see mix
    Nobody          \* neither a worker nor a lock token of a live run

ASSUME NumbersAssumption ==
    /\ MaxCalls \in Nat
    /\ MaxAttempts \in Nat \ {0}
    /\ Threshold \in Nat \ {0}
    /\ MaxRetries \in Nat
ASSUME NobodyAssumption == Nobody \notin Workers /\ "free" \notin Workers /\ Nobody # "free"

VARIABLES
    mix,        \* of this behaviour: the errors "db", "redis", "crash" and "joblock", and
                \* "status" changes, "retry" by hand, "calls": more than one
    hook,       \* Webhook rows: status and consecutiveFailures
    call,       \* WebhookCall rows: status, webhookId and attempt
    job,        \* the BullMQ job whose jobId is the call's id
    lock,       \* redis key webhook:lock:<id>: the run whose token it holds
    exec,       \* the handler run of each worker slot
    prod,       \* the API or event handler run of each producer
    created,    \* calls created so far; ids grow in order of createdAt
    retries,    \* uses of retryCall so far, per call
    streak,     \* history: final failures since the last success or re-enable
    unlocked,   \* history: calls whose job lost its worker at least once
    unheard     \* history: calls whose DELIVERED or DISCARDED was written unheard

state == <<hook, call, job, lock, exec, prod, created, retries, streak, unlocked, unheard>>
vars == <<state, mix>>

Calls == 1..MaxCalls
MaxStalled == 1                 \* BullMQ's default maxStalledCount

WebhookStatus == {"ACTIVE", "PAUSED", "AUTO_DISABLED"}
CallStatus == {"PENDING", "IN_PROGRESS", "DELIVERED", "FAILED", "DISCARDED"}
NoRow == {"none", "deleted"}

Exists(w) == hook[w].status \in WebhookStatus
Stored(c) == call[c].status \in CallStatus

IdleRun == [pc |-> "idle"]
NoJob == [state |-> "none", made |-> 0, stalls |-> 0, owner |-> Nobody]

Init ==
    /\ mix \in Mixes
    /\ hook = [w \in Webhooks |-> [status |-> "none", failures |-> 0]]
    /\ call = [c \in Calls |-> [status |-> "none"]]
    /\ job = [c \in Calls |-> NoJob]
    /\ lock = [w \in Webhooks |-> "free"]
    /\ exec = [k \in Workers |-> IdleRun]
    /\ prod = [p \in Producers |-> IdleRun]
    /\ created = 0
    /\ retries = [c \in Calls |-> 0]
    /\ streak = [w \in Webhooks |-> 0]
    /\ unlocked = {}
    /\ unheard = {}

-----------------------------------------------------------------------------
(***************************************************************************)
(* The dashboard's operations on webhooks.                                 *)
(***************************************************************************)

\* createWebhook, once LimitService and the domain check let it through.
CreateWebhook(w) ==
    /\ hook[w].status = "none"
    /\ hook' = [hook EXCEPT ![w] = [status |-> "ACTIVE", failures |-> 0]]
    /\ UNCHANGED <<call, job, lock, exec, prod, created, retries, streak, unlocked, unheard>>

\* deleteWebhook: the foreign key cascades to the calls, not to their jobs.
DeleteWebhook(w) ==
    /\ Exists(w)
    /\ hook' = [hook EXCEPT ![w] = [status |-> "deleted", failures |-> 0]]
    /\ call' = [c \in Calls |-> IF Stored(c) /\ call[c].hook = w
                                THEN [status |-> "deleted"] ELSE call[c]]
    /\ UNCHANGED <<job, lock, exec, prod, created, retries, streak, unlocked, unheard>>

\* setWebhookStatus reads the row ...
SetStatusRead(p, w, s) ==
    /\ "status" \in mix /\ prod[p].pc = "idle"
    /\ Exists(w)
    /\ prod' = [prod EXCEPT ![p] = [pc |-> "status", hook |-> w, status |-> s,
                                    failures |-> hook[w].failures]]
    /\ UNCHANGED <<hook, call, job, lock, exec, created, retries, streak, unlocked, unheard>>

\* Mutant: the counter is written back even when the webhook is re-enabled.
SetStatusKeepsCount(p) ==
    /\ prod[p].pc = "status"
    /\ LET w == prod[p].hook IN
       IF Exists(w)
       THEN /\ hook' = [hook EXCEPT ![w] = [status |-> prod[p].status,
                                            failures |-> prod[p].failures]]
            /\ streak' = [streak EXCEPT ![w] = IF prod[p].status = "ACTIVE" THEN 0 ELSE @]
       ELSE UNCHANGED <<hook, streak>>
    /\ prod' = [prod EXCEPT ![p] = IdleRun]
    /\ UNCHANGED <<call, job, lock, exec, created, retries, unlocked, unheard>>

\* ... and writes the new status with the counter it read, or with 0.
SetStatusWrite(p) ==
    /\ prod[p].pc = "status"
    /\ LET w == prod[p].hook
           s == prod[p].status
           n == IF s = "ACTIVE" THEN 0 ELSE prod[p].failures
       IN IF Exists(w)
          THEN /\ hook' = [hook EXCEPT ![w] = [status |-> s, failures |-> n]]
               /\ streak' = [streak EXCEPT ![w] = IF s = "ACTIVE" THEN 0 ELSE @]
          ELSE UNCHANGED <<hook, streak>>
    /\ prod' = [prod EXCEPT ![p] = IdleRun]
    /\ UNCHANGED <<call, job, lock, exec, created, retries, unlocked, unheard>>

-----------------------------------------------------------------------------
(***************************************************************************)
(* Producers of calls: emit, testWebhook and retryCall.  The row is        *)
(* written first, the job is added by a second call.                       *)
(***************************************************************************)

\* The bound on n more calls.
MayCreate(n) == created + n <= MaxCalls /\ ("calls" \in mix \/ created + n <= 1)

\* emit: the ACTIVE webhooks subscribed to the event, whichever they are.
EmitRead(p) ==
    /\ prod[p].pc = "idle"
    /\ \E W \in SUBSET {w \in Webhooks : hook[w].status = "ACTIVE"} :
          /\ W # {}
          /\ MayCreate(Cardinality(W))
          /\ prod' = [prod EXCEPT ![p] = [pc |-> "create", hooks |-> W]]
    /\ UNCHANGED <<hook, call, job, lock, exec, created, retries, streak, unlocked, unheard>>

\* testWebhook takes one webhook, whatever its status.
TestWebhook(p, w) ==
    /\ prod[p].pc = "idle"
    /\ Exists(w)
    /\ MayCreate(1)
    /\ prod' = [prod EXCEPT ![p] = [pc |-> "create", hooks |-> {w}]]
    /\ UNCHANGED <<hook, call, job, lock, exec, created, retries, streak, unlocked, unheard>>

\* webhookCall.create; it violates the foreign key, and the handler throws,
\* when the webhook was deleted since it was read.
CreateCall(p, w) ==
    /\ prod[p].pc = "create"
    /\ w \in prod[p].hooks
    /\ \/ /\ Exists(w)
          /\ MayCreate(1)
          /\ created' = created + 1
          /\ call' = [call EXCEPT ![created + 1] = [status |-> "PENDING", hook |-> w,
                                                    attempt |-> 0]]
          /\ prod' = [prod EXCEPT ![p] = [pc |-> "enqueue", call |-> created + 1,
                                          hooks |-> prod[p].hooks \ {w}]]
       \/ /\ ~Exists(w)
          /\ prod' = [prod EXCEPT ![p] = IdleRun]
          /\ UNCHANGED <<call, created>>
    /\ UNCHANGED <<hook, job, lock, exec, retries, streak, unlocked, unheard>>

\* retryCall resets the call, whatever its status; a call that is gone makes it throw.
RetryCall(p, c) ==
    /\ "retry" \in mix /\ prod[p].pc = "idle"
    /\ Stored(c)
    /\ retries[c] < MaxRetries
    /\ retries' = [retries EXCEPT ![c] = @ + 1]
    /\ call' = [call EXCEPT ![c].status = "PENDING", ![c].attempt = 0]
    /\ prod' = [prod EXCEPT ![p] = [pc |-> "enqueue", call |-> c, hooks |-> {}]]
    /\ UNCHANGED <<hook, job, lock, exec, created, streak, unlocked, unheard>>

\* Mutant: the job is added without its jobId, so it runs again.
AddAnyway(c) == job' = [job EXCEPT ![c].state = "waiting"]

\* queue.add with jobId = callId: ignored when a job has that id, in whatever
\* state it is (a failed job stays for 30 days).
AddJob(c) == job' = IF job[c].state = "none"
                    THEN [job EXCEPT ![c].state = "waiting"] ELSE job

\* enqueueCall, after which emit goes on with its next webhook.
EnqueueCall(p) ==
    /\ prod[p].pc = "enqueue"
    /\ AddJob(prod[p].call)
    /\ prod' = [prod EXCEPT ![p] = IF prod[p].hooks = {} THEN IdleRun
                                   ELSE [pc |-> "create", hooks |-> prod[p].hooks]]
    /\ UNCHANGED <<hook, call, lock, exec, created, retries, streak, unlocked, unheard>>

\* The process dies, or a database or Redis call of the handler throws.
ProducerFails(p) ==
    /\ mix \cap {"crash", "db", "redis"} # {}
    /\ prod[p].pc # "idle"
    /\ prod' = [prod EXCEPT ![p] = IdleRun]
    /\ UNCHANGED <<hook, call, job, lock, exec, created, retries, streak, unlocked, unheard>>

-----------------------------------------------------------------------------
(***************************************************************************)
(* processWebhookCall, one await per action.                               *)
(***************************************************************************)

\* The run of slot k ends by returning or by throwing: BullMQ hears of it next.
Ends(k, outcome) == exec' = [exec EXCEPT ![k] = [pc |-> "finish", call |-> exec[k].call,
                                                 outcome |-> outcome]]
GoesTo(k, pc) == exec' = [exec EXCEPT ![k].pc = pc]
\* The try block ends: the lock is released before the outcome is reported.
Leaves(k, outcome) ==
    exec' = [exec EXCEPT ![k] = [pc |-> "release", call |-> exec[k].call,
                                 hook |-> exec[k].hook, outcome |-> outcome]]

\* BullMQ hands a waiting job to an idle slot.
Fetch(k, c) ==
    /\ exec[k].pc = "idle"
    /\ job[c].state = "waiting"
    /\ job' = [job EXCEPT ![c].state = "active", ![c].owner = k]
    /\ exec' = [exec EXCEPT ![k] = [pc |-> "read", call |-> c, attempt |-> job[c].made + 1]]
    /\ UNCHANGED <<hook, call, lock, prod, created, retries, streak, unlocked, unheard>>

\* The call and its webhook are read together; the status is checked on the copy.
ReadCall(k) ==
    /\ exec[k].pc = "read"
    /\ LET c == exec[k].call IN
       IF ~Stored(c) THEN Ends(k, "return")
       ELSE exec' = [exec EXCEPT ![k] =
                       [pc |-> IF hook[call[c].hook].status = "ACTIVE" THEN "mark" ELSE "discard",
                        call |-> c, hook |-> call[c].hook, attempt |-> exec[k].attempt]]
    /\ UNCHANGED <<hook, call, job, lock, prod, created, retries, streak, unlocked, unheard>>

\* An update of the call's row by slot k, which throws when the row is gone.
UpdateCall(k, status) ==
    /\ Stored(exec[k].call)
    /\ call' = [call EXCEPT ![exec[k].call].status = status,
                             ![exec[k].call].attempt = exec[k].attempt]
RowGone(k) == ~Stored(exec[k].call) /\ UNCHANGED call

DiscardCall(k) ==
    /\ exec[k].pc = "discard"
    /\ \/ UpdateCall(k, "DISCARDED") /\ Ends(k, "return")
       \/ RowGone(k) /\ Ends(k, "throw")
    /\ UNCHANGED <<hook, job, lock, prod, created, retries, streak, unlocked, unheard>>

MarkInProgress(k) ==
    /\ exec[k].pc = "mark"
    /\ \/ UpdateCall(k, "IN_PROGRESS") /\ GoesTo(k, "lock")
       \/ RowGone(k) /\ Ends(k, "throw")
    /\ UNCHANGED <<hook, job, lock, prod, created, retries, streak, unlocked, unheard>>

\* Mutant: SET without NX takes the lock from its holder.
TakeLock(k) ==
    /\ exec[k].pc = "lock"
    /\ lock' = [lock EXCEPT ![exec[k].hook] = k]
    /\ GoesTo(k, "post")
    /\ UNCHANGED <<hook, call, job, prod, created, retries, streak, unlocked, unheard>>

\* acquireLock: SET key token PX 15000 NX.
AcquireLock(k) ==
    /\ exec[k].pc = "lock"
    /\ LET w == exec[k].hook IN
       \/ /\ lock[w] = "free"
          /\ lock' = [lock EXCEPT ![w] = k]
          /\ GoesTo(k, "post")
       \/ /\ lock[w] # "free"
          /\ GoesTo(k, "busy")
          /\ UNCHANGED lock
    /\ UNCHANGED <<hook, call, job, prod, created, retries, streak, unlocked, unheard>>

\* Lock not acquired: the call is PENDING again and the throw uses up an attempt.
LockBusy(k) ==
    /\ exec[k].pc = "busy"
    /\ \/ Stored(exec[k].call) /\ call' = [call EXCEPT ![exec[k].call].status = "PENDING"]
       \/ RowGone(k)
    /\ Ends(k, "throw")
    /\ UNCHANGED <<hook, job, lock, prod, created, retries, streak, unlocked, unheard>>

\* postWebhook answers: a 2xx, or an error, another status or its 10 s timeout.
PostWebhook(k) ==
    /\ exec[k].pc = "post"
    /\ GoesTo(k, "delivered") \/ GoesTo(k, "failed")
    /\ UNCHANGED <<hook, call, job, lock, prod, created, retries, streak, unlocked, unheard>>

\* One transaction on the call and its webhook.
StoreDelivered(k) ==
    /\ UpdateCall(k, "DELIVERED")
    /\ hook' = [hook EXCEPT ![exec[k].hook].failures = 0]
    /\ streak' = [streak EXCEPT ![exec[k].hook] = 0]

\* It is inside the try: when it fails, the answered POST is handled as a failed one.
SaveDelivered(k) ==
    /\ exec[k].pc = "delivered"
    /\ \/ StoreDelivered(k) /\ Leaves(k, "return")
       \/ RowGone(k) /\ GoesTo(k, "failed") /\ UNCHANGED <<hook, streak>>
    /\ UNCHANGED <<job, lock, prod, created, retries, unlocked, unheard>>

\* Mutant: off by one.
IsLastButOne(k) == exec[k].attempt + 1 >= MaxAttempts

IsFinalAttempt(k) == exec[k].attempt >= MaxAttempts

\* The webhook's row after a failed attempt: only the final one counts, and it
\* may disable the webhook.
AfterFailure(row, final) ==
    LET n == IF final THEN row.failures + 1 ELSE row.failures
    IN [status |-> IF final /\ row.status = "ACTIVE" /\ n >= Threshold
                   THEN "AUTO_DISABLED" ELSE row.status,
        failures |-> n]

\* The transaction of the catch block.
StoreCount(k) ==
    LET w == exec[k].hook IN
    /\ Exists(w)
    /\ hook' = [hook EXCEPT ![w] = AfterFailure(@, IsFinalAttempt(k))]
    /\ streak' = [streak EXCEPT ![w] = IF IsFinalAttempt(k) THEN @ + 1 ELSE @]

\* run.outcome is what the handler will do: return when the webhook is AUTO_DISABLED
\* by now, whoever disabled it.
CountFailure(k) ==
    /\ exec[k].pc = "failed"
    /\ LET w == exec[k].hook
           row == AfterFailure(hook[w], IsFinalAttempt(k))
       IN \/ /\ StoreCount(k)
             /\ exec' = [exec EXCEPT ![k] =
                   [pc |-> "save", call |-> exec[k].call, hook |-> w,
                    attempt |-> exec[k].attempt,
                    outcome |-> IF row.status = "AUTO_DISABLED" THEN "return" ELSE "throw"]]
          \/ ~Exists(w) /\ Leaves(k, "throw") /\ UNCHANGED <<hook, streak>>
    /\ UNCHANGED <<call, job, lock, prod, created, retries, unlocked, unheard>>

StoreFailed(k) == UpdateCall(k, IF IsFinalAttempt(k) THEN "FAILED" ELSE "PENDING")
SaveFailed(k) ==
    /\ exec[k].pc = "save"
    /\ \/ StoreFailed(k) /\ Leaves(k, exec[k].outcome)
       \/ RowGone(k) /\ Leaves(k, "throw")
    /\ UNCHANGED <<hook, job, lock, prod, created, retries, streak, unlocked, unheard>>

\* finally: releaseLock deletes the key only if it holds this run's token.  An
\* error of it is swallowed and leaves the key to its TTL.
ReleaseLock(k) ==
    /\ exec[k].pc = "release"
    /\ LET w == exec[k].hook
           mine == lock[w] = k
       IN \/ lock' = IF mine THEN [lock EXCEPT ![w] = "free"] ELSE lock
          \/ /\ "redis" \in mix
             /\ lock' = IF mine THEN [lock EXCEPT ![w] = Nobody] ELSE lock
    /\ Ends(k, exec[k].outcome)
    /\ UNCHANGED <<hook, call, job, prod, created, retries, streak, unlocked, unheard>>

\* Mutant: attempts are not counted.
UncountedRun(j, outcome) ==
    IF outcome = "return" THEN NoJob ELSE [j EXCEPT !.owner = Nobody, !.state = "waiting"]

\* moveToFinished, refused when the slot no longer owns the job: a completed
\* job is removed, a failed one waits for its next attempt or stays as failed.
AfterRun(j, outcome) ==
    IF outcome = "return" THEN NoJob
    ELSE [j EXCEPT !.made = @ + 1, !.owner = Nobody,
                   !.state = IF j.made + 1 < MaxAttempts THEN "waiting" ELSE "failed"]

FinishJob(k) ==
    /\ exec[k].pc = "finish"
    /\ LET c == exec[k].call IN
       job' = IF job[c].state = "active" /\ job[c].owner = k
              THEN [job EXCEPT ![c] = AfterRun(@, exec[k].outcome)] ELSE job
    /\ exec' = [exec EXCEPT ![k] = IdleRun]
    /\ UNCHANGED <<hook, call, lock, prod, created, retries, streak, unlocked, unheard>>

-----------------------------------------------------------------------------
(***************************************************************************)
(* The environment.                                                        *)
(***************************************************************************)

\* A database call of the run throws: before the lock the handler throws, in
\* the try it goes to the catch, in the catch it goes to the finally.
DbFails(k) ==
    /\ "db" \in mix
    /\ \/ exec[k].pc \in {"read", "discard", "mark", "busy"} /\ Ends(k, "throw")
       \/ exec[k].pc = "delivered" /\ GoesTo(k, "failed")
       \/ exec[k].pc \in {"failed", "save"} /\ Leaves(k, "throw")
    /\ UNCHANGED <<hook, call, job, lock, prod, created, retries, streak, unlocked, unheard>>

\* Or a write is committed, its reply is lost, and the run goes on as if it had
\* failed.  (A LockBusy whose reply is lost throws as it does anyway.)
NotesUnheard(k) == unheard' = unheard \cup {exec[k].call}
ReplyLost(k) ==
    /\ "db" \in mix
    /\ \/ /\ exec[k].pc = "discard"
          /\ UpdateCall(k, "DISCARDED") /\ Ends(k, "throw")
          /\ NotesUnheard(k) /\ UNCHANGED <<hook, streak>>
       \/ /\ exec[k].pc = "mark"
          /\ UpdateCall(k, "IN_PROGRESS") /\ Ends(k, "throw")
          /\ UNCHANGED <<hook, streak, unheard>>
       \/ /\ exec[k].pc = "delivered"
          /\ StoreDelivered(k) /\ GoesTo(k, "failed")
          /\ NotesUnheard(k)
       \/ /\ exec[k].pc = "failed"
          /\ StoreCount(k) /\ Leaves(k, "throw")
          /\ UNCHANGED <<call, unheard>>
       \/ /\ exec[k].pc = "save"
          /\ StoreFailed(k) /\ Leaves(k, "throw")
          /\ UNCHANGED <<hook, streak, unheard>>
    /\ UNCHANGED <<job, lock, prod, created, retries, unlocked>>

\* acquireLock fails: outside the try, so the handler throws with the row IN_PROGRESS,
\* whether the key was set or not; or its SET, sent again after a reconnect, finds the
\* key that its first try set.
LockFails(k) ==
    /\ "redis" \in mix
    /\ exec[k].pc = "lock"
    /\ LET w == exec[k].hook IN
       \/ UNCHANGED lock /\ Ends(k, "throw")
       \/ /\ lock[w] = "free"
          /\ lock' = [lock EXCEPT ![w] = Nobody]
          /\ Ends(k, "throw") \/ GoesTo(k, "busy")
    /\ UNCHANGED <<hook, call, job, prod, created, retries, streak, unlocked, unheard>>

\* The TTL of the lock (15 s) runs out.  It never does while its run waits for
\* the POST, which is aborted after 10 s, with the timers of the process alive.
LockExpires(w) ==
    /\ lock[w] # "free"
    /\ ~\E k \in Workers : lock[w] = k /\ exec[k].pc = "post"
    /\ lock' = [lock EXCEPT ![w] = "free"]
    /\ UNCHANGED <<hook, call, job, exec, prod, created, retries, streak, unlocked, unheard>>

\* A job nobody renews is requeued by the stalled check, once; then it fails.
Disowned(c) == job[c].state = "active" /\ job[c].owner = Nobody
RecoverStalled(c) ==
    /\ Disowned(c)
    /\ job' = [job EXCEPT ![c].stalls = @ + 1,
                          ![c].state = IF job[c].stalls < MaxStalled THEN "waiting" ELSE "failed"]
    /\ UNCHANGED <<hook, call, lock, exec, prod, created, retries, streak, unlocked, unheard>>

Disown(k) ==
    LET c == exec[k].call
        owns == job[c].state = "active" /\ job[c].owner = k
    IN /\ job' = IF owns THEN [job EXCEPT ![c].owner = Nobody] ELSE job
       /\ unlocked' = IF owns THEN unlocked \cup {c} ELSE unlocked

\* The process of slot k dies; the lock key it holds stays until its TTL.
WorkerCrashes(k) ==
    /\ "crash" \in mix
    /\ exec[k].pc # "idle"
    /\ Disown(k)
    /\ lock' = [w \in Webhooks |-> IF lock[w] = k THEN Nobody ELSE lock[w]]
    /\ exec' = [exec EXCEPT ![k] = IdleRun]
    /\ UNCHANGED <<hook, call, prod, created, retries, streak, unheard>>

\* The slot fails to renew BullMQ's lock on its job, and its run goes on.
JobLockLost(k) ==
    /\ "joblock" \in mix
    /\ exec[k].pc # "idle"
    /\ job[exec[k].call].owner = k
    /\ Disown(k)
    /\ UNCHANGED <<hook, call, lock, exec, prod, created, retries, streak, unheard>>

\* removeOnFail.age: a failed job is dropped after 30 days.
FailedJobAges(c) ==
    /\ job[c].state = "failed"
    /\ job' = [job EXCEPT ![c] = NoJob]
    /\ UNCHANGED <<hook, call, lock, exec, prod, created, retries, streak, unlocked, unheard>>

BeingEnqueued(c) == \E p \in Producers : prod[p].pc = "enqueue" /\ prod[p].call = c

\* The cleanup job deletes calls older than 30 days: not one still being
\* enqueued by emit, but any other, queued and running ones included.
CleanupCalls(C) ==
    /\ C # {}
    /\ \A c \in C : Stored(c) /\ ~BeingEnqueued(c)
    /\ call' = [c \in Calls |-> IF c \in C THEN [status |-> "deleted"] ELSE call[c]]
    /\ UNCHANGED <<hook, job, lock, exec, prod, created, retries, streak, unlocked, unheard>>

-----------------------------------------------------------------------------
ProducerStep(p) ==
    \/ \E w \in Webhooks : CreateCall(p, w)
    \/ EnqueueCall(p)
    \/ SetStatusWrite(p)

WorkerStep(k) ==
    \/ ReadCall(k) \/ DiscardCall(k) \/ MarkInProgress(k)
    \/ AcquireLock(k) \/ LockBusy(k) \/ PostWebhook(k)
    \/ SaveDelivered(k) \/ CountFailure(k) \/ SaveFailed(k)
    \/ ReleaseLock(k) \/ FinishJob(k)

Slot(k) == WorkerStep(k) \/ \E c \in Calls : Fetch(k, c)

Request(p) ==
    \/ EmitRead(p)
    \/ \E w \in Webhooks : TestWebhook(p, w)
    \/ \E c \in Calls : RetryCall(p, c)
    \/ \E w \in Webhooks, s \in WebhookStatus : SetStatusRead(p, w, s)

Environment ==
    \/ \E w \in Webhooks : CreateWebhook(w) \/ DeleteWebhook(w) \/ LockExpires(w)
    \/ \E p \in Producers : ProducerFails(p)
    \/ \E k \in Workers : DbFails(k) \/ ReplyLost(k) \/ LockFails(k)
    \/ \E k \in Workers : WorkerCrashes(k) \/ JobLockLost(k)
    \/ \E c \in Calls : RecoverStalled(c) \/ FailedJobAges(c)
    \/ \E C \in SUBSET Calls : CleanupCalls(C)

Step ==
    \/ \E p \in Producers : Request(p) \/ ProducerStep(p)
    \/ \E k \in Workers : Slot(k)
    \/ Environment

Next == Step /\ UNCHANGED mix

Spec == Init /\ [][Next]_vars

\* A slot takes a job and goes on with it: Node schedules it, Redis and the database
\* answer.  BullMQ looks for stalled jobs and Redis ends a TTL.  Requests, producers
\* and faults are under no obligation.
Fairness ==
    /\ \A k \in Workers : WF_vars(Slot(k) /\ UNCHANGED mix)
    /\ \A c \in Calls : WF_vars(RecoverStalled(c) /\ UNCHANGED mix)
    /\ \A w \in Webhooks : WF_vars(LockExpires(w) /\ UNCHANGED mix)

FairSpec == Spec /\ Fairness

-----------------------------------------------------------------------------
(***************************************************************************)
(* Properties.                                                             *)
(***************************************************************************)

Run ==
    [pc : {"idle"}]
    \cup [pc : {"read"}, call : Calls, attempt : Nat]
    \cup [pc : {"discard", "mark", "lock", "busy", "post", "delivered", "failed"},
          call : Calls, hook : Webhooks, attempt : Nat]
    \cup [pc : {"save"}, call : Calls, hook : Webhooks, attempt : Nat,
          outcome : {"return", "throw"}]
    \cup [pc : {"release"}, call : Calls, hook : Webhooks, outcome : {"return", "throw"}]
    \cup [pc : {"finish"}, call : Calls, outcome : {"return", "throw"}]

Handler ==
    [pc : {"idle"}]
    \cup [pc : {"create"}, hooks : SUBSET Webhooks]
    \cup [pc : {"enqueue"}, call : Calls, hooks : SUBSET Webhooks]
    \cup [pc : {"status"}, hook : Webhooks, status : WebhookStatus, failures : Nat]

HookRow == [status : WebhookStatus \cup NoRow, failures : Nat]
Row == [status : NoRow] \cup [status : CallStatus, hook : Webhooks, attempt : Nat]
Job == [state : {"none", "waiting", "active", "failed"}, made : Nat, stalls : Nat,
        owner : Workers \cup {Nobody}]

\* The variables have their types: rows, jobs, runs and lock keys are well formed.
TypeOK ==
    /\ mix \in Mixes
    /\ hook \in [Webhooks -> HookRow]
    /\ call \in [Calls -> Row]
    /\ job \in [Calls -> Job]
    /\ lock \in [Webhooks -> Workers \cup {"free", Nobody}]
    /\ exec \in [Workers -> Run]
    /\ prod \in [Producers -> Handler]
    /\ created \in 0..MaxCalls
    /\ retries \in [Calls -> 0..MaxRetries]
    /\ streak \in [Webhooks -> Nat]
    /\ unlocked \in SUBSET Calls
    /\ unheard \in SUBSET Calls

Running(k, c) == exec[k].pc # "idle" /\ exec[k].call = c
Posting(k, w) == exec[k].pc = "post" /\ exec[k].hook = w

\* The per-webhook lock with its TTL, its token check and the shorter request
\* timeout keeps two POSTs to one webhook from ever overlapping, through worker
\* crashes, lost job locks and failed releases (acquireLock, releaseLock).
PostMutex == \A w \in Webhooks : \A k, l \in Workers : Posting(k, w) /\ Posting(l, w) => k = l

\* Its inductive form: a run holds the lock while it waits for its POST.
PosterHoldsLock == \A k \in Workers : exec[k].pc = "post" => lock[exec[k].hook] = k

\* An ACTIVE webhook counts exactly the calls that failed for good since its last
\* success or re-enable, although setWebhookStatus writes back a counter it read earlier,
\* and it is disabled as soon as they reach the threshold (processWebhookCall, catch).
\* An attempt that is not the last of its call is not counted.
ActiveCountExact ==
    \A w \in Webhooks : hook[w].status = "ACTIVE" =>
        hook[w].failures = streak[w] /\ streak[w] < Threshold

\* Its inductive form: a webhook not yet created has no failures either.
CountInv ==
    /\ ActiveCountExact
    /\ \A w \in Webhooks : hook[w].status = "none" => streak[w] = 0

\* A call has one live run at a time unless its job once lost its worker, although
\* retryCall and emit may add its job at any moment (jobId = callId).
OneRunPerCall ==
    \A c \in Calls \ unlocked : \A k, l \in Workers :
        Running(k, c) /\ Running(l, c) => k = l

\* Its inductive form: the run of a call owns the call's active job.
RunnerOwnsJob ==
    \A c \in Calls \ unlocked : \A k \in Workers :
        Running(k, c) => job[c].state = "active" /\ job[c].owner = k

\* A queued job is finished: removed or failed, after boundedly many attempts.
JobEnds == \A c \in Calls : job[c].state = "waiting" ~> job[c].state \in {"none", "failed"}

\* The rows of the calls, seen from outside, follow the status machine of
\* WebhookLifecycle, but for a call whose job lost its worker, that was retried by hand,
\* or whose DELIVERED or DISCARDED was committed and the reply lost: the catch block
\* writes over such a DELIVERED, and the job of such a DISCARDED call is run again.
\* No failing lock, counter or other write brings a final status back.
Lifecycle == INSTANCE WebhookLifecycle WITH
    status <- [c \in Calls |-> call[c].status],
    attempt <- [c \in Calls |-> IF Stored(c) THEN call[c].attempt ELSE 0],
    excused <- unlocked \cup unheard \cup {c \in Calls : retries[c] > 0},
    lossy <- {"db", "redis"} \cap mix # {}
ImplementsLifecycle == Lifecycle!Spec

\* "Webhook call queued for retry": once retryCall is done with a call, the call is
\* not PENDING with nothing but a failed job, which no worker takes.
RetryIsQueued ==
    \A c \in Calls : retries[c] > 0 /\ ~BeingEnqueued(c) /\ job[c].state = "failed"
        => call[c].status # "PENDING"

=============================================================================
