----------------------- MODULE WebhookDispatchProofs -----------------------
(***************************************************************************)
(* Theorems about WebhookDispatch, for every set of webhooks, slots and    *)
(* producers, every bound and every mix of faults.                         *)
(***************************************************************************)
EXTENDS WebhookDispatch, TLAPS

-----------------------------------------------------------------------------
(***************************************************************************)
(* Type correctness.  Each lemma takes the actions of one kind of actor.   *)
(***************************************************************************)

Trying == {"discard", "mark", "lock", "busy", "post", "delivered", "failed"}
Outcomes == {"return", "throw"}

\* What a run of processWebhookCall holds at each of its points.
LEMMA RunFields ==
    ASSUME NEW r \in Run
    PROVE  /\ r.pc # "idle" => r.call \in Calls
           /\ r.pc \in Trying \cup {"read", "save"} => r.attempt \in Nat
           /\ r.pc \in Trying \cup {"save", "release"} => r.hook \in Webhooks
           /\ r.pc \in {"save", "release", "finish"} => r.outcome \in Outcomes
BY DEF Run, Trying, Outcomes

\* The runs the actions build are runs.
LEMMA RunShapes ==
    ASSUME NEW c \in Calls, NEW w \in Webhooks, NEW n \in Nat, NEW o \in Outcomes,
           NEW t \in Trying
    PROVE  /\ IdleRun \in Run
           /\ [pc |-> "read", call |-> c, attempt |-> n] \in Run
           /\ [pc |-> t, call |-> c, hook |-> w, attempt |-> n] \in Run
           /\ [pc |-> "save", call |-> c, hook |-> w, attempt |-> n, outcome |-> o] \in Run
           /\ [pc |-> "release", call |-> c, hook |-> w, outcome |-> o] \in Run
           /\ [pc |-> "finish", call |-> c, outcome |-> o] \in Run
BY DEF Run, Trying, Outcomes, IdleRun

\* Within the attempt only the point reached changes.
LEMMA RunMoves ==
    ASSUME NEW r \in Run, r.pc \in Trying, NEW t \in Trying
    PROVE  [r EXCEPT !.pc = t] \in Run
<1>1. r \in [pc : Trying, call : Calls, hook : Webhooks, attempt : Nat]
  BY DEF Run, Trying
<1>2. [r EXCEPT !.pc = t] \in [pc : Trying, call : Calls, hook : Webhooks, attempt : Nat]
  BY <1>1
<1> QED BY <1>2 DEF Run, Trying

\* An update of a stored row leaves a row.
LEMMA RowUpdates ==
    ASSUME NEW r \in Row, r.status \in CallStatus, NEW s \in CallStatus, NEW n \in Nat
    PROVE  /\ [r EXCEPT !.status = s] \in Row
           /\ [r EXCEPT !.status = s, !.attempt = n] \in Row
           /\ r.hook \in Webhooks
<1>1. r \in [status : CallStatus, hook : Webhooks, attempt : Nat]
  BY DEF Row, NoRow, CallStatus
<1> QED BY <1>1 DEF Row

\* A job stays a job when an attempt of it fails and when it is found stalled.
LEMMA JobUpdates ==
    ASSUME NEW j \in Job, NEW s \in {"waiting", "failed"}
    PROVE  /\ [j EXCEPT !.made = @ + 1, !.owner = Nobody, !.state = s] \in Job
           /\ [j EXCEPT !.stalls = @ + 1, !.state = s] \in Job
<1>1. j.made + 1 \in Nat /\ j.stalls + 1 \in Nat
  BY DEF Job
<1> DEFINE m == j.made + 1
           n == j.stalls + 1
<1>2. m \in Nat /\ n \in Nat
  BY <1>1
<1> HIDE DEF m, n
<1>3. /\ [j EXCEPT !.made = m, !.owner = Nobody, !.state = s] \in Job
      /\ [j EXCEPT !.stalls = n, !.state = s] \in Job
  BY <1>2 DEF Job
<1> QED BY <1>3 DEF m, n

LEMMA GoesToRun ==
    ASSUME exec \in [Workers -> Run], NEW k \in Workers, exec[k].pc \in Trying,
           NEW t \in Trying, GoesTo(k, t)
    PROVE  exec' \in [Workers -> Run]
<1>1. exec' = [exec EXCEPT ![k] = [exec[k] EXCEPT !.pc = t]]
  BY DEF GoesTo
<1>2. [exec[k] EXCEPT !.pc = t] \in Run
  BY RunMoves
<1> QED BY <1>1, <1>2

LEMMA EndsRun ==
    ASSUME exec \in [Workers -> Run], NEW k \in Workers, exec[k].pc # "idle",
           NEW o \in Outcomes, Ends(k, o)
    PROVE  exec' \in [Workers -> Run]
<1>1. [pc |-> "finish", call |-> exec[k].call, outcome |-> o] \in Run
  BY RunFields DEF Run, Outcomes
<1> QED BY <1>1 DEF Ends

LEMMA LeavesRun ==
    ASSUME exec \in [Workers -> Run], NEW k \in Workers, exec[k].pc \in Trying \cup {"save"},
           NEW o \in Outcomes, Leaves(k, o)
    PROVE  exec' \in [Workers -> Run]
<1>1. exec[k].call \in Calls /\ exec[k].hook \in Webhooks
  BY RunFields DEF Trying
<1>2. [pc |-> "release", call |-> exec[k].call, hook |-> exec[k].hook, outcome |-> o] \in Run
  BY <1>1 DEF Run, Outcomes
<1> QED BY <1>2 DEF Leaves

LEMMA UpdateRow ==
    ASSUME call \in [Calls -> Row], exec \in [Workers -> Run], NEW k \in Workers,
           exec[k].pc \in Trying \cup {"save"}, NEW s \in CallStatus, UpdateCall(k, s)
    PROVE  call' \in [Calls -> Row]
<1> DEFINE c == exec[k].call
           n == exec[k].attempt
<1>1. c \in Calls /\ n \in Nat
  BY RunFields DEF Trying
<1>2. [call[c] EXCEPT !.status = s, !.attempt = n] \in Row
  BY <1>1, RowUpdates DEF UpdateCall, Stored
<1>3. call' = [call EXCEPT ![c] = [call[c] EXCEPT !.status = s, !.attempt = n]]
  BY DEF UpdateCall
<1> QED BY <1>1, <1>2, <1>3

\* The transactions on the call's webhook leave rows and counters.
LEMMA StoresType ==
    ASSUME hook \in [Webhooks -> HookRow], streak \in [Webhooks -> Nat],
           exec \in [Workers -> Run], NEW k \in Workers, exec[k].pc \in Trying,
           StoreDelivered(k) \/ StoreCount(k) \/ UNCHANGED <<hook, streak>>
    PROVE  hook' \in [Webhooks -> HookRow] /\ streak' \in [Webhooks -> Nat]
<1> DEFINE w == exec[k].hook
<1>1. w \in Webhooks
  BY RunFields
<1>2. CASE StoreDelivered(k)
  <2>1. [hook[w] EXCEPT !.failures = 0] \in HookRow
    BY <1>1 DEF HookRow
  <2> QED BY <1>1, <1>2, <2>1 DEF StoreDelivered
<1>3. CASE StoreCount(k)
  <2>1. AfterFailure(hook[w], IsFinalAttempt(k)) \in HookRow
    BY <1>1 DEF AfterFailure, HookRow, WebhookStatus
  <2> QED BY <1>1, <1>3, <2>1 DEF StoreCount
<1> QED BY <1>2, <1>3

\* The rows, jobs, keys and handler runs of the initial state are well formed.
LEMMA InitType == Init => TypeOK
BY NumbersAssumption DEF Init, TypeOK, NoJob, IdleRun, Run, Handler, NoRow, HookRow, Row, Job

LEMMA ProducerType ==
    ASSUME TypeOK, NEW p \in Producers, Request(p) \/ ProducerStep(p), UNCHANGED mix
    PROVE  TypeOK'
<1> USE DEF TypeOK
<1>1. ASSUME EmitRead(p) PROVE TypeOK'
  <2>1. PICK W \in SUBSET Webhooks : prod' = [prod EXCEPT ![p] = [pc |-> "create", hooks |-> W]]
    BY <1>1 DEF EmitRead
  <2> QED BY <1>1, <2>1 DEF EmitRead, Handler
<1>2. ASSUME NEW w \in Webhooks, TestWebhook(p, w) PROVE TypeOK'
  BY <1>2 DEF TestWebhook, Handler
<1>3. ASSUME NEW c \in Calls, RetryCall(p, c) PROVE TypeOK'
  <2>1. [call[c] EXCEPT !.status = "PENDING", !.attempt = 0] \in Row
    BY <1>3, RowUpdates DEF RetryCall, Stored, CallStatus
  <2>2. call' \in [Calls -> Row]
    BY <1>3, <2>1 DEF RetryCall
  <2>3. prod' \in [Producers -> Handler]
    BY <1>3 DEF RetryCall, Handler
  <2>4. retries' \in [Calls -> 0..MaxRetries]
    BY <1>3, NumbersAssumption DEF RetryCall
  <2> QED BY <1>3, <2>2, <2>3, <2>4 DEF RetryCall
<1>4. ASSUME NEW w \in Webhooks, NEW s \in WebhookStatus, SetStatusRead(p, w, s) PROVE TypeOK'
  BY <1>4 DEF SetStatusRead, Handler, HookRow
<1>5. ASSUME NEW w \in Webhooks, CreateCall(p, w) PROVE TypeOK'
  <2>1. CASE Exists(w) /\ MayCreate(1)
    <3>1. created + 1 \in Calls /\ created + 1 \in 0..MaxCalls
      BY <2>1, NumbersAssumption DEF Calls, MayCreate
    <3>2. [status |-> "PENDING", hook |-> w, attempt |-> 0] \in Row
      BY DEF Row, CallStatus
    <3>3. prod[p].hooks \ {w} \in SUBSET Webhooks
      BY <1>5 DEF CreateCall, Handler
    <3>4. [pc |-> "enqueue", call |-> created + 1, hooks |-> prod[p].hooks \ {w}] \in Handler
      BY <3>1, <3>3 DEF Handler
    <3> QED BY <1>5, <2>1, <3>1, <3>2, <3>4 DEF CreateCall, Handler, IdleRun
  <2>2. CASE ~Exists(w)
    BY <1>5, <2>2 DEF CreateCall, Handler, IdleRun
  <2> QED BY <1>5, <2>1, <2>2 DEF CreateCall
<1>6. ASSUME EnqueueCall(p) PROVE TypeOK'
  <2>1. prod[p].call \in Calls /\ prod[p].hooks \in SUBSET Webhooks
    BY <1>6 DEF EnqueueCall, Handler
  <2>2. job' \in [Calls -> Job]
    BY <1>6, <2>1 DEF EnqueueCall, AddJob, Job
  <2>3. prod' \in [Producers -> Handler]
    BY <1>6, <2>1 DEF EnqueueCall, Handler, IdleRun
  <2> QED BY <1>6, <2>2, <2>3 DEF EnqueueCall
<1>7. ASSUME SetStatusWrite(p) PROVE TypeOK'
  <2>1. /\ prod[p].hook \in Webhooks
        /\ prod[p].status \in WebhookStatus
        /\ prod[p].failures \in Nat
    BY <1>7 DEF SetStatusWrite, Handler
  <2>2. \A n \in Nat : [status |-> prod[p].status, failures |-> n] \in HookRow
    BY <2>1 DEF HookRow
  <2>3. hook' \in [Webhooks -> HookRow] /\ streak' \in [Webhooks -> Nat]
    BY <1>7, <2>1, <2>2 DEF SetStatusWrite
  <2>4. prod' \in [Producers -> Handler]
    BY <1>7 DEF SetStatusWrite, Handler, IdleRun
  <2> QED BY <1>7, <2>3, <2>4 DEF SetStatusWrite
<1> QED BY <1>1, <1>2, <1>3, <1>4, <1>5, <1>6, <1>7 DEF Request, ProducerStep

LEMMA WorkerType ==
    ASSUME TypeOK, NEW k \in Workers, WorkerStep(k), UNCHANGED mix
    PROVE  TypeOK'
<1> USE DEF TypeOK
<1>0. exec[k] \in Run
  OBVIOUS
<1>1. ASSUME ReadCall(k) PROVE TypeOK'
  <2>1. exec[k].call \in Calls /\ exec[k].attempt \in Nat
    BY <1>0, <1>1, RunFields DEF ReadCall
  <2>2. CASE Stored(exec[k].call)
    <3>1. call[exec[k].call].hook \in Webhooks
      BY <2>1, <2>2, RowUpdates DEF Stored
    <3>2. \A t \in {"mark", "discard"} :
            [pc |-> t, call |-> exec[k].call, hook |-> call[exec[k].call].hook,
             attempt |-> exec[k].attempt] \in Run
      BY <2>1, <3>1 DEF Run
    <3> QED BY <1>1, <2>2, <3>2 DEF ReadCall
  <2>3. CASE ~Stored(exec[k].call)
    BY <1>1, <2>3, EndsRun DEF ReadCall, Outcomes
  <2> QED BY <2>2, <2>3
<1>2. ASSUME DiscardCall(k) PROVE TypeOK'
  BY <1>2, EndsRun, UpdateRow DEF DiscardCall, RowGone, Outcomes, Trying, CallStatus
<1>3. ASSUME MarkInProgress(k) PROVE TypeOK'
  BY <1>3, EndsRun, GoesToRun, UpdateRow DEF MarkInProgress, RowGone, Outcomes, Trying, CallStatus
<1>4. ASSUME AcquireLock(k) PROVE TypeOK'
  BY <1>4, GoesToRun DEF AcquireLock, Trying
<1>5. ASSUME LockBusy(k) PROVE TypeOK'
  <2>1. call' \in [Calls -> Row]
    <3>1. CASE RowGone(k)
      BY <3>1 DEF RowGone
    <3>2. CASE Stored(exec[k].call)
               /\ call' = [call EXCEPT ![exec[k].call].status = "PENDING"]
      <4>1. exec[k].call \in Calls
        BY <1>5, RunFields DEF LockBusy
      <4>2. [call[exec[k].call] EXCEPT !.status = "PENDING"] \in Row
        BY <3>2, <4>1, RowUpdates DEF Stored, CallStatus
      <4> QED BY <3>2, <4>1, <4>2
    <3> QED BY <1>5, <3>1, <3>2 DEF LockBusy
  <2>2. exec' \in [Workers -> Run]
    BY <1>5, EndsRun DEF LockBusy, Outcomes
  <2> QED BY <1>5, <2>1, <2>2 DEF LockBusy
<1>6. ASSUME PostWebhook(k) PROVE TypeOK'
  BY <1>6, GoesToRun DEF PostWebhook, Trying
<1>7. ASSUME SaveDelivered(k) PROVE TypeOK'
  <2>1. hook' \in [Webhooks -> HookRow] /\ streak' \in [Webhooks -> Nat]
    BY <1>7, StoresType DEF SaveDelivered, Trying
  <2>2. call' \in [Calls -> Row]
    BY <1>7, UpdateRow DEF SaveDelivered, StoreDelivered, RowGone, Trying, CallStatus
  <2>3. exec' \in [Workers -> Run]
    BY <1>7, LeavesRun, GoesToRun DEF SaveDelivered, Trying, Outcomes
  <2> QED BY <1>7, <2>1, <2>2, <2>3 DEF SaveDelivered
<1>8. ASSUME CountFailure(k) PROVE TypeOK'
  <2> DEFINE w == exec[k].hook
             row == AfterFailure(hook[w], IsFinalAttempt(k))
  <2>1. w \in Webhooks /\ exec[k].call \in Calls /\ exec[k].attempt \in Nat
    BY <1>8, RunFields DEF CountFailure, Trying
  <2>2. hook' \in [Webhooks -> HookRow] /\ streak' \in [Webhooks -> Nat]
    BY <1>8, StoresType DEF CountFailure, Trying
  <2>3. \A o \in Outcomes : [pc |-> "save", call |-> exec[k].call, hook |-> w,
                              attempt |-> exec[k].attempt, outcome |-> o] \in Run
    BY <2>1 DEF Run, Outcomes
  <2>4. exec' \in [Workers -> Run]
    BY <1>8, <2>3, LeavesRun DEF CountFailure, Trying, Outcomes
  <2> QED BY <1>8, <2>2, <2>4 DEF CountFailure
<1>9. ASSUME SaveFailed(k) PROVE TypeOK'
  <2>1. exec[k].outcome \in Outcomes
    BY <1>9, RunFields DEF SaveFailed
  <2>2. call' \in [Calls -> Row]
    BY <1>9, UpdateRow DEF SaveFailed, StoreFailed, RowGone, CallStatus
  <2>3. exec' \in [Workers -> Run]
    BY <1>9, <2>1, LeavesRun DEF SaveFailed, Outcomes
  <2> QED BY <1>9, <2>2, <2>3 DEF SaveFailed
<1>10. ASSUME ReleaseLock(k) PROVE TypeOK'
  <2>1. exec[k].outcome \in Outcomes
    BY <1>10, RunFields DEF ReleaseLock
  <2>2. exec' \in [Workers -> Run]
    BY <1>10, <2>1, EndsRun DEF ReleaseLock
  <2> QED BY <1>10, <2>2 DEF ReleaseLock
<1>11. ASSUME FinishJob(k) PROVE TypeOK'
  <2>1. exec' \in [Workers -> Run]
    BY <1>11 DEF FinishJob, IdleRun, Run
  <2>2. ASSUME NEW c \in Calls, NEW o \in Outcomes PROVE AfterRun(job[c], o) \in Job
    <3>1. /\ job[c] \in Job
          /\ NoJob \in Job
      BY DEF NoJob, Job
    <3>2. \A s \in {"waiting", "failed"} :
            [job[c] EXCEPT !.made = @ + 1, !.owner = Nobody, !.state = s] \in Job
      BY <3>1, JobUpdates
    <3> QED BY <3>1, <3>2 DEF AfterRun
  <2>3. exec[k].call \in Calls /\ exec[k].outcome \in Outcomes
    BY <1>11, RunFields DEF FinishJob
  <2>4. job' \in [Calls -> Job]
    BY <1>11, <2>2, <2>3 DEF FinishJob
  <2> QED BY <1>11, <2>1, <2>4 DEF FinishJob
<1> QED BY <1>1, <1>2, <1>3, <1>4, <1>5, <1>6, <1>7, <1>8, <1>9, <1>10, <1>11 DEF WorkerStep

LEMMA EnvironmentType ==
    ASSUME TypeOK, Environment, UNCHANGED mix
    PROVE  TypeOK'
<1> USE DEF TypeOK
<1>1. ASSUME NEW w \in Webhooks, CreateWebhook(w) PROVE TypeOK'
  BY <1>1 DEF CreateWebhook, HookRow, WebhookStatus
<1>2. ASSUME NEW w \in Webhooks, DeleteWebhook(w) PROVE TypeOK'
  BY <1>2 DEF DeleteWebhook, HookRow, Row, NoRow
<1>3. ASSUME NEW w \in Webhooks, LockExpires(w) PROVE TypeOK'
  BY <1>3 DEF LockExpires
<1>4. ASSUME NEW p \in Producers, ProducerFails(p) PROVE TypeOK'
  BY <1>4 DEF ProducerFails, Handler, IdleRun
<1>5. ASSUME NEW k \in Workers, DbFails(k) PROVE TypeOK'
  BY <1>5, EndsRun, GoesToRun, LeavesRun DEF DbFails, Trying, Outcomes
<1>12. ASSUME NEW k \in Workers, LockFails(k) PROVE TypeOK'
  BY <1>12, EndsRun, GoesToRun DEF LockFails, Trying, Outcomes
<1>13. ASSUME NEW k \in Workers, ReplyLost(k) PROVE TypeOK'
  <2>1. exec[k].pc \in Trying \cup {"save"} /\ exec[k].call \in Calls
    BY <1>13, RunFields DEF ReplyLost, Trying
  <2>2. call' \in [Calls -> Row]
    BY <1>13, <2>1, UpdateRow DEF ReplyLost, StoreDelivered, StoreFailed, CallStatus
  <2>3. exec' \in [Workers -> Run]
    BY <1>13, <2>1, EndsRun, GoesToRun, LeavesRun DEF ReplyLost, Trying, Outcomes
  <2>4. hook' \in [Webhooks -> HookRow] /\ streak' \in [Webhooks -> Nat]
    BY <1>13, <2>1, StoresType DEF ReplyLost, Trying
  <2>5. unheard' \in SUBSET Calls
    BY <1>13, <2>1 DEF ReplyLost, NotesUnheard
  <2> QED BY <1>13, <2>2, <2>3, <2>4, <2>5 DEF ReplyLost
<1>6. ASSUME NEW k \in Workers, Disown(k), exec[k].pc # "idle"
      PROVE  job' \in [Calls -> Job] /\ unlocked' \in SUBSET Calls
  <2>1. exec[k].call \in Calls
    BY <1>6, RunFields
  <2> QED BY <1>6, <2>1 DEF Disown, Job
<1>7. ASSUME NEW k \in Workers, WorkerCrashes(k) PROVE TypeOK'
  <2>1. exec' \in [Workers -> Run]
    BY <1>7 DEF WorkerCrashes, IdleRun, Run
  <2> QED BY <1>6, <1>7, <2>1 DEF WorkerCrashes
<1>8. ASSUME NEW k \in Workers, JobLockLost(k) PROVE TypeOK'
  BY <1>6, <1>8 DEF JobLockLost
<1>9. ASSUME NEW c \in Calls, RecoverStalled(c) PROVE TypeOK'
  <2>1. \A s \in {"waiting", "failed"} : [job[c] EXCEPT !.stalls = @ + 1, !.state = s] \in Job
    BY JobUpdates
  <2> QED BY <1>9, <2>1 DEF RecoverStalled
<1>10. ASSUME NEW c \in Calls, FailedJobAges(c) PROVE TypeOK'
  BY <1>10 DEF FailedJobAges, NoJob, Job
<1>11. ASSUME NEW C \in SUBSET Calls, CleanupCalls(C) PROVE TypeOK'
  BY <1>11 DEF CleanupCalls, Row, NoRow
<1> QED BY <1>1, <1>2, <1>3, <1>4, <1>5, <1>7, <1>8, <1>9, <1>10, <1>11, <1>12, <1>13 DEF Environment

LEMMA FetchType ==
    ASSUME TypeOK, NEW k \in Workers, NEW c \in Calls, Fetch(k, c), UNCHANGED mix
    PROVE  TypeOK'
<1>1. job[c] \in Job
  BY DEF TypeOK
<1>2. [job[c] EXCEPT !.state = "active", !.owner = k] \in Job
  BY <1>1 DEF Job
<1>3. [pc |-> "read", call |-> c, attempt |-> job[c].made + 1] \in Run
  BY <1>1 DEF Run, Job
<1> QED BY <1>2, <1>3 DEF Fetch, TypeOK

LEMMA NextType == TypeOK /\ [Next]_vars => TypeOK'
<1> SUFFICES ASSUME TypeOK, [Next]_vars PROVE TypeOK'
  OBVIOUS
<1>1. CASE Next
  BY <1>1, ProducerType, WorkerType, FetchType, EnvironmentType DEF Next, Step, Slot
<1>2. CASE UNCHANGED vars
  BY <1>2 DEF vars, state, TypeOK
<1> QED BY <1>1, <1>2

\* Every reachable state is well formed, whatever fails.
THEOREM TypeCorrect == Spec => []TypeOK
<1> QED BY InitType, NextType, PTL DEF Spec

-----------------------------------------------------------------------------
(***************************************************************************)
(* Two POSTs to one webhook never overlap.  The lock's holder is the run   *)
(* that posts: only it releases the key (the token check), the TTL does    *)
(* not run out under a POST, and a crash ends the run with the key left.   *)
(***************************************************************************)

\* Where a step takes the run of slot k; the other runs stay where they are.
LEMMA Points ==
    ASSUME exec \in [Workers -> Run], NEW k \in Workers
    PROVE  /\ \A t : GoesTo(k, t) => exec'[k].pc = t
           /\ \A o : Ends(k, o) => exec'[k].pc = "finish"
           /\ \A o : Leaves(k, o) => exec'[k].pc = "release"
           /\ \A x : GoesTo(k, x) \/ Ends(k, x) \/ Leaves(k, x)
                => \A l \in Workers \ {k} : exec'[l] = exec[l]
<1>1. ASSUME NEW t, GoesTo(k, t) PROVE exec'[k].pc = t
  BY <1>1 DEF GoesTo, Run
<1>2. ASSUME NEW o, Ends(k, o) PROVE exec'[k].pc = "finish"
  BY <1>2 DEF Ends
<1>3. ASSUME NEW o, Leaves(k, o) PROVE exec'[k].pc = "release"
  BY <1>3 DEF Leaves
<1>4. ASSUME NEW x, GoesTo(k, x) \/ Ends(k, x) \/ Leaves(k, x), NEW l \in Workers \ {k}
      PROVE exec'[l] = exec[l]
  BY <1>4 DEF GoesTo, Ends, Leaves
<1> QED BY <1>1, <1>2, <1>3, <1>4

LEMMA LockSteps ==
    ASSUME TypeOK, PosterHoldsLock, [Next]_vars
    PROVE  PosterHoldsLock'
<1> USE DEF PosterHoldsLock
<1>1. ASSUME UNCHANGED <<exec, lock>> PROVE PosterHoldsLock'
  BY <1>1
\* A step of one slot that leaves the locks alone and does not reach the POST.
<1>2. ASSUME NEW k \in Workers, UNCHANGED lock, exec'[k].pc # "post",
             \A l \in Workers \ {k} : exec'[l] = exec[l]
      PROVE  PosterHoldsLock'
  BY <1>2
<1>3. ASSUME NEW p \in Producers, Request(p) \/ ProducerStep(p) PROVE PosterHoldsLock'
  <2>1. UNCHANGED <<exec, lock>>
    BY <1>3 DEF Request, ProducerStep, EmitRead, TestWebhook, RetryCall, SetStatusRead,
                CreateCall, EnqueueCall, SetStatusWrite
  <2> QED BY <2>1, <1>1
<1>4. ASSUME NEW k \in Workers, WorkerStep(k) PROVE PosterHoldsLock'
  <2>0. exec[k] \in Run /\ exec \in [Workers -> Run] /\ lock \in [Webhooks -> Workers \cup {"free", Nobody}]
    BY DEF TypeOK
  <2>1. CASE AcquireLock(k)
    <3>1. exec[k].hook \in Webhooks
      BY <2>0, <2>1, RunFields DEF AcquireLock, Trying
    <3>2. CASE lock[exec[k].hook] = "free"
      <4>1. /\ lock' = [lock EXCEPT ![exec[k].hook] = k]
            /\ exec' = [exec EXCEPT ![k].pc = "post"]
        BY <2>1, <3>2 DEF AcquireLock, GoesTo
      <4>2. exec'[k].hook = exec[k].hook
        BY <2>0, <2>1, <4>1 DEF AcquireLock, Run
      <4>3. \A l \in Workers \ {k} : exec'[l] = exec[l]
        BY <2>0, <4>1
      <4>4. \A l \in Workers \ {k} : exec[l].pc = "post" => exec[l].hook # exec[k].hook
        BY <3>2, NobodyAssumption
      <4> QED BY <2>0, <3>1, <4>1, <4>2, <4>3, <4>4
    <3>3. CASE lock[exec[k].hook] # "free"
      BY <2>0, <2>1, <3>3, <1>2, Points DEF AcquireLock
    <3> QED BY <3>2, <3>3
  <2>2. CASE ReleaseLock(k)
    <3>1. exec[k].hook \in Webhooks
      BY <2>0, <2>2, RunFields DEF ReleaseLock
    <3>2. /\ exec'[k].pc = "finish"
          /\ \A l \in Workers \ {k} : exec'[l] = exec[l]
      BY <2>0, <2>2 DEF ReleaseLock, Ends
    <3>3. \A l \in Workers \ {k}, w \in Webhooks : lock[w] = l => lock'[w] = l
      BY <2>0, <2>2, <3>1 DEF ReleaseLock
    <3>4. \A l \in Workers : exec[l].pc = "post" => exec[l].hook \in Webhooks
      BY <2>0, RunFields DEF Trying
    <3> QED BY <3>2, <3>3, <3>4
  <2>3. CASE ReadCall(k)
    <3>1. exec'[k].pc # "post" /\ \A l \in Workers \ {k} : exec'[l] = exec[l]
      BY <2>0, <2>3, Points DEF ReadCall
    <3> QED BY <2>3, <3>1, <1>2 DEF ReadCall
  <2>4. CASE DiscardCall(k) \/ MarkInProgress(k) \/ LockBusy(k) \/ PostWebhook(k)
             \/ SaveDelivered(k) \/ SaveFailed(k)
    <3>1. exec'[k].pc # "post" /\ \A l \in Workers \ {k} : exec'[l] = exec[l]
      BY <2>0, <2>4, Points
         DEF DiscardCall, MarkInProgress, LockBusy, PostWebhook, SaveDelivered, SaveFailed
    <3>2. UNCHANGED lock
      BY <2>4 DEF DiscardCall, MarkInProgress, LockBusy, PostWebhook, SaveDelivered, SaveFailed
    <3> QED BY <3>1, <3>2, <1>2
  <2>6. CASE CountFailure(k)
    <3>1. exec'[k].pc # "post" /\ \A l \in Workers \ {k} : exec'[l] = exec[l]
      BY <2>0, <2>6, Points DEF CountFailure
    <3> QED BY <2>6, <3>1, <1>2 DEF CountFailure
  <2>5. CASE FinishJob(k)
    BY <2>0, <2>5, <1>2 DEF FinishJob, IdleRun
  <2> QED BY <1>4, <2>1, <2>2, <2>3, <2>4, <2>5, <2>6 DEF WorkerStep
<1>5. ASSUME NEW k \in Workers, NEW c \in Calls, Fetch(k, c) PROVE PosterHoldsLock'
  BY <1>5, <1>2 DEF Fetch, TypeOK
<1>6. ASSUME Environment PROVE PosterHoldsLock'
  <2>1. ASSUME NEW w \in Webhooks, LockExpires(w) PROVE PosterHoldsLock'
    BY <2>1 DEF LockExpires, TypeOK
  <2>2. ASSUME NEW k \in Workers, DbFails(k) PROVE PosterHoldsLock'
    <3>1. exec'[k].pc # "post" /\ \A l \in Workers \ {k} : exec'[l] = exec[l]
      BY <2>2, Points DEF DbFails, TypeOK
    <3> QED BY <2>2, <3>1, <1>2 DEF DbFails
  <2>9. ASSUME NEW k \in Workers, ReplyLost(k) PROVE PosterHoldsLock'
    <3>1. exec'[k].pc # "post" /\ \A l \in Workers \ {k} : exec'[l] = exec[l]
      BY <2>9, Points DEF ReplyLost, TypeOK
    <3> QED BY <2>9, <3>1, <1>2 DEF ReplyLost
  <2>10. ASSUME NEW k \in Workers, LockFails(k) PROVE PosterHoldsLock'
    <3>1. exec'[k].pc # "post" /\ \A l \in Workers \ {k} : exec'[l] = exec[l]
      BY <2>10, Points DEF LockFails, TypeOK
    <3>2. \A l \in Workers, w \in Webhooks : lock[w] = l => lock'[w] = l
      BY <2>10, NobodyAssumption DEF LockFails, TypeOK
    <3>3. \A l \in Workers : exec[l].pc = "post" => exec[l].hook \in Webhooks
      BY RunFields DEF TypeOK, Trying
    <3> QED BY <3>1, <3>2, <3>3
  <2>3. ASSUME NEW k \in Workers, WorkerCrashes(k) PROVE PosterHoldsLock'
    <3>1. /\ exec'[k].pc = "idle"
          /\ \A l \in Workers \ {k} : exec'[l] = exec[l]
      BY <2>3 DEF WorkerCrashes, IdleRun, TypeOK
    <3>2. \A l \in Workers \ {k}, w \in Webhooks : lock[w] = l => lock'[w] = l
      BY <2>3 DEF WorkerCrashes
    <3>3. \A l \in Workers : exec[l].pc = "post" => exec[l].hook \in Webhooks
      BY RunFields DEF TypeOK, Trying
    <3> QED BY <3>1, <3>2, <3>3
  <2>4. ASSUME NEW k \in Workers, JobLockLost(k) PROVE PosterHoldsLock'
    BY <2>4, <1>1 DEF JobLockLost
  <2>5. ASSUME NEW w \in Webhooks, CreateWebhook(w) \/ DeleteWebhook(w) PROVE PosterHoldsLock'
    BY <2>5, <1>1 DEF CreateWebhook, DeleteWebhook
  <2>6. ASSUME NEW p \in Producers, ProducerFails(p) PROVE PosterHoldsLock'
    BY <2>6, <1>1 DEF ProducerFails
  <2>7. ASSUME NEW c \in Calls, RecoverStalled(c) \/ FailedJobAges(c) PROVE PosterHoldsLock'
    BY <2>7, <1>1 DEF RecoverStalled, FailedJobAges
  <2>8. ASSUME NEW C \in SUBSET Calls, CleanupCalls(C) PROVE PosterHoldsLock'
    BY <2>8, <1>1 DEF CleanupCalls
  <2> QED BY <1>6, <2>1, <2>2, <2>3, <2>4, <2>5, <2>6, <2>7, <2>8, <2>9, <2>10
           DEF Environment
<1>7. CASE UNCHANGED vars
  BY <1>7, <1>1 DEF vars, state
<1> QED BY <1>3, <1>4, <1>5, <1>6, <1>7 DEF Next, Step, Slot

\* At most one POST to a webhook is in flight, with any number of slots and calls,
\* and whatever crashes, expires or fails to be released (acquireLock, releaseLock).
THEOREM OnePostPerWebhook == Spec => []PostMutex
<1>1. Init => PosterHoldsLock
  BY DEF Init, PosterHoldsLock, IdleRun
<1>2. TypeOK /\ PosterHoldsLock /\ [Next]_vars => PosterHoldsLock'
  BY LockSteps
<1>3. PosterHoldsLock => PostMutex
  BY DEF PosterHoldsLock, PostMutex, Posting
<1> QED BY <1>1, <1>2, <1>3, TypeCorrect, PTL DEF Spec

-----------------------------------------------------------------------------
(***************************************************************************)
(* The counter of consecutive failures.  setWebhookStatus may write back a *)
(* stale counter, but only while it leaves the webhook PAUSED or           *)
(* AUTO_DISABLED, and the way back to ACTIVE starts from 0.                *)
(***************************************************************************)

LEMMA CountSteps ==
    ASSUME TypeOK, CountInv, [Next]_vars
    PROVE  CountInv'
<1> USE DEF CountInv, ActiveCountExact
<1>0. hook \in [Webhooks -> HookRow] /\ streak \in [Webhooks -> Nat]
  BY DEF TypeOK
<1>1. ASSUME UNCHANGED <<hook, streak>> PROVE CountInv'
  BY <1>1
<1>2. ASSUME NEW p \in Producers, SetStatusWrite(p) PROVE CountInv'
  <2> DEFINE w == prod[p].hook
             s == prod[p].status
             n == IF s = "ACTIVE" THEN 0 ELSE prod[p].failures
  <2>1. w \in Webhooks /\ s \in WebhookStatus
    BY <1>2 DEF SetStatusWrite, TypeOK, Handler
  <2>2. CASE Exists(w)
    <3>1. /\ hook' = [hook EXCEPT ![w] = [status |-> s, failures |-> n]]
          /\ streak' = [streak EXCEPT ![w] = IF s = "ACTIVE" THEN 0 ELSE @]
      BY <1>2, <2>2 DEF SetStatusWrite
    <3> QED BY <1>0, <2>1, <3>1, NumbersAssumption DEF WebhookStatus
  <2>3. CASE ~Exists(w)
    BY <1>2, <2>3, <1>1 DEF SetStatusWrite
  <2> QED BY <2>2, <2>3
<1>3. ASSUME NEW p \in Producers, Request(p) \/ ProducerStep(p), ~SetStatusWrite(p) PROVE CountInv'
  <2>1. UNCHANGED <<hook, streak>>
    BY <1>3 DEF Request, ProducerStep, EmitRead, TestWebhook, RetryCall, SetStatusRead,
                CreateCall, EnqueueCall
  <2> QED BY <2>1, <1>1
<1>4. ASSUME NEW k \in Workers, exec[k].pc \in Trying, StoreDelivered(k) PROVE CountInv'
  <2> DEFINE w == exec[k].hook
  <2>1. w \in Webhooks
    BY <1>4, RunFields DEF TypeOK
  <2>2. /\ hook' = [hook EXCEPT ![w].failures = 0]
        /\ streak' = [streak EXCEPT ![w] = 0]
    BY <1>4 DEF StoreDelivered
  <2>3. \A v \in Webhooks : hook'[v].status = hook[v].status
    BY <1>0, <2>1, <2>2 DEF HookRow
  <2>4. hook'[w].failures = 0 /\ streak'[w] = 0
    BY <1>0, <2>1, <2>2 DEF HookRow
  <2>5. \A v \in Webhooks \ {w} : hook'[v] = hook[v] /\ streak'[v] = streak[v]
    BY <1>0, <2>2
  <2> QED BY <2>3, <2>4, <2>5, NumbersAssumption
<1>5. ASSUME NEW k \in Workers, exec[k].pc \in Trying, StoreCount(k) PROVE CountInv'
  <2> DEFINE w == exec[k].hook
             final == IsFinalAttempt(k)
             row == AfterFailure(hook[w], final)
  <2>1. w \in Webhooks
    BY <1>5, RunFields DEF TypeOK
  <2>2. /\ hook' = [hook EXCEPT ![w] = row]
        /\ streak' = [streak EXCEPT ![w] = IF final THEN @ + 1 ELSE @]
        /\ Exists(w)
    BY <1>5 DEF StoreCount
  <2>3. hook[w].failures \in Nat /\ streak[w] \in Nat
    BY <1>0, <2>1 DEF HookRow
  <2>4. row.status # "none"
    BY <2>2 DEF AfterFailure, Exists, WebhookStatus
  <2>5. row.status = "ACTIVE" =>
          hook[w].status = "ACTIVE" /\ (final => hook[w].failures + 1 < Threshold)
    BY <2>3, NumbersAssumption DEF AfterFailure
  <2>6. row.failures = IF final THEN hook[w].failures + 1 ELSE hook[w].failures
    BY DEF AfterFailure
  <2>7. hook'[w] = row /\ streak'[w] = IF final THEN streak[w] + 1 ELSE streak[w]
    BY <1>0, <2>1, <2>2
  <2>8. \A v \in Webhooks \ {w} : hook'[v] = hook[v] /\ streak'[v] = streak[v]
    BY <1>0, <2>2
  <2> QED BY <2>1, <2>3, <2>4, <2>5, <2>6, <2>7, <2>8
<1>6. ASSUME NEW k \in Workers, WorkerStep(k) \/ ReplyLost(k) PROVE CountInv'
  <2>1. \/ UNCHANGED <<hook, streak>>
        \/ exec[k].pc \in Trying /\ (StoreDelivered(k) \/ StoreCount(k))
    BY <1>6 DEF WorkerStep, ReadCall, DiscardCall, MarkInProgress, AcquireLock, LockBusy, PostWebhook,
                SaveDelivered, CountFailure, SaveFailed, ReleaseLock, FinishJob, ReplyLost, Trying
  <2> QED BY <2>1, <1>1, <1>4, <1>5
<1>7. ASSUME NEW k \in Workers, NEW c \in Calls, Fetch(k, c) PROVE CountInv'
  BY <1>7, <1>1 DEF Fetch
<1>8. ASSUME NEW w \in Webhooks, CreateWebhook(w) PROVE CountInv'
  BY <1>0, <1>8, NumbersAssumption DEF CreateWebhook
<1>9. ASSUME NEW w \in Webhooks, DeleteWebhook(w) PROVE CountInv'
  BY <1>0, <1>9 DEF DeleteWebhook
<1>10. ASSUME Environment, \A w \in Webhooks : ~CreateWebhook(w) /\ ~DeleteWebhook(w),
              \A k \in Workers : ~ReplyLost(k)
       PROVE  CountInv'
  <2>1. UNCHANGED <<hook, streak>>
    BY <1>10 DEF Environment, LockExpires, ProducerFails, DbFails, LockFails, WorkerCrashes,
                 JobLockLost, RecoverStalled, FailedJobAges, CleanupCalls
  <2> QED BY <2>1, <1>1
<1>11. CASE UNCHANGED vars
  BY <1>11, <1>1 DEF vars, state
<1> QED BY <1>2, <1>3, <1>6, <1>7, <1>8, <1>9, <1>10, <1>11 DEF Next, Step, Slot, Environment

\* An ACTIVE webhook counts exactly the calls that failed for good since its last
\* success or re-enable, and they are fewer than the threshold: it is disabled neither early
\* nor late, for every threshold and however setWebhookStatus interleaves.
THEOREM CountersExact == Spec => []ActiveCountExact
<1>1. Init => CountInv
  BY NumbersAssumption DEF Init, CountInv, ActiveCountExact
<1>2. TypeOK /\ CountInv /\ [Next]_vars => CountInv'
  BY CountSteps
<1>3. CountInv => ActiveCountExact
  BY DEF CountInv
<1> QED BY <1>1, <1>2, <1>3, TypeCorrect, PTL DEF Spec

-----------------------------------------------------------------------------
(***************************************************************************)
(* One live run per call.  A job that never lost its worker is active and  *)
(* owned by the slot that runs it, and only waiting jobs are handed out.   *)
(***************************************************************************)

LEMMA OwnerSteps ==
    ASSUME TypeOK, RunnerOwnsJob, [Next]_vars
    PROVE  RunnerOwnsJob'
<1> USE DEF RunnerOwnsJob, Running
<1>0. /\ exec \in [Workers -> Run]
      /\ job \in [Calls -> Job]
      /\ \A k \in Workers : exec[k].pc # "idle" => exec[k].call \in Calls
  BY RunFields DEF TypeOK
\* A step that moves no run to another call and changes no job.
<1>1. ASSUME UNCHANGED <<job, unlocked>>,
             \A k \in Workers : exec'[k].pc # "idle" =>
                 exec[k].pc # "idle" /\ exec'[k].call = exec[k].call
      PROVE  RunnerOwnsJob'
  BY <1>1
<1>2. ASSUME UNCHANGED <<exec, unlocked>>,
             \A c \in Calls : job[c].state = "active" /\ job[c].owner \in Workers
                 => job'[c] = job[c]
      PROVE  RunnerOwnsJob'
  BY <1>2
<1>3. ASSUME NEW p \in Producers, Request(p) \/ ProducerStep(p) PROVE RunnerOwnsJob'
  <2>1. CASE EnqueueCall(p)
    <3>1. prod[p].call \in Calls
      BY <2>1 DEF EnqueueCall, TypeOK, Handler
    <3> QED BY <1>0, <2>1, <3>1, <1>2 DEF EnqueueCall, AddJob
  <2>2. CASE ~EnqueueCall(p)
    <3>1. UNCHANGED <<exec, job, unlocked>>
      BY <1>3, <2>2 DEF Request, ProducerStep, EmitRead, TestWebhook, RetryCall, SetStatusRead,
                  CreateCall, SetStatusWrite
    <3> QED BY <3>1
  <2> QED BY <2>1, <2>2
<1>4. ASSUME NEW k \in Workers, UNCHANGED <<job, unlocked>>, exec[k].pc # "idle",
             \A l \in Workers \ {k} : exec'[l] = exec[l], exec'[k].call = exec[k].call
      PROVE  RunnerOwnsJob'
  BY <1>4
<1>5. ASSUME NEW k \in Workers, NEW x, exec[k].pc # "idle",
             GoesTo(k, x) \/ Ends(k, x) \/ Leaves(k, x)
      PROVE  /\ exec'[k].call = exec[k].call
             /\ \A l \in Workers \ {k} : exec'[l] = exec[l]
  <2>1. CASE GoesTo(k, x)
    BY <1>0, <1>5, <2>1 DEF GoesTo, Run
  <2>2. CASE Ends(k, x) \/ Leaves(k, x)
    BY <1>0, <2>2 DEF Ends, Leaves
  <2> QED BY <1>5, <2>1, <2>2
<1>6. ASSUME NEW k \in Workers, WorkerStep(k) PROVE RunnerOwnsJob'
  <2>1. CASE FinishJob(k)
    <3> DEFINE c == exec[k].call
    <3>1. c \in Calls
      BY <1>0, <2>1 DEF FinishJob
    <3>2. /\ exec'[k].pc = "idle"
          /\ \A l \in Workers \ {k} : exec'[l] = exec[l]
      BY <1>0, <2>1 DEF FinishJob, IdleRun
    <3>3. \A d \in Calls \ {c} : job'[d] = job[d]
      BY <1>0, <2>1 DEF FinishJob
    <3>4. c \notin unlocked => \A l \in Workers \ {k} : ~Running(l, c)
      BY <2>1, <3>1 DEF FinishJob
    <3>5. unlocked' = unlocked
      BY <2>1 DEF FinishJob
    <3> QED BY <3>1, <3>2, <3>3, <3>4, <3>5
  <2>2. CASE ReadCall(k)
    <3>1. exec'[k].call = exec[k].call /\ \A l \in Workers \ {k} : exec'[l] = exec[l]
      BY <1>0, <1>5, <2>2 DEF ReadCall
    <3> QED BY <2>2, <3>1, <1>4 DEF ReadCall
  <2>3. CASE CountFailure(k)
    <3>1. exec'[k].call = exec[k].call /\ \A l \in Workers \ {k} : exec'[l] = exec[l]
      BY <1>0, <1>5, <2>3 DEF CountFailure
    <3> QED BY <2>3, <3>1, <1>4 DEF CountFailure
  <2>4. CASE DiscardCall(k) \/ MarkInProgress(k) \/ AcquireLock(k) \/ LockBusy(k)
             \/ PostWebhook(k) \/ SaveDelivered(k) \/ SaveFailed(k) \/ ReleaseLock(k)
    <3>1. exec[k].pc # "idle" /\ UNCHANGED <<job, unlocked>>
      BY <2>4 DEF DiscardCall, MarkInProgress, AcquireLock, LockBusy, PostWebhook,
                  SaveDelivered, SaveFailed, ReleaseLock
    <3>2. exec'[k].call = exec[k].call /\ \A l \in Workers \ {k} : exec'[l] = exec[l]
      BY <1>5, <2>4, <3>1 DEF DiscardCall, MarkInProgress, AcquireLock, LockBusy, PostWebhook,
                  SaveDelivered, SaveFailed, ReleaseLock
    <3> QED BY <3>1, <3>2, <1>4
  <2> QED BY <1>6, <2>1, <2>2, <2>3, <2>4 DEF WorkerStep
<1>7. ASSUME NEW k \in Workers, NEW c \in Calls, Fetch(k, c) PROVE RunnerOwnsJob'
  <2>1. /\ exec'[k].call = c
        /\ \A l \in Workers \ {k} : exec'[l] = exec[l]
        /\ \A d \in Calls \ {c} : job'[d] = job[d]
        /\ unlocked' = unlocked
    BY <1>0, <1>7 DEF Fetch
  <2>2. job'[c].state = "active" /\ job'[c].owner = k
    BY <1>0, <1>7 DEF Fetch, Job
  <2>3. c \notin unlocked => \A l \in Workers : ~Running(l, c)
    BY <1>7 DEF Fetch
  <2> QED BY <2>1, <2>2, <2>3
<1>8. ASSUME Environment PROVE RunnerOwnsJob'
  <2>1. ASSUME NEW w \in Webhooks, CreateWebhook(w) \/ DeleteWebhook(w) \/ LockExpires(w)
        PROVE RunnerOwnsJob'
    <3>1. UNCHANGED <<exec, job, unlocked>>
      BY <2>1 DEF CreateWebhook, DeleteWebhook, LockExpires
    <3> QED BY <3>1
  <2>2. ASSUME NEW p \in Producers, ProducerFails(p) PROVE RunnerOwnsJob'
    BY <2>2 DEF ProducerFails
  <2>3. ASSUME NEW k \in Workers, DbFails(k) PROVE RunnerOwnsJob'
    <3>1. exec[k].pc # "idle" /\ UNCHANGED <<job, unlocked>>
      BY <2>3 DEF DbFails
    <3>2. exec'[k].call = exec[k].call /\ \A l \in Workers \ {k} : exec'[l] = exec[l]
      BY <1>5, <2>3, <3>1 DEF DbFails
    <3> QED BY <3>1, <3>2, <1>4
  <2>10. ASSUME NEW k \in Workers, ReplyLost(k) \/ LockFails(k) PROVE RunnerOwnsJob'
    <3>1. exec[k].pc # "idle" /\ UNCHANGED <<job, unlocked>>
      BY <2>10 DEF ReplyLost, LockFails
    <3>2. exec'[k].call = exec[k].call /\ \A l \in Workers \ {k} : exec'[l] = exec[l]
      BY <1>5, <2>10, <3>1 DEF ReplyLost, LockFails
    <3> QED BY <3>1, <3>2, <1>4
  <2>4. ASSUME NEW k \in Workers, Disown(k), exec[k].pc # "idle",
               \A l \in Workers : exec'[l].pc # "idle" => exec'[l] = exec[l]
        PROVE  RunnerOwnsJob'
    <3> DEFINE c == exec[k].call
    <3>1. c \in Calls
      BY <1>0, <2>4
    <3>2. CASE job[c].state = "active" /\ job[c].owner = k
      <4>1. c \in unlocked' /\ unlocked \subseteq unlocked'
        BY <2>4, <3>2 DEF Disown
      <4>2. \A d \in Calls \ {c} : job'[d] = job[d]
        BY <1>0, <2>4 DEF Disown
      <4> QED BY <2>4, <4>1, <4>2
    <3>3. CASE ~(job[c].state = "active" /\ job[c].owner = k)
      <4>1. UNCHANGED <<job, unlocked>>
        BY <2>4, <3>3 DEF Disown
      <4> QED BY <2>4, <4>1
    <3> QED BY <3>2, <3>3
  <2>5. ASSUME NEW k \in Workers, WorkerCrashes(k) PROVE RunnerOwnsJob'
    <3>1. \A l \in Workers : exec'[l].pc # "idle" => exec'[l] = exec[l]
      BY <1>0, <2>5 DEF WorkerCrashes, IdleRun
    <3> QED BY <2>4, <2>5, <3>1 DEF WorkerCrashes
  <2>6. ASSUME NEW k \in Workers, JobLockLost(k) PROVE RunnerOwnsJob'
    BY <2>4, <2>6 DEF JobLockLost
  <2>7. ASSUME NEW c \in Calls, RecoverStalled(c) PROVE RunnerOwnsJob'
    <3>1. \A d \in Calls : job[d].state = "active" /\ job[d].owner \in Workers => job'[d] = job[d]
      BY <1>0, <2>7, NobodyAssumption DEF RecoverStalled, Disowned
    <3> QED BY <2>7, <3>1, <1>2 DEF RecoverStalled
  <2>8. ASSUME NEW c \in Calls, FailedJobAges(c) PROVE RunnerOwnsJob'
    <3>1. \A d \in Calls : job[d].state = "active" => job'[d] = job[d]
      BY <1>0, <2>8 DEF FailedJobAges
    <3> QED BY <2>8, <3>1, <1>2 DEF FailedJobAges
  <2>9. ASSUME NEW C \in SUBSET Calls, CleanupCalls(C) PROVE RunnerOwnsJob'
    BY <2>9 DEF CleanupCalls
  <2> QED BY <1>8, <2>1, <2>2, <2>3, <2>5, <2>6, <2>7, <2>8, <2>9, <2>10
         DEF Environment
<1>9. CASE UNCHANGED vars
  BY <1>9 DEF vars, state
<1> QED BY <1>3, <1>6, <1>7, <1>8, <1>9 DEF Next, Step, Slot

\* A call whose job never lost its worker has one live run at most, however often
\* emit, testWebhook and retryCall add its job (jobId = callId).
THEOREM SingleRun == Spec => []OneRunPerCall
<1>1. Init => RunnerOwnsJob
  BY DEF Init, RunnerOwnsJob, Running, IdleRun
<1>2. TypeOK /\ RunnerOwnsJob /\ [Next]_vars => RunnerOwnsJob'
  BY OwnerSteps
<1>3. RunnerOwnsJob => OneRunPerCall
  BY DEF RunnerOwnsJob, OneRunPerCall
<1> QED BY <1>1, <1>2, <1>3, TypeCorrect, PTL DEF Spec

-----------------------------------------------------------------------------
(***************************************************************************)
(* The rows follow WebhookLifecycle.  The row of a call that is not        *)
(* excused tells what its job and its run are at: after n attempts the row *)
(* awaits the next one, which is n + 1.                                    *)
(***************************************************************************)

Excused == unlocked \cup unheard \cup {c \in Calls : retries[c] > 0}
Lossy == {"db", "redis"} \cap mix # {}

\* The row after n attempts, of which it may show less where writes are lost.
Awaits(c, n) ==
    Stored(c) => /\ call[c].status = "PENDING" \/ (Lossy /\ call[c].status = "IN_PROGRESS")
                 /\ call[c].attempt = n \/ (Lossy /\ call[c].attempt <= n)

Before == {"read", "discard", "mark"}
Within == {"lock", "busy", "post", "delivered", "failed", "save"}

\* What the run of slot k, the only one of its call, means for the row.
Progress(k) ==
    LET c == exec[k].call
        n == job[c].made + 1
    IN /\ exec[k].pc \in Before \cup Within => exec[k].attempt = n
       /\ exec[k].pc \in Before => Awaits(c, n - 1)
       /\ exec[k].pc \in Within /\ Stored(c)
             => call[c].status = "IN_PROGRESS" /\ call[c].attempt = n
       /\ exec[k].pc \in {"release", "finish"} /\ exec[k].outcome = "throw" /\ n < MaxAttempts
             => Awaits(c, n)

Ordered(c) ==
    /\ ~Disowned(c)
    /\ job[c].state = "waiting" => Awaits(c, job[c].made)
    /\ BeingEnqueued(c) =>
          /\ job[c].state = "none" /\ \A k \in Workers : ~Running(k, c)
          /\ Stored(c) => call[c].status = "PENDING" /\ call[c].attempt = 0
    /\ \A p, q \in Producers :
          prod[p].pc = "enqueue" /\ prod[p].call = c /\ prod[q].pc = "enqueue" /\ prod[q].call = c
              => p = q
    /\ \A k \in Workers : Running(k, c) => Progress(k)

\* Of every call, excused or not.
Grounded(c) ==
    /\ call[c].status = "none" =>
          job[c].state = "none" /\ ~BeingEnqueued(c) /\ \A k \in Workers : ~Running(k, c)
    /\ Stored(c) => Exists(call[c].hook) /\ call[c].attempt <= MaxAttempts
    /\ job[c].state = "none" => job[c].made = 0
    /\ job[c].state # "failed" => job[c].made < MaxAttempts
    /\ \A k \in Workers : Running(k, c) =>
          /\ exec[k].pc \in Before \cup Within => exec[k].attempt <= MaxAttempts
          /\ exec[k].pc \in (Before \ {"read"}) \cup Within /\ Stored(c)
                => exec[k].hook = call[c].hook

Traced ==
    /\ \A c \in Calls : c > created => call[c].status = "none"
    /\ \A c \in Calls : Grounded(c) /\ (c \notin Excused => Ordered(c))

\* What the rows show of the calls, in the terms of WebhookLifecycle.
ShownStatus == [c \in Calls |-> call[c].status]
ShownAttempt == [c \in Calls |-> IF Stored(c) THEN call[c].attempt ELSE 0]

LEMMA RowsStay ==
    ASSUME UNCHANGED <<call, unlocked, unheard, retries, mix>>
    PROVE  UNCHANGED Lifecycle!lifecycleVars
BY DEF Lifecycle!lifecycleVars, Stored

\* One row changes, and stays a row.
LEMMA RowMoves ==
    ASSUME NEW c \in Calls, Stored(c), Stored(c)', \A d \in Calls \ {c} : call'[d] = call[d],
           UNCHANGED <<unlocked, unheard, retries, mix>>,
           NEW from, from = call[c].status, NEW to, to = call'[c].status
    PROVE  /\ Lifecycle!Moves(c, from, to)
           /\ ShownAttempt' = [ShownAttempt EXCEPT ![c] = call'[c].attempt]
<1>1. ShownStatus' = [ShownStatus EXCEPT ![c] = to]
  BY DEF ShownStatus
<1>2. ShownAttempt' = [ShownAttempt EXCEPT ![c] = call'[c].attempt]
  BY DEF ShownAttempt, Stored
<1>3. ShownStatus[c] = from
  BY DEF ShownStatus
<1>4. UNCHANGED <<unlocked \cup unheard \cup {d \in Calls : retries[d] > 0}, {"db", "redis"} \cap mix # {}>>
  OBVIOUS
<1> QED BY <1>1, <1>2, <1>3, <1>4 DEF Lifecycle!Moves, ShownStatus

\* The row of an excused call becomes whatever it becomes.
LEMMA RowSlips ==
    ASSUME TypeOK', NEW c \in Calls, \A d \in Calls \ {c} : call'[d] = call[d],
           Excused' = Excused \cup {c}, UNCHANGED mix,
           Stored(c)' => call'[c].attempt <= MaxAttempts
    PROVE  Lifecycle!Slip(c)
<1> DEFINE n == IF Stored(c) THEN call[c].attempt ELSE 0
<1>1. call'[c].status \in Lifecycle!Statuses
  BY DEF TypeOK, Row, NoRow, CallStatus, Lifecycle!Statuses
<1>2. n' \in 0..MaxAttempts
  <2>1. Stored(c)' => call'[c].attempt \in Nat
    BY DEF TypeOK, Row, NoRow, CallStatus, Stored
  <2> QED BY <2>1, NumbersAssumption
<1>3. ShownStatus' = [ShownStatus EXCEPT ![c] = call'[c].status]
  BY DEF ShownStatus
<1>4. ShownAttempt' = [ShownAttempt EXCEPT ![c] = n']
  <2>1. ShownAttempt'[c] = n'
    BY DEF ShownAttempt
  <2>2. \A d \in Calls \ {c} : ShownAttempt'[d] = ShownAttempt[d]
    BY DEF ShownAttempt, Stored
  <2> HIDE DEF n
  <2> QED BY <2>1, <2>2 DEF ShownAttempt
<1>5. UNCHANGED ({"db", "redis"} \cap mix # {})
  OBVIOUS
<1> HIDE DEF n
<1> QED BY <1>1, <1>2, <1>3, <1>4, <1>5 DEF Lifecycle!Slip, ShownStatus, ShownAttempt, Excused

\* Rows are deleted together.
LEMMA RowsGo ==
    ASSUME NEW C \in SUBSET Calls, \A c \in C : Stored(c),
           call' = [c \in Calls |-> IF c \in C THEN [status |-> "deleted"] ELSE call[c]],
           UNCHANGED <<unlocked, unheard, retries, mix>>
    PROVE  Lifecycle!Delete(C)
<1>1. \A c \in C : ShownStatus[c] \notin {"none", "deleted"}
  BY DEF ShownStatus, Stored, CallStatus
<1>2. ShownStatus' = [c \in Calls |-> IF c \in C THEN "deleted" ELSE ShownStatus[c]]
  BY DEF ShownStatus
<1>3. ShownAttempt' = [c \in Calls |-> IF c \in C THEN 0 ELSE ShownAttempt[c]]
  BY DEF ShownAttempt, Stored, CallStatus
<1>4. UNCHANGED <<unlocked \cup unheard \cup {d \in Calls : retries[d] > 0}, {"db", "redis"} \cap mix # {}>>
  OBVIOUS
<1> QED BY <1>1, <1>2, <1>3, <1>4 DEF Lifecycle!Delete, ShownStatus, ShownAttempt

\* A step that leaves the call d alone, except that a run or a producer of it may end.
Apart(d) ==
    /\ call'[d] = call[d] /\ job'[d] = job[d]
    /\ \A k \in Workers : Running(k, d)' => Running(k, d) /\ exec'[k] = exec[k]
    /\ \A p \in Producers : prod'[p].pc = "enqueue" /\ prod'[p].call = d
          => prod[p].pc = "enqueue" /\ prod[p].call = d
    /\ d \notin Excused' => d \notin Excused

Traceable(d) == Grounded(d) /\ (d \notin Excused => Ordered(d))

WebhooksStay == \A w \in Webhooks : Exists(w) => Exists(w)'

LEMMA ApartKeeps ==
    ASSUME TypeOK, UNCHANGED mix, WebhooksStay, NEW d \in Calls, Traceable(d), Apart(d)
    PROVE  Traceable(d)'
<1>1. Stored(d)' <=> Stored(d)
  BY DEF Apart, Stored
<1>2. Stored(d) => call[d].hook \in Webhooks
  BY RowUpdates DEF TypeOK, Stored
<1>3. BeingEnqueued(d)' => BeingEnqueued(d)
  BY DEF Apart, BeingEnqueued
<1>4. \A n : Awaits(d, n) => Awaits(d, n)'
  BY <1>1 DEF Awaits, Apart, Lossy
<1>5. Grounded(d)'
  <2>1. call'[d].status = "none" =>
           job'[d].state = "none" /\ ~BeingEnqueued(d)' /\ \A k \in Workers : ~Running(k, d)'
    BY <1>3 DEF Traceable, Grounded, Apart
  <2>2. (Stored(d) => Exists(call[d].hook) /\ call[d].attempt <= MaxAttempts)'
    BY <1>1, <1>2 DEF Traceable, Grounded, Apart, WebhooksStay, Exists
  <2>3. (job'[d].state = "none" => job'[d].made = 0) /\ (job'[d].state # "failed" => job'[d].made < MaxAttempts)
    BY DEF Traceable, Grounded, Apart
  <2>4. ASSUME NEW k \in Workers, Running(k, d)'
        PROVE  /\ exec'[k].pc \in Before \cup Within => exec'[k].attempt <= MaxAttempts
               /\ exec'[k].pc \in (Before \ {"read"}) \cup Within /\ Stored(d)'
                     => exec'[k].hook = call'[d].hook
    <3>1. Running(k, d) /\ exec'[k] = exec[k] /\ call'[d] = call[d]
      BY <2>4 DEF Apart
    <3> QED BY <1>1, <3>1 DEF Traceable, Grounded
  <2> QED BY <2>1, <2>2, <2>3, <2>4 DEF Grounded
<1>6. ASSUME d \notin Excused', Ordered(d) PROVE Ordered(d)'
  <2>1. call'[d] = call[d] /\ job'[d] = job[d]
    BY DEF Apart
  <2>2. ~Disowned(d)' /\ (job'[d].state = "waiting" => Awaits(d, job[d].made)')
    BY <1>4, <1>6, <2>1 DEF Ordered, Disowned
  <2>3. BeingEnqueued(d)' =>
          /\ job'[d].state = "none" /\ \A k \in Workers : ~Running(k, d)'
          /\ Stored(d)' => call'[d].status = "PENDING" /\ call'[d].attempt = 0
    BY <1>1, <1>3, <1>6, <2>1 DEF Ordered, Apart
  <2>4. \A p, q \in Producers :
          prod'[p].pc = "enqueue" /\ prod'[p].call = d /\ prod'[q].pc = "enqueue" /\ prod'[q].call = d
              => p = q
    <3>1. \A p \in Producers : prod'[p].pc = "enqueue" /\ prod'[p].call = d
             => prod[p].pc = "enqueue" /\ prod[p].call = d
      BY DEF Apart
    <3>2. \A p, q \in Producers :
             prod[p].pc = "enqueue" /\ prod[p].call = d /\ prod[q].pc = "enqueue" /\ prod[q].call = d
                 => p = q
      BY <1>6 DEF Ordered
    <3> QED BY <3>1, <3>2
  <2>5. ASSUME NEW k \in Workers, Running(k, d)' PROVE Progress(k)'
    <3>1. exec'[k] = exec[k] /\ exec[k].call = d /\ Progress(k)
      BY <1>6, <2>5 DEF Apart, Ordered, Running
    <3> QED BY <1>1, <1>4, <2>1, <3>1 DEF Progress
  <2> QED BY <2>1, <2>2, <2>3, <2>4, <2>5 DEF Ordered
<1> QED BY <1>5, <1>6 DEF Traceable, Apart

LEMMA TracedIs == Traced <=> /\ \A c \in Calls : c > created => call[c].status = "none"
                             /\ \A c \in Calls : Traceable(c)
BY DEF Traced, Traceable

\* A step that leaves all calls alone but c.
LEMMA TraceOne ==
    ASSUME TypeOK, Traced, UNCHANGED mix, WebhooksStay, NEW c, created' >= created, created' \in Nat,
           \A d \in Calls : d # c => Apart(d), c \in Calls => Traceable(c)',
           c \in Calls /\ c > created' => call'[c].status = "none"
    PROVE  Traced'
<1>1. \A d \in Calls : Traceable(d)'
  BY ApartKeeps, TracedIs
<1>2. ASSUME NEW d \in Calls, d > created' PROVE call'[d].status = "none"
  <2>1. CASE d = c
    BY <1>2, <2>1
  <2>2. CASE d # c
    <3>1. d > created
      BY <1>2 DEF TypeOK, Calls
    <3> QED BY <2>2, <3>1 DEF Apart, Traced
  <2> QED BY <2>1, <2>2
<1> QED BY <1>1, <1>2 DEF Traced, Traceable

LEMMA TraceNone ==
    ASSUME TypeOK, Traced, UNCHANGED <<mix, created>>, WebhooksStay, \A d \in Calls : Apart(d)
    PROVE  Traced'
<1>1. created \in Nat
  BY DEF TypeOK
<1>2. \A d \in Calls : Traceable(d)'
  BY ApartKeeps, TracedIs
<1>3. \A d \in Calls : d > created' => call'[d].status = "none"
  BY DEF Apart, Traced
<1> QED BY <1>2, <1>3 DEF Traced, Traceable

\* Where the steps of a run take it, with what it holds.
LEMMA RunGoes ==
    ASSUME exec \in [Workers -> Run], NEW k \in Workers, exec[k].pc # "idle"
    PROVE  /\ \A t : GoesTo(k, t) /\ exec[k].pc \in Trying =>
                /\ exec'[k].pc = t /\ exec'[k].call = exec[k].call
                /\ exec'[k].hook = exec[k].hook /\ exec'[k].attempt = exec[k].attempt
           /\ \A o : Ends(k, o) =>
                exec'[k].pc = "finish" /\ exec'[k].call = exec[k].call /\ exec'[k].outcome = o
           /\ \A o : Leaves(k, o) =>
                exec'[k].pc = "release" /\ exec'[k].call = exec[k].call /\ exec'[k].outcome = o
<1>1. ASSUME NEW t, GoesTo(k, t), exec[k].pc \in Trying
      PROVE  /\ exec'[k].pc = t /\ exec'[k].call = exec[k].call
             /\ exec'[k].hook = exec[k].hook /\ exec'[k].attempt = exec[k].attempt
  <2>1. exec[k] \in [pc : Trying, call : Calls, hook : Webhooks, attempt : Nat]
    BY <1>1 DEF Run, Trying
  <2> QED BY <1>1, <2>1 DEF GoesTo
<1>2. ASSUME NEW o, Ends(k, o)
      PROVE  exec'[k].pc = "finish" /\ exec'[k].call = exec[k].call /\ exec'[k].outcome = o
  BY <1>2 DEF Ends
<1>3. ASSUME NEW o, Leaves(k, o)
      PROVE  exec'[k].pc = "release" /\ exec'[k].call = exec[k].call /\ exec'[k].outcome = o
  BY <1>3 DEF Leaves
<1> QED BY <1>1, <1>2, <1>3

\* A step of the run of slot k that leaves its job alone.
LEMMA RunStepTraced ==
    ASSUME TypeOK, RunnerOwnsJob, Traced, NEW k \in Workers, exec[k].pc # "idle",
           NEW c \in Calls, exec[k].call = c,
           UNCHANGED <<job, prod, created, retries, unlocked, mix>>, WebhooksStay,
           unheard' = unheard \/ unheard' = unheard \cup {c},
           \A l \in Workers \ {k} : exec'[l] = exec[l],
           exec'[k].pc # "idle", exec'[k].call = c,
           \A d \in Calls : d # c => call'[d] = call[d],
           \/ call'[c] = call[c]
           \/ /\ Stored(c) /\ Stored(c)' /\ call'[c].hook = call[c].hook
              /\ call'[c].attempt <= MaxAttempts,
           exec'[k].pc \in Before \cup Within => exec'[k].attempt <= MaxAttempts,
           exec'[k].pc \in (Before \ {"read"}) \cup Within /\ Stored(c)'
              => exec'[k].hook = call'[c].hook,
           c \notin Excused' => Progress(k)'
    PROVE  Traced'
<1>1. c \in Calls
  OBVIOUS
<1>2. \A d \in Calls : d \notin Excused' => d \notin Excused
  BY DEF Excused
<1>3. ASSUME NEW d \in Calls, d # c PROVE Apart(d)
  BY <1>2, <1>3 DEF Apart, Running
<1>4. Grounded(c) /\ (c \notin Excused => Ordered(c))
  BY <1>1 DEF Traced
<1>5. Running(k, c) /\ UNCHANGED <<job, prod>>
  BY DEF Running
<1>6. \A l \in Workers : Running(l, c)' <=> Running(l, c)
  BY DEF Running
<1>7. BeingEnqueued(c)' <=> BeingEnqueued(c)
  BY DEF BeingEnqueued
<1>8. Grounded(c)'
  <2>1. call[c].status # "none" /\ call'[c].status # "none"
    BY <1>4, <1>5 DEF Grounded, Stored, CallStatus
  <2>2. (Stored(c) => Exists(call[c].hook) /\ call[c].attempt <= MaxAttempts)'
    <3>1. Stored(c)' => Stored(c) /\ call'[c].hook = call[c].hook /\ call'[c].attempt <= MaxAttempts
      BY <1>4 DEF Grounded, Stored
    <3>2. Stored(c) => Exists(call[c].hook) /\ call[c].hook \in Webhooks
      BY <1>1, <1>4, RowUpdates DEF Grounded, TypeOK, Stored
    <3> QED BY <3>1, <3>2 DEF WebhooksStay, Exists
  <2>3. ASSUME NEW l \in Workers \ {k}, Running(l, c)
        PROVE  /\ exec'[l].pc \in Before \cup Within => exec'[l].attempt <= MaxAttempts
               /\ exec'[l].pc \in (Before \ {"read"}) \cup Within /\ Stored(c)'
                     => exec'[l].hook = call'[c].hook
    <3>1. Stored(c)' => Stored(c) /\ call'[c].hook = call[c].hook
      BY DEF Stored
    <3> QED BY <1>4, <2>3, <3>1 DEF Grounded
  <2>4. /\ job'[c].state = "none" => job'[c].made = 0
        /\ job'[c].state # "failed" => job'[c].made < MaxAttempts
    BY <1>4, <1>5 DEF Grounded
  <2> QED BY <1>6, <2>1, <2>2, <2>3, <2>4 DEF Grounded
<1>9. ASSUME c \notin Excused' PROVE Ordered(c)'
  <2>0. c \notin Excused
    BY <1>2, <1>9
  <2>1. job[c].state = "active" /\ job[c].owner = k /\ \A l \in Workers : Running(l, c) => l = k
    BY <1>1, <1>5, <2>0 DEF RunnerOwnsJob, Excused
  <2>2. ~BeingEnqueued(c) /\ ~Disowned(c)
    BY <1>4, <1>5, <2>0 DEF Ordered
  <2>3. \A p \in Producers : ~(prod[p].pc = "enqueue" /\ prod[p].call = c)
    BY <2>2 DEF BeingEnqueued
  <2>4. ~Disowned(c)'
    BY <1>5, <2>2 DEF Disowned
  <2> QED BY <1>4, <1>5, <1>6, <1>7, <1>9, <2>0, <2>1, <2>2, <2>3, <2>4 DEF Ordered
<1>10. Traceable(c)'
  BY <1>2, <1>8, <1>9 DEF Traceable
<1>11. ~(c > created)
  BY <1>4, <1>5 DEF Traced, Grounded
<1>12. created' = created /\ created \in Nat
  BY DEF TypeOK
<1> QED BY <1>1, <1>3, <1>10, <1>11, <1>12, TraceOne DEF Traced

\* What the run of slot k knows of its call c.
LEMMA RunKnows ==
    ASSUME TypeOK, RunnerOwnsJob, Traced, NEW k \in Workers, exec[k].pc # "idle",
           NEW c, c = exec[k].call
    PROVE  /\ c \in Calls /\ Grounded(c) /\ job[c].made \in Nat
           /\ c \notin Excused => Progress(k) /\ job[c].state = "active" /\ job[c].owner = k
           /\ exec[k].pc \in Before \cup Within => exec[k].attempt \in Nat /\ exec[k].attempt <= MaxAttempts
           /\ exec[k].pc \in (Before \ {"read"}) \cup Within /\ Stored(c) => exec[k].hook = call[c].hook
<1>1. c \in Calls
  BY RunFields DEF TypeOK
<1>2. Running(k, c) /\ Grounded(c)
  BY <1>1 DEF Running, Traced
<1>3. c \notin Excused => Progress(k) /\ job[c].state = "active" /\ job[c].owner = k
  BY <1>1, <1>2 DEF Traced, Ordered, RunnerOwnsJob, Excused
<1>4. exec[k].pc \in Before \cup Within => exec[k].attempt \in Nat /\ exec[k].attempt <= MaxAttempts
  BY <1>2, RunFields DEF Grounded, TypeOK, Before, Within, Trying
<1>5. job[c].made \in Nat
  BY <1>1 DEF TypeOK, Job
<1> QED BY <1>1, <1>2, <1>3, <1>4, <1>5 DEF Grounded

\* An update of the row of a call that is stored.
LEMMA RowUpdated ==
    ASSUME TypeOK, NEW k \in Workers, NEW c \in Calls, c = exec[k].call, NEW s \in CallStatus,
           UpdateCall(k, s)
    PROVE  /\ \A d \in Calls : d # c => call'[d] = call[d]
           /\ Stored(c) /\ Stored(c)'
           /\ call'[c].status = s /\ call'[c].attempt = exec[k].attempt
           /\ call'[c].hook = call[c].hook
<1>1. Stored(c)
  BY DEF UpdateCall
<1>2. call[c] \in [status : CallStatus, hook : Webhooks, attempt : Nat]
  BY <1>1 DEF TypeOK, Row, Stored, NoRow, CallStatus
<1>3. call' = [call EXCEPT ![c] = [call[c] EXCEPT !.status = s, !.attempt = exec[k].attempt]]
  BY DEF UpdateCall
<1>4. call \in [Calls -> Row]
  BY DEF TypeOK
<1>5. call'[c] = [call[c] EXCEPT !.status = s, !.attempt = exec[k].attempt]
  BY <1>3, <1>4
<1> QED BY <1>1, <1>2, <1>3, <1>4, <1>5 DEF Stored

LEMMA WorkerTraced ==
    ASSUME TypeOK, RunnerOwnsJob, Traced, NEW k \in Workers,
           \/ ReadCall(k) \/ DiscardCall(k) \/ MarkInProgress(k) \/ AcquireLock(k) \/ LockBusy(k)
           \/ PostWebhook(k) \/ SaveDelivered(k) \/ CountFailure(k) \/ SaveFailed(k) \/ ReleaseLock(k)
           \/ DbFails(k) \/ ReplyLost(k) \/ LockFails(k),
           UNCHANGED mix, NEW c, c = exec[k].call, NEW n, n = job[c].made + 1
    PROVE  Traced'
<1>1. /\ exec \in [Workers -> Run] /\ exec[k].pc # "idle" /\ c \in Calls
      /\ UNCHANGED <<job, prod, created, retries, unlocked, mix>>
      /\ unheard' = unheard \/ unheard' = unheard \cup {c}
  <2>1. /\ exec[k].pc # "idle" /\ UNCHANGED <<job, prod, created, retries, unlocked>>
        /\ unheard' = unheard \/ unheard' = unheard \cup {c}
    BY DEF ReadCall, DiscardCall, MarkInProgress, AcquireLock, LockBusy, PostWebhook, SaveDelivered,
           CountFailure, SaveFailed, ReleaseLock, DbFails, ReplyLost, LockFails, NotesUnheard
  <2> QED BY <2>1, RunFields DEF TypeOK
<1>2. /\ Grounded(c) /\ n \in Nat
      /\ c \notin Excused => Progress(k)
      /\ exec[k].pc \in Before \cup Within => exec[k].attempt \in Nat /\ exec[k].attempt <= MaxAttempts
      /\ exec[k].pc \in (Before \ {"read"}) \cup Within /\ Stored(c) => exec[k].hook = call[c].hook
  BY <1>1, RunKnows
<1>0. c \notin Excused' => c \notin Excused
  BY <1>1 DEF Excused
<1>3. WebhooksStay
  <2>1. CASE exec[k].pc \in Trying /\ StoreDelivered(k)
    <3>1. \A w \in Webhooks : hook'[w].status = hook[w].status
      BY <1>1, <2>1, RunFields DEF StoreDelivered, TypeOK, HookRow
    <3> QED BY <3>1 DEF WebhooksStay, Exists
  <2>2. CASE exec[k].pc \in Trying /\ StoreCount(k)
    <3> DEFINE w == exec[k].hook
               row == AfterFailure(hook[w], IsFinalAttempt(k))
    <3>1. w \in Webhooks
      BY <1>1, <2>2, RunFields
    <3>2. row.status \in WebhookStatus /\ hook' = [hook EXCEPT ![w] = row]
      BY <2>2 DEF StoreCount, Exists, AfterFailure, WebhookStatus
    <3> HIDE DEF row, w
    <3> QED BY <3>1, <3>2 DEF WebhooksStay, Exists, TypeOK
  <2>3. UNCHANGED hook \/ (exec[k].pc \in Trying /\ (StoreDelivered(k) \/ StoreCount(k)))
    BY DEF ReadCall, DiscardCall, MarkInProgress, AcquireLock, LockBusy, PostWebhook, SaveFailed,
           ReleaseLock, DbFails, SaveDelivered, CountFailure, ReplyLost, LockFails, Trying
  <2> QED BY <2>1, <2>2, <2>3 DEF WebhooksStay, Exists
<1>4. \A l \in Workers \ {k} : exec'[l] = exec[l]
  <2>1. CASE ReadCall(k) \/ CountFailure(k)
    BY <1>1, <2>1, Points DEF ReadCall, CountFailure
  <2>2. CASE ~ReadCall(k) /\ ~CountFailure(k)
    BY <1>1, <2>2, Points DEF DiscardCall, MarkInProgress, AcquireLock, LockBusy, PostWebhook,
                             SaveDelivered, SaveFailed, ReleaseLock, DbFails, ReplyLost, LockFails
  <2> QED BY <2>1, <2>2
\* The run goes on to t with the row as it is.
<1>5. ASSUME UNCHANGED call, exec'[k].pc # "idle", exec'[k].call = c,
             exec'[k].pc \in Before \cup Within => exec'[k].attempt <= MaxAttempts,
             exec'[k].pc \in (Before \ {"read"}) \cup Within /\ Stored(c) => exec'[k].hook = call[c].hook,
             c \notin Excused => Progress(k)'
      PROVE  Traced'
  <2>1. (Stored(c)' <=> Stored(c)) /\ call'[c] = call[c]
    BY <1>5 DEF Stored
  <2> QED BY <1>0, <1>1, <1>3, <1>4, <1>5, <2>1, RunStepTraced
\* The run ends its attempt with the row as it is.
<1>6. ASSUME UNCHANGED call, NEW o \in Outcomes, Ends(k, o) \/ Leaves(k, o),
             c \notin Excused /\ o = "throw" /\ n < MaxAttempts => Awaits(c, n)
      PROVE  Traced'
  <2>1. exec'[k].pc \in {"release", "finish"} /\ exec'[k].call = c /\ exec'[k].outcome = o
    BY <1>1, <1>6, RunGoes
  <2>2. c \notin Excused /\ o = "throw" /\ n < MaxAttempts => Awaits(c, n)'
    BY <1>1, <1>6 DEF Awaits, Stored, Lossy
  <2>3. c \notin Excused => Progress(k)'
    BY <1>1, <2>1, <2>2 DEF Progress, Before, Within
  <2> QED BY <1>5, <1>6, <2>1, <2>3 DEF Before, Within
\* The run goes on within its attempt.
<1>7. ASSUME UNCHANGED call, exec[k].pc \in Trying \cap Within, NEW t \in Trying \cap Within, GoesTo(k, t)
      PROVE  Traced'
  <2>1. /\ exec'[k].pc = t /\ exec'[k].call = c
        /\ exec'[k].hook = exec[k].hook /\ exec'[k].attempt = exec[k].attempt
    BY <1>1, <1>7, RunGoes
  <2>2. c \notin Excused => Progress(k)'
    <3>1. c \notin Excused => /\ exec[k].attempt = n
                              /\ Stored(c) => call[c].status = "IN_PROGRESS" /\ call[c].attempt = n
      BY <1>2, <1>7 DEF Progress
    <3>2. t \notin Before /\ t \notin {"release", "finish"}
      BY <1>7 DEF Within, Before
    <3>3. job' = job /\ (Stored(c)' <=> Stored(c)) /\ call' = call
      BY <1>1, <1>7 DEF Stored
    <3> QED BY <2>1, <3>1, <3>2, <3>3 DEF Progress
  <2> QED BY <1>2, <1>5, <1>7, <2>1, <2>2 DEF Within
\* The run updates the row and goes on.
<1>8. ASSUME NEW s \in CallStatus, UpdateCall(k, s), exec[k].attempt \in Nat,
             exec[k].attempt <= MaxAttempts,
             exec'[k].pc # "idle", exec'[k].call = c,
             exec'[k].pc \in Before \cup Within => exec'[k].attempt <= MaxAttempts,
             exec'[k].pc \in (Before \ {"read"}) \cup Within => exec'[k].hook = call[c].hook,
             c \notin Excused' => Progress(k)'
      PROVE  Traced'
  <2>1. /\ \A d \in Calls : d # c => call'[d] = call[d]
        /\ Stored(c) /\ Stored(c)'
        /\ call'[c].attempt = exec[k].attempt
        /\ call'[c].hook = call[c].hook
    BY <1>1, <1>8, RowUpdated
  <2> QED BY <1>1, <1>3, <1>4, <1>8, <2>1, RunStepTraced
<1>9. CASE ReadCall(k)
  <2>1. exec[k].pc = "read" /\ UNCHANGED call
    BY <1>9 DEF ReadCall
  <2>2. CASE Stored(c)
    <3>1. /\ exec'[k].pc \in {"mark", "discard"} /\ exec'[k].call = c
          /\ exec'[k].hook = call[c].hook /\ exec'[k].attempt = exec[k].attempt
      BY <1>1, <1>9, <2>2 DEF ReadCall
    <3>2. c \notin Excused => exec[k].attempt = n /\ Awaits(c, n - 1)
      BY <1>2, <2>1 DEF Progress, Before
    <3>3. Awaits(c, n - 1) => Awaits(c, n - 1)'
      BY <1>1, <2>1 DEF Awaits, Stored, Lossy
    <3>4. c \notin Excused => Progress(k)'
      BY <1>1, <3>1, <3>2, <3>3 DEF Progress, Before, Within
    <3> QED BY <1>2, <1>5, <2>1, <3>1, <3>4 DEF Before
  <2>3. CASE ~Stored(c)
    BY <1>6, <1>9, <2>1, <2>3 DEF ReadCall, Awaits, Outcomes
  <2> QED BY <2>2, <2>3
<1>10. CASE RowGone(k) /\ (Ends(k, "throw") \/ Leaves(k, "throw"))
  BY <1>6, <1>10 DEF RowGone, Awaits, Outcomes
<1>11. CASE DiscardCall(k)
  <2>1. CASE UpdateCall(k, "DISCARDED") /\ Ends(k, "return")
    <3>1. exec'[k].pc = "finish" /\ exec'[k].call = c /\ exec'[k].outcome = "return"
      BY <1>1, <2>1, RunGoes
    <3>2. c \notin Excused => Progress(k)'
      BY <3>1 DEF Progress, Before, Within
    <3> QED BY <1>0, <1>2, <1>8, <1>11, <2>1, <3>1, <3>2 DEF Before, Within, CallStatus, DiscardCall
  <2> QED BY <1>10, <1>11, <2>1 DEF DiscardCall
<1>12. CASE MarkInProgress(k)
  <2>1. CASE UpdateCall(k, "IN_PROGRESS") /\ GoesTo(k, "lock")
    <3>1. exec[k].pc = "mark"
      BY <1>12 DEF MarkInProgress
    <3>2. /\ exec'[k].pc = "lock" /\ exec'[k].call = c
          /\ exec'[k].hook = exec[k].hook /\ exec'[k].attempt = exec[k].attempt
      BY <1>1, <2>1, <3>1, RunGoes DEF Trying
    <3>3. /\ Stored(c) /\ call'[c].status = "IN_PROGRESS" /\ call'[c].attempt = exec[k].attempt
      BY <1>1, <2>1, RowUpdated DEF CallStatus
    <3>4. c \notin Excused => exec[k].attempt = n
      BY <1>2, <3>1 DEF Progress, Before
    <3>5. c \notin Excused => Progress(k)'
      BY <1>1, <3>2, <3>3, <3>4 DEF Progress, Before, Within
    <3> QED BY <1>0, <1>2, <1>8, <2>1, <3>1, <3>2, <3>3, <3>5 DEF Before, Within, CallStatus
  <2> QED BY <1>10, <1>12, <2>1 DEF MarkInProgress
<1>13. CASE AcquireLock(k) \/ PostWebhook(k)
  BY <1>7, <1>13 DEF AcquireLock, PostWebhook, Within, Trying
<1>14. CASE LockBusy(k)
  <2>1. CASE Stored(c) /\ call' = [call EXCEPT ![c].status = "PENDING"]
    <3>1. exec[k].pc = "busy" /\ Ends(k, "throw")
      BY <1>14 DEF LockBusy
    <3>2. exec'[k].pc = "finish" /\ exec'[k].call = c /\ exec'[k].outcome = "throw"
      BY <1>1, <3>1, RunGoes
    <3>3. call[c] \in [status : CallStatus, hook : Webhooks, attempt : Nat] /\ call \in [Calls -> Row]
      BY <1>1, <2>1 DEF TypeOK, Row, Stored, NoRow, CallStatus
    <3>4. /\ call'[c].status = "PENDING" /\ call'[c].attempt = call[c].attempt
          /\ call'[c].hook = call[c].hook /\ \A d \in Calls : d # c => call'[d] = call[d]
      BY <1>1, <2>1, <3>3
    <3>5. c \notin Excused => call[c].attempt = n
      BY <1>2, <2>1, <3>1 DEF Progress, Within
    <3>6. c \notin Excused => Progress(k)'
      <4>1. c \notin Excused => Awaits(c, n)'
        BY <3>4, <3>5 DEF Awaits
      <4> QED BY <1>1, <3>2, <4>1 DEF Progress, Before, Within
    <3>7. Stored(c)' /\ call'[c].attempt <= MaxAttempts
      BY <1>2, <2>1, <3>4 DEF Grounded, Stored, CallStatus
    <3>8. exec'[k].pc \notin Before \cup Within
      BY <3>2 DEF Before, Within
    <3> QED BY <1>0, <1>1, <1>3, <1>4, <2>1, <3>2, <3>4, <3>6, <3>7, <3>8, RunStepTraced
  <2> QED BY <1>10, <1>14, <2>1 DEF LockBusy
<1>15. CASE SaveDelivered(k)
  <2>1. CASE StoreDelivered(k) /\ Leaves(k, "return")
    <3>1. exec'[k].pc = "release" /\ exec'[k].call = c /\ exec'[k].outcome = "return"
      BY <1>1, <2>1, RunGoes
    <3>2. c \notin Excused => Progress(k)'
      BY <3>1 DEF Progress, Before, Within
    <3> QED BY <1>0, <1>2, <1>8, <1>15, <2>1, <3>1, <3>2 DEF Before, Within, CallStatus, SaveDelivered, StoreDelivered
  <2>2. CASE RowGone(k) /\ GoesTo(k, "failed")
    BY <1>7, <1>15, <2>2 DEF SaveDelivered, RowGone, Within, Trying
  <2> QED BY <1>15, <2>1, <2>2 DEF SaveDelivered
<1>16. CASE CountFailure(k)
  <2>1. exec[k].pc = "failed" /\ UNCHANGED call
    BY <1>16 DEF CountFailure
  <2>2. CASE Exists(exec[k].hook)
    <3>1. /\ exec'[k].pc = "save" /\ exec'[k].call = c
          /\ exec'[k].hook = exec[k].hook /\ exec'[k].attempt = exec[k].attempt
      BY <1>1, <1>16, <2>2 DEF CountFailure
    <3>2. c \notin Excused => /\ exec[k].attempt = n
                              /\ Stored(c) => call[c].status = "IN_PROGRESS" /\ call[c].attempt = n
      BY <1>2, <2>1 DEF Progress, Within
    <3>3. Stored(c)' <=> Stored(c)
      BY <2>1 DEF Stored
    <3>4. c \notin Excused => Progress(k)'
      BY <1>1, <2>1, <3>1, <3>2, <3>3 DEF Progress, Before, Within
    <3> QED BY <1>2, <1>5, <2>1, <3>1, <3>4 DEF Within
  <2>3. CASE ~Exists(exec[k].hook)
    <3>1. ~Stored(c)
      BY <1>2, <2>1, <2>3 DEF Grounded, Within
    <3> QED BY <1>6, <1>16, <2>1, <2>3, <3>1 DEF CountFailure, StoreCount, Awaits, Outcomes
  <2> QED BY <2>2, <2>3
<1>21. ASSUME exec[k].pc = "save", NEW o \in Outcomes, StoreFailed(k), Leaves(k, o)
       PROVE  Traced'
  <2> DEFINE s == IF IsFinalAttempt(k) THEN "FAILED" ELSE "PENDING"
  <2>1. UpdateCall(k, s)
    BY <1>21 DEF StoreFailed
  <2>2. exec'[k].pc = "release" /\ exec'[k].call = c
    BY <1>1, <1>21, RunGoes
  <2>3. Stored(c) /\ call'[c].status = s /\ call'[c].attempt = exec[k].attempt
    BY <1>1, <2>1, RowUpdated DEF CallStatus
  <2>4. c \notin Excused => exec[k].attempt = n
    BY <1>2, <1>21 DEF Progress, Within
  <2>5. c \notin Excused /\ n < MaxAttempts => Awaits(c, n)'
    BY <1>2, <2>3, <2>4, NumbersAssumption DEF Awaits, IsFinalAttempt
  <2>6. c \notin Excused => Progress(k)'
    BY <1>1, <2>2, <2>5 DEF Progress, Before, Within
  <2> QED BY <1>0, <1>2, <1>8, <1>21, <2>1, <2>2, <2>6 DEF Before, Within, CallStatus
<1>17. CASE SaveFailed(k)
  <2>1. exec[k].pc = "save" /\ exec[k].outcome \in Outcomes
    BY <1>1, <1>17, RunFields DEF SaveFailed
  <2> QED BY <1>10, <1>17, <1>21, <2>1 DEF SaveFailed
<1>18. CASE ReleaseLock(k)
  <2>1. exec[k].pc = "release" /\ UNCHANGED call /\ Ends(k, exec[k].outcome)
    BY <1>18 DEF ReleaseLock
  <2>2. exec[k].outcome \in Outcomes
    BY <1>1, <2>1, RunFields
  <2>3. c \notin Excused /\ exec[k].outcome = "throw" /\ n < MaxAttempts => Awaits(c, n)
    BY <1>2, <2>1 DEF Progress
  <2> QED BY <1>6, <2>1, <2>2, <2>3
<1>19. CASE DbFails(k)
  <2>1. Lossy /\ UNCHANGED call
    BY <1>19 DEF DbFails, Lossy
  <2>2. CASE exec[k].pc \in {"read", "discard", "mark"} /\ Ends(k, "throw")
    <3>1. c \notin Excused => Awaits(c, n - 1)
      BY <1>2, <2>2 DEF Progress, Before
    <3>2. Awaits(c, n - 1) => Awaits(c, n)
      <4>1. Stored(c) => call[c].attempt \in Nat
        BY <1>1 DEF TypeOK, Row, Stored, NoRow, CallStatus
      <4> QED BY <1>2, <2>1, <4>1 DEF Awaits
    <3> QED BY <1>6, <2>1, <2>2, <3>1, <3>2 DEF Outcomes
  <2>3. CASE /\ exec[k].pc \in {"busy", "failed", "save"}
             /\ Ends(k, "throw") \/ Leaves(k, "throw")
    <3>1. c \notin Excused => Awaits(c, n)
      BY <1>2, <2>1, <2>3 DEF Progress, Within, Awaits
    <3> QED BY <1>6, <2>1, <2>3, <3>1 DEF Outcomes
  <2>4. CASE exec[k].pc = "delivered" /\ GoesTo(k, "failed")
    BY <1>7, <2>1, <2>4 DEF Within, Trying
  <2> QED BY <1>19, <2>2, <2>3, <2>4 DEF DbFails
<1>20. CASE ReplyLost(k)
  <2>1. Lossy
    BY <1>20 DEF ReplyLost, Lossy
  \* A DISCARDED or DELIVERED that nobody heard of: the call is excused from now on.
  <2>2. ASSUME NEW s \in {"DISCARDED", "DELIVERED"}, exec[k].pc \in {"discard", "delivered"},
               UpdateCall(k, s), NotesUnheard(k), Ends(k, "throw") \/ GoesTo(k, "failed")
        PROVE  Traced'
    <3>1. c \in Excused'
      BY <1>1, <2>2 DEF Excused, NotesUnheard
    <3>2. /\ exec'[k].pc \in {"finish", "failed"} /\ exec'[k].call = c
          /\ exec'[k].pc = "failed" =>
                exec'[k].hook = exec[k].hook /\ exec'[k].attempt = exec[k].attempt
      BY <1>1, <2>2, RunGoes DEF Trying
    <3>3. Stored(c)
      BY <2>2 DEF UpdateCall
    <3> QED BY <1>2, <1>8, <2>2, <3>1, <3>2, <3>3 DEF Before, Within, CallStatus
  <2>3. CASE exec[k].pc = "mark" /\ UpdateCall(k, "IN_PROGRESS") /\ Ends(k, "throw")
    <3>1. exec'[k].pc = "finish" /\ exec'[k].call = c
      BY <1>1, <2>3, RunGoes
    <3>2. Stored(c) /\ call'[c].status = "IN_PROGRESS" /\ call'[c].attempt = exec[k].attempt
      BY <1>1, <2>3, RowUpdated DEF CallStatus
    <3>3. c \notin Excused => Awaits(c, n)'
      BY <1>1, <1>2, <2>1, <2>3, <3>2 DEF Awaits, Progress, Before, Lossy
    <3>4. c \notin Excused => Progress(k)'
      BY <1>1, <3>1, <3>3 DEF Progress, Before, Within
    <3> QED BY <1>0, <1>2, <1>8, <2>3, <3>1, <3>4 DEF Before, Within, CallStatus
  <2>4. CASE exec[k].pc = "failed" /\ Leaves(k, "throw") /\ UNCHANGED call
    <3>1. c \notin Excused => Awaits(c, n)
      BY <1>2, <2>1, <2>4 DEF Progress, Within, Awaits
    <3> QED BY <1>6, <2>4, <3>1 DEF Outcomes
  <2>5. CASE exec[k].pc = "save" /\ StoreFailed(k) /\ Leaves(k, "throw")
    BY <1>21, <2>5 DEF Outcomes, StoreFailed
  <2> QED BY <1>20, <2>2, <2>3, <2>4, <2>5 DEF ReplyLost, StoreDelivered
<1>22. CASE LockFails(k)
  <2>1. exec[k].pc = "lock" /\ UNCHANGED call /\ Lossy
    BY <1>22 DEF LockFails, Lossy
  <2>2. CASE Ends(k, "throw")
    <3>1. c \notin Excused => Awaits(c, n)
      BY <1>2, <2>1 DEF Progress, Within, Awaits
    <3> QED BY <1>6, <2>1, <2>2, <3>1 DEF Outcomes
  <2>3. CASE GoesTo(k, "busy")
    BY <1>7, <2>1, <2>3 DEF Within, Trying
  <2> QED BY <1>22, <2>2, <2>3 DEF LockFails
<1> QED BY <1>9, <1>11, <1>12, <1>13, <1>14, <1>15, <1>16, <1>17, <1>18, <1>19, <1>20, <1>22

LEMMA FinishTraced ==
    ASSUME TypeOK, RunnerOwnsJob, Traced, NEW k \in Workers, FinishJob(k), UNCHANGED mix,
           NEW c, c = exec[k].call
    PROVE  Traced'
<1>1. /\ exec[k].pc = "finish" /\ exec \in [Workers -> Run] /\ job \in [Calls -> Job]
      /\ UNCHANGED <<hook, call, prod, created, retries, unlocked, unheard, mix>>
  BY DEF FinishJob, TypeOK
<1>2. /\ c \in Calls /\ Grounded(c) /\ job[c].made \in Nat
      /\ c \notin Excused => Progress(k) /\ job[c].state = "active" /\ job[c].owner = k
  BY <1>1, RunKnows
<1>3. exec'[k].pc = "idle" /\ \A l \in Workers \ {k} : exec'[l] = exec[l]
  BY <1>1 DEF FinishJob, IdleRun
<1>4. \A d \in Calls : d # c => job'[d] = job[d]
  BY <1>1 DEF FinishJob
<1>5. WebhooksStay /\ Excused' = Excused
  BY <1>1 DEF WebhooksStay, Exists, Excused
<1>6. \A d \in Calls : d # c => Apart(d)
  BY <1>1, <1>3, <1>4, <1>5 DEF Apart, Running
<1>7. CASE ~(job[c].state = "active" /\ job[c].owner = k)
  <2>1. job' = job
    BY <1>7 DEF FinishJob
  <2>2. Apart(c)
    BY <1>1, <1>3, <1>5, <2>1 DEF Apart, Running
  <2> QED BY <1>1, <1>5, <1>6, <2>2, TraceNone
<1>8. CASE job[c].state = "active" /\ job[c].owner = k
  <2>1. job'[c] = AfterRun(job[c], exec[k].outcome)
    BY <1>1, <1>2, <1>8 DEF FinishJob
  <2>2. exec[k].outcome \in Outcomes
    BY <1>1, RunFields
  <2>3. \/ exec[k].outcome = "return" /\ job'[c] = NoJob
        \/ /\ exec[k].outcome = "throw"
           /\ job'[c].made = job[c].made + 1 /\ job'[c].owner = Nobody
           /\ job'[c].state = IF job[c].made + 1 < MaxAttempts THEN "waiting" ELSE "failed"
    <3>1. job[c] \in Job
      BY <1>1, <1>2
    <3> QED BY <2>1, <2>2, <3>1 DEF AfterRun, Outcomes, Job
  <2>4. \A l \in Workers : Running(l, c)' => l # k /\ Running(l, c) /\ exec'[l] = exec[l]
    BY <1>3 DEF Running
  <2>5. Stored(c)' <=> Stored(c)
    BY <1>1 DEF Stored
  <2>6. call[c].status # "none" /\ call'[c].status # "none"
    <3>1. Running(k, c)
      BY <1>1 DEF Running
    <3> QED BY <1>1, <1>2, <3>1 DEF Grounded
  <2>7. Grounded(c)'
    <3>1. (Stored(c) => Exists(call[c].hook) /\ call[c].attempt <= MaxAttempts)'
      BY <1>1, <1>2, <2>5 DEF Grounded, Exists
    <3>2. (job[c].state = "none" => job[c].made = 0)' /\ (job[c].state # "failed" => job[c].made < MaxAttempts)'
      BY <1>2, <2>3, NumbersAssumption DEF NoJob
    <3>3. ASSUME NEW l \in Workers, Running(l, c)'
          PROVE  /\ exec'[l].pc \in Before \cup Within => exec'[l].attempt <= MaxAttempts
                 /\ exec'[l].pc \in (Before \ {"read"}) \cup Within /\ Stored(c)'
                       => exec'[l].hook = call'[c].hook
      BY <1>1, <1>2, <2>4, <2>5, <3>3 DEF Grounded
    <3> QED BY <2>6, <3>1, <3>2, <3>3 DEF Grounded
  <2>8. ASSUME c \notin Excused PROVE Ordered(c)'
    <3>1. \A l \in Workers : ~Running(l, c)'
      BY <1>2, <2>4, <2>8 DEF RunnerOwnsJob, Excused
    <3>2. \A p \in Producers : ~(prod[p].pc = "enqueue" /\ prod[p].call = c)
      <4>1. Running(k, c)
        BY <1>1 DEF Running
      <4> QED BY <1>2, <2>8, <4>1 DEF Traced, Ordered, BeingEnqueued
    <3>3. ~Disowned(c)' /\ ~BeingEnqueued(c)'
      BY <1>1, <2>3, <3>2 DEF Disowned, BeingEnqueued, NoJob
    <3>4. (job[c].state = "waiting" => Awaits(c, job[c].made))'
      <4>1. ASSUME job'[c].state = "waiting" PROVE Awaits(c, job[c].made)'
        <5>1. exec[k].outcome = "throw" /\ job[c].made + 1 < MaxAttempts
              /\ job'[c].made = job[c].made + 1
          BY <2>3, <4>1 DEF NoJob
        <5>2. Awaits(c, job[c].made + 1)
          BY <1>1, <1>2, <2>8, <5>1 DEF Progress
        <5> QED BY <1>1, <2>5, <5>1, <5>2 DEF Awaits, Lossy
      <4> QED BY <4>1
    <3> QED BY <1>1, <3>1, <3>2, <3>3, <3>4 DEF Ordered
  <2>9. Traceable(c)'
    BY <1>5, <2>7, <2>8 DEF Traceable
  <2>10. created' = created /\ created \in Nat /\ ~(c > created)
    BY <1>1, <1>2, <2>6 DEF TypeOK, Traced
  <2> QED BY <1>1, <1>5, <1>6, <2>9, <2>10, TraceOne
<1> QED BY <1>7, <1>8

LEMMA FetchTraced ==
    ASSUME TypeOK, RunnerOwnsJob, Traced, NEW k \in Workers, NEW c \in Calls, Fetch(k, c),
           UNCHANGED mix
    PROVE  Traced'
<1>1. /\ exec \in [Workers -> Run] /\ job[c] \in Job /\ job \in [Calls -> Job]
      /\ exec[k].pc = "idle" /\ job[c].state = "waiting"
      /\ UNCHANGED <<hook, call, prod, created, retries, unlocked, unheard, mix>>
  BY DEF Fetch, TypeOK
<1>2. /\ exec'[k].pc = "read" /\ exec'[k].call = c /\ exec'[k].attempt = job[c].made + 1
      /\ \A l \in Workers \ {k} : exec'[l] = exec[l]
  BY <1>1 DEF Fetch
<1>3. /\ job'[c].state = "active" /\ job'[c].owner = k /\ job'[c].made = job[c].made
      /\ \A d \in Calls : d # c => job'[d] = job[d]
  BY <1>1 DEF Fetch, Job
<1>4. WebhooksStay /\ Excused' = Excused
  BY <1>1 DEF WebhooksStay, Exists, Excused
<1>5. \A d \in Calls : d # c => Apart(d)
  BY <1>1, <1>2, <1>3, <1>4 DEF Apart, Running
<1>6. Grounded(c) /\ (c \notin Excused => Ordered(c)) /\ job[c].made \in Nat
  BY <1>1 DEF Traced, Job
<1>7. Stored(c)' <=> Stored(c)
  BY <1>1 DEF Stored
<1>8. call[c].status # "none" /\ call'[c].status # "none"
  BY <1>1, <1>6 DEF Grounded
<1>9. Grounded(c)'
  <2>1. (Stored(c) => Exists(call[c].hook) /\ call[c].attempt <= MaxAttempts)'
    BY <1>1, <1>6, <1>7 DEF Grounded, Exists
  <2>2. (job[c].state = "none" => job[c].made = 0)' /\ (job[c].state # "failed" => job[c].made < MaxAttempts)'
    BY <1>1, <1>3, <1>6 DEF Grounded
  <2>3. ASSUME NEW l \in Workers, Running(l, c)'
        PROVE  /\ exec'[l].pc \in Before \cup Within => exec'[l].attempt <= MaxAttempts
               /\ exec'[l].pc \in (Before \ {"read"}) \cup Within /\ Stored(c)'
                     => exec'[l].hook = call'[c].hook
    <3>1. CASE l = k
      BY <1>1, <1>2, <1>6, <3>1, NumbersAssumption DEF Grounded, Before, Within
    <3>2. CASE l # k
      <4>1. exec'[l] = exec[l] /\ Running(l, c)
        BY <1>2, <2>3, <3>2 DEF Running
      <4> QED BY <1>1, <1>6, <1>7, <4>1 DEF Grounded
    <3> QED BY <3>1, <3>2
  <2> QED BY <1>8, <2>1, <2>2, <2>3 DEF Grounded
<1>10. ASSUME c \notin Excused PROVE Ordered(c)'
  <2>1. \A l \in Workers : Running(l, c)' => l = k
    BY <1>1, <1>2, <1>10 DEF RunnerOwnsJob, Excused, Running
  <2>2. \A p \in Producers : ~(prod[p].pc = "enqueue" /\ prod[p].call = c)
    BY <1>1, <1>6, <1>10 DEF Ordered, BeingEnqueued
  <2>3. ~Disowned(c)' /\ ~BeingEnqueued(c)'
    BY <1>1, <1>3, <2>2, NobodyAssumption DEF Disowned, BeingEnqueued
  <2>4. Progress(k)'
    <3>1. Awaits(c, job[c].made)
      BY <1>1, <1>6, <1>10 DEF Ordered
    <3>2. PICK n : n = job[c].made + 1
      OBVIOUS
    <3>3. Awaits(c, n - 1)
      BY <1>6, <3>1, <3>2
    <3>4. Awaits(c, n - 1)'
      BY <1>1, <1>7, <3>3 DEF Awaits, Lossy
    <3>5. job'[c].made + 1 = n /\ exec'[k].attempt = n
      BY <1>2, <1>3, <3>2
    <3> QED BY <1>2, <3>4, <3>5 DEF Progress, Before, Within
  <2> QED BY <1>1, <1>3, <2>1, <2>2, <2>3, <2>4 DEF Ordered
<1>11. Traceable(c)'
  BY <1>4, <1>9, <1>10 DEF Traceable
<1>12. created' = created /\ created \in Nat /\ ~(c > created)
  BY <1>1, <1>8 DEF TypeOK, Traced
<1> QED BY <1>1, <1>4, <1>5, <1>11, <1>12, TraceOne

LEMMA ProducerTraced ==
    ASSUME TypeOK, Traced, NEW p \in Producers, Request(p) \/ ProducerStep(p) \/ ProducerFails(p),
           UNCHANGED mix
    PROVE  Traced'
<1>1. prod \in [Producers -> Handler] /\ created \in Nat
  BY DEF TypeOK
\* The handler moves, and adds no job.
<1>2. ASSUME UNCHANGED <<call, job, exec, created, retries, unlocked, unheard>>, WebhooksStay,
             prod'[p].pc # "enqueue", \A q \in Producers \ {p} : prod'[q] = prod[q]
      PROVE  Traced'
  <2>1. \A d \in Calls : Apart(d)
    BY <1>2 DEF Apart, Excused, Running
  <2> QED BY <1>2, <2>1, TraceNone
<1>3. UNCHANGED hook => WebhooksStay
  BY DEF WebhooksStay, Exists
<1>4. CASE EmitRead(p)
  BY <1>1, <1>2, <1>3, <1>4 DEF EmitRead
<1>5. ASSUME NEW w \in Webhooks, TestWebhook(p, w) PROVE Traced'
  BY <1>1, <1>2, <1>3, <1>5 DEF TestWebhook
<1>6. ASSUME NEW w \in Webhooks, NEW s \in WebhookStatus, SetStatusRead(p, w, s) PROVE Traced'
  BY <1>1, <1>2, <1>3, <1>6 DEF SetStatusRead
<1>7. CASE SetStatusWrite(p)
  <2>1. prod[p].hook \in Webhooks /\ prod[p].status \in WebhookStatus
    BY <1>7 DEF SetStatusWrite, TypeOK, Handler
  <2>2. WebhooksStay
    <3>1. CASE Exists(prod[p].hook)
      <4>1. \E n : hook' = [hook EXCEPT ![prod[p].hook] = [status |-> prod[p].status, failures |-> n]]
        BY <1>7, <3>1 DEF SetStatusWrite
      <4> QED BY <2>1, <4>1 DEF WebhooksStay, Exists, TypeOK
    <3>2. CASE ~Exists(prod[p].hook)
      BY <1>3, <1>7, <3>2 DEF SetStatusWrite
    <3> QED BY <3>1, <3>2
  <2>3. prod'[p].pc = "idle" /\ \A q \in Producers \ {p} : prod'[q] = prod[q]
    BY <1>1, <1>7 DEF SetStatusWrite, IdleRun
  <2> QED BY <1>2, <1>7, <2>2, <2>3 DEF SetStatusWrite
<1>8. CASE ProducerFails(p)
  BY <1>1, <1>2, <1>3, <1>8 DEF ProducerFails, IdleRun
<1>9. ASSUME NEW w \in Webhooks, CreateCall(p, w) PROVE Traced'
  <2>1. CASE ~Exists(w)
    BY <1>1, <1>2, <1>3, <1>9, <2>1 DEF CreateCall, IdleRun
  <2>2. CASE Exists(w)
    <3>0. PICK c : c = created + 1
      OBVIOUS
    <3>1. /\ c \in Calls /\ c \in Nat /\ call[c].status = "none" /\ Grounded(c)
      BY <1>1, <1>9, <2>2, <3>0, NumbersAssumption DEF CreateCall, MayCreate, Calls, Traced
    <3>2. /\ created' = c /\ UNCHANGED <<hook, job, exec, retries, unlocked, unheard>>
          /\ call' = [call EXCEPT ![c] = [status |-> "PENDING", hook |-> w, attempt |-> 0]]
          /\ prod' = [prod EXCEPT ![p] = [pc |-> "enqueue", call |-> c, hooks |-> prod[p].hooks \ {w}]]
      BY <1>9, <2>2, <3>0 DEF CreateCall
    <3>3. prod'[p].pc = "enqueue" /\ prod'[p].call = c /\ \A q \in Producers \ {p} : prod'[q] = prod[q]
      BY <1>1, <3>2
    <3>4. /\ call'[c].status = "PENDING" /\ call'[c].hook = w /\ call'[c].attempt = 0
          /\ \A d \in Calls : d # c => call'[d] = call[d]
      BY <3>1, <3>2 DEF TypeOK
    <3>5. \A d \in Calls : d # c => Apart(d)
      BY <3>2, <3>3, <3>4 DEF Apart, Excused, Running
    <3>6. /\ job[c].state = "none" /\ ~BeingEnqueued(c) /\ \A k \in Workers : ~Running(k, c)
          /\ job[c].made = 0
      BY <3>1 DEF Grounded
    <3>7. \A q \in Producers : prod'[q].pc = "enqueue" /\ prod'[q].call = c => q = p
      BY <3>3, <3>6 DEF BeingEnqueued
    <3>8. \A k \in Workers : ~Running(k, c)'
      BY <3>2, <3>6 DEF Running
    <3>9. Grounded(c)'
      <4>1. (Stored(c) => Exists(call[c].hook) /\ call[c].attempt <= MaxAttempts)'
        BY <2>2, <3>2, <3>4, NumbersAssumption DEF Exists
      <4> QED BY <3>2, <3>4, <3>6, <3>8, <4>1, NumbersAssumption DEF Grounded
    <3>10. Ordered(c)'
      <4>1. ~Disowned(c)' /\ job'[c].state = "none"
        BY <3>2, <3>6 DEF Disowned
      <4> QED BY <3>4, <3>7, <3>8, <4>1 DEF Ordered
    <3>11. Traceable(c)'
      BY <3>9, <3>10 DEF Traceable
    <3> QED BY <1>1, <1>3, <3>0, <3>1, <3>2, <3>5, <3>11, TraceOne
  <2> QED BY <2>1, <2>2
<1>10. ASSUME NEW c \in Calls, RetryCall(p, c) PROVE Traced'
  <2>1. /\ Stored(c) /\ UNCHANGED <<hook, job, exec, created, unlocked, unheard>>
        /\ retries' = [retries EXCEPT ![c] = @ + 1]
        /\ call' = [call EXCEPT ![c].status = "PENDING", ![c].attempt = 0]
        /\ prod' = [prod EXCEPT ![p] = [pc |-> "enqueue", call |-> c, hooks |-> {}]]
    BY <1>10 DEF RetryCall
  <2>2. /\ call[c] \in [status : CallStatus, hook : Webhooks, attempt : Nat]
        /\ call \in [Calls -> Row] /\ retries[c] \in Nat /\ retries \in [Calls -> 0..MaxRetries]
    BY <2>1, NumbersAssumption DEF TypeOK, Row, Stored, NoRow, CallStatus
  <2>3. /\ call'[c].status = "PENDING" /\ call'[c].attempt = 0 /\ call'[c].hook = call[c].hook
        /\ \A d \in Calls : d # c => call'[d] = call[d]
    BY <2>1, <2>2
  <2>4. Excused' = Excused \cup {c}
    BY <2>1, <2>2 DEF Excused
  <2>5. \A d \in Calls : d # c => Apart(d)
    <3>1. prod'[p].call = c /\ \A q \in Producers \ {p} : prod'[q] = prod[q]
      BY <1>1, <2>1
    <3> QED BY <2>1, <2>3, <2>4, <3>1 DEF Apart, Running
  <2>6. Grounded(c)'
    <3>1. Grounded(c)
      BY DEF Traced
    <3>2. (Stored(c) => Exists(call[c].hook) /\ call[c].attempt <= MaxAttempts)'
      BY <2>1, <2>3, <3>1, NumbersAssumption DEF Grounded, Exists
    <3>3. \A k \in Workers : Running(k, c)' <=> Running(k, c)
      BY <2>1 DEF Running
    <3> QED BY <2>1, <2>3, <3>1, <3>2, <3>3 DEF Grounded
  <2>7. Traceable(c)'
    BY <2>4, <2>6 DEF Traceable
  <2>8. ~(c > created)
    BY <2>1 DEF Traced, Stored, CallStatus
  <2> QED BY <1>1, <1>3, <2>1, <2>5, <2>7, <2>8, TraceOne
<1>11. CASE EnqueueCall(p)
  <2>0. PICK c : c = prod[p].call
    OBVIOUS
  <2>1. c \in Calls /\ prod[p].pc = "enqueue" /\ BeingEnqueued(c)
    BY <1>11, <2>0 DEF EnqueueCall, TypeOK, Handler, BeingEnqueued
  <2>2. /\ UNCHANGED <<hook, call, exec, created, retries, unlocked, unheard>>
        /\ job' = IF job[c].state = "none" THEN [job EXCEPT ![c].state = "waiting"] ELSE job
    BY <1>11, <2>0 DEF EnqueueCall, AddJob
  <2>3. prod'[p].pc # "enqueue" /\ \A q \in Producers \ {p} : prod'[q] = prod[q]
    BY <1>1, <1>11 DEF EnqueueCall, IdleRun
  <2>4. /\ job[c].state = "none" => /\ job'[c].state = "waiting"
                                    /\ job'[c].made = job[c].made /\ job'[c].owner = job[c].owner
        /\ job[c].state # "none" => job'[c] = job[c]
        /\ \A d \in Calls : d # c => job'[d] = job[d]
    BY <2>1, <2>2 DEF TypeOK, Job
  <2>5. Excused' = Excused /\ WebhooksStay
    BY <1>3, <2>2 DEF Excused
  <2>6. \A d \in Calls : d # c => Apart(d)
    BY <2>2, <2>3, <2>4, <2>5 DEF Apart, Running
  <2>7. Grounded(c) /\ (c \notin Excused => Ordered(c)) /\ call[c].status # "none"
    BY <2>1 DEF Traced, Grounded
  <2>8. (Stored(c)' <=> Stored(c)) /\ \A k \in Workers : Running(k, c)' <=> Running(k, c)
    BY <2>2 DEF Stored, Running
  <2>9. Grounded(c)'
    <3>1. (Stored(c) => Exists(call[c].hook) /\ call[c].attempt <= MaxAttempts)'
      BY <2>2, <2>7, <2>8 DEF Grounded, Exists
    <3>2. (job[c].state = "none" => job[c].made = 0)' /\ (job[c].state # "failed" => job[c].made < MaxAttempts)'
      BY <2>4, <2>7, NumbersAssumption DEF Grounded
    <3> QED BY <2>2, <2>7, <2>8, <3>1, <3>2 DEF Grounded
  <2>10. ASSUME c \notin Excused PROVE Ordered(c)'
    <3>1. /\ job[c].state = "none" /\ job[c].made = 0 /\ \A k \in Workers : ~Running(k, c)
          /\ Stored(c) => call[c].status = "PENDING" /\ call[c].attempt = 0
      BY <2>1, <2>7, <2>10 DEF Ordered, Grounded
    <3>2. \A q \in Producers : ~(prod'[q].pc = "enqueue" /\ prod'[q].call = c)
      BY <2>0, <2>1, <2>3, <2>7, <2>10 DEF Ordered
    <3>3. ~BeingEnqueued(c)' /\ ~Disowned(c)'
      BY <2>4, <3>1, <3>2 DEF BeingEnqueued, Disowned
    <3>4. (Awaits(c, job[c].made))'
      BY <2>2, <2>4, <2>8, <3>1 DEF Awaits
    <3> QED BY <2>8, <3>1, <3>2, <3>3, <3>4 DEF Ordered
  <2>11. Traceable(c)'
    BY <2>5, <2>9, <2>10 DEF Traceable
  <2>12. ~(c > created)
    BY <2>1, <2>7 DEF Traced
  <2> QED BY <1>1, <2>1, <2>2, <2>5, <2>6, <2>11, <2>12, TraceOne
<1> QED BY <1>4, <1>5, <1>6, <1>7, <1>8, <1>9, <1>10, <1>11 DEF Request, ProducerStep

\* The slot loses its job, which is then excused, and its run ends or goes on.
LEMMA DisownTraced ==
    ASSUME TypeOK, Traced, NEW k \in Workers, WorkerCrashes(k) \/ JobLockLost(k),
           UNCHANGED mix, NEW c, c = exec[k].call
    PROVE  /\ Traced'
           /\ UNCHANGED <<call, retries, unheard>> /\ c \in Calls
           /\ unlocked' = unlocked \/ unlocked' = unlocked \cup {c}
<1>1. /\ exec \in [Workers -> Run] /\ exec[k].pc # "idle" /\ c \in Calls /\ created \in Nat
      /\ job \in [Calls -> Job] /\ Disown(k)
      /\ UNCHANGED <<hook, call, prod, created, retries, unheard, mix>>
  BY RunFields DEF WorkerCrashes, JobLockLost, TypeOK
<1>2. \A l \in Workers : exec'[l] = exec[l] \/ exec'[l].pc = "idle"
  BY <1>1 DEF WorkerCrashes, JobLockLost, IdleRun
<1>3. \A d \in Calls, l \in Workers : Running(l, d)' => Running(l, d) /\ exec'[l] = exec[l]
  BY <1>2 DEF Running
<1>4. WebhooksStay
  BY <1>1 DEF WebhooksStay, Exists
<1>5. Running(k, c) /\ Grounded(c) /\ call[c].status # "none"
  BY <1>1 DEF Traced, Grounded, Running
<1>6. CASE ~(job[c].state = "active" /\ job[c].owner = k)
  <2>1. job' = job /\ unlocked' = unlocked
    BY <1>1, <1>6 DEF Disown
  <2>2. \A d \in Calls : Apart(d)
    BY <1>1, <1>3, <2>1 DEF Apart, Excused
  <2> QED BY <1>1, <1>4, <2>1, <2>2, TraceNone
<1>7. CASE job[c].state = "active" /\ job[c].owner = k
  <2>1. job' = [job EXCEPT ![c].owner = Nobody] /\ unlocked' = unlocked \cup {c}
    BY <1>1, <1>7 DEF Disown
  <2>2. /\ job'[c].state = job[c].state /\ job'[c].made = job[c].made
        /\ \A d \in Calls : d # c => job'[d] = job[d]
    BY <1>1, <2>1 DEF Job
  <2>3. \A d \in Calls : d # c => Apart(d)
    BY <1>1, <1>3, <2>1, <2>2 DEF Apart, Excused
  <2>4. Grounded(c)'
    <3>1. (Stored(c) => Exists(call[c].hook) /\ call[c].attempt <= MaxAttempts)'
      BY <1>1, <1>5 DEF Grounded, Exists, Stored
    <3>2. ASSUME NEW l \in Workers, Running(l, c)'
          PROVE  /\ exec'[l].pc \in Before \cup Within => exec'[l].attempt <= MaxAttempts
                 /\ exec'[l].pc \in (Before \ {"read"}) \cup Within /\ Stored(c)'
                       => exec'[l].hook = call'[c].hook
      <4>1. Running(l, c) /\ exec'[l] = exec[l]
        BY <1>1, <1>3, <3>2
      <4> QED BY <1>1, <1>5, <4>1 DEF Grounded, Stored
    <3>3. call'[c].status # "none"
      BY <1>1, <1>5
    <3> QED BY <1>5, <2>2, <3>1, <3>2, <3>3 DEF Grounded
  <2>5. Traceable(c)'
    BY <1>1, <2>1, <2>4 DEF Traceable, Excused
  <2>6. ~(c > created)
    BY <1>1, <1>5 DEF Traced
  <2> QED BY <1>1, <1>4, <2>1, <2>3, <2>5, <2>6, TraceOne
<1> QED BY <1>6, <1>7

\* Rows are deleted: what is left of the others needs their webhooks.
LEMMA DeleteTraced ==
    ASSUME TypeOK, Traced, NEW C \in SUBSET Calls, \A c \in C : Stored(c),
           call' = [c \in Calls |-> IF c \in C THEN [status |-> "deleted"] ELSE call[c]],
           \A c \in Calls \ C : Stored(c) => hook'[call[c].hook].status \in WebhookStatus,
           UNCHANGED <<job, exec, prod, created, retries, unlocked, unheard, mix>>
    PROVE  Traced'
<1>1. ASSUME NEW d \in Calls PROVE Traceable(d)'
  <2>1. Stored(d)' => Stored(d) /\ call'[d] = call[d] /\ d \notin C
    BY DEF Stored, CallStatus
  <2>2. call'[d].status = "none" => call[d].status = "none"
    OBVIOUS
  <2>3. /\ \A l \in Workers : Running(l, d)' <=> Running(l, d)
        /\ BeingEnqueued(d)' <=> BeingEnqueued(d)
        /\ Disowned(d)' <=> Disowned(d)
    BY DEF Running, BeingEnqueued, Disowned
  <2>4. Grounded(d)'
    <3>1. Grounded(d)
      BY DEF Traced
    <3>2. (Stored(d) => Exists(call[d].hook) /\ call[d].attempt <= MaxAttempts)'
      BY <2>1, <3>1 DEF Grounded, Exists
    <3> QED BY <2>1, <2>2, <2>3, <3>1, <3>2 DEF Grounded
  <2>5. ASSUME d \notin Excused, Ordered(d) PROVE Ordered(d)'
    <3>1. \A n : Awaits(d, n) => Awaits(d, n)'
      BY <2>1 DEF Awaits, Lossy
    <3>2. ASSUME NEW l \in Workers, Running(l, d)' PROVE Progress(l)'
      <4>1. exec[l].call = d /\ Progress(l)
        BY <2>3, <2>5, <3>2 DEF Ordered, Running
      <4> QED BY <2>1, <3>1, <4>1 DEF Progress
    <3>3. job[d].state = "waiting" => Awaits(d, job[d].made)'
      BY <2>5, <3>1 DEF Ordered
    <3>4. BeingEnqueued(d)' =>
             /\ job[d].state = "none" /\ \A l \in Workers : ~Running(l, d)'
             /\ Stored(d)' => call'[d].status = "PENDING" /\ call'[d].attempt = 0
      BY <2>1, <2>3, <2>5 DEF Ordered
    <3> QED BY <2>3, <2>5, <3>2, <3>3, <3>4 DEF Ordered
  <2>6. Excused' = Excused /\ (d \notin Excused => Ordered(d))
    BY DEF Excused, Traced
  <2> QED BY <2>4, <2>5, <2>6 DEF Traceable
<1>2. \A d \in Calls : d > created' => call'[d].status = "none"
  BY DEF Traced, Stored, CallStatus
<1> QED BY <1>1, <1>2 DEF Traced, Traceable

LEMMA StalledTraced ==
    ASSUME TypeOK, RunnerOwnsJob, Traced, NEW c \in Calls, RecoverStalled(c) \/ FailedJobAges(c),
           UNCHANGED mix
    PROVE  Traced'
<1>1. /\ job \in [Calls -> Job] /\ job[c] \in Job /\ created \in Nat
      /\ UNCHANGED <<hook, call, exec, prod, created, retries, unlocked, unheard, mix>>
      /\ \A d \in Calls : d # c => job'[d] = job[d]
  BY DEF RecoverStalled, FailedJobAges, TypeOK
<1>2. job[c].state # "none" /\ Grounded(c) /\ (c \notin Excused => Ordered(c))
  BY DEF RecoverStalled, FailedJobAges, Disowned, Traced
<1>3. WebhooksStay /\ Excused' = Excused
  BY <1>1 DEF WebhooksStay, Exists, Excused
<1>4. \A d \in Calls : d # c => Apart(d)
  BY <1>1, <1>3 DEF Apart, Running
<1>5. /\ \A l \in Workers : Running(l, c)' <=> Running(l, c)
      /\ BeingEnqueued(c)' <=> BeingEnqueued(c)
      /\ Stored(c)' <=> Stored(c)
  BY <1>1 DEF Running, BeingEnqueued, Stored
<1>6. /\ job'[c].state = "none" => job'[c].made = 0
      /\ job'[c].state # "failed" => job'[c].made < MaxAttempts
  <2>1. CASE RecoverStalled(c)
    <3>1. job[c].state = "active" /\ job'[c].made = job[c].made /\ job'[c].state \in {"waiting", "failed"}
      BY <1>1, <2>1 DEF RecoverStalled, Disowned, Job
    <3> QED BY <1>2, <3>1 DEF Grounded
  <2>2. CASE FailedJobAges(c)
    BY <1>1, <2>2, NumbersAssumption DEF FailedJobAges, NoJob
  <2> QED BY <2>1, <2>2
<1>7. Grounded(c)'
  <2>1. (Stored(c) => Exists(call[c].hook) /\ call[c].attempt <= MaxAttempts)'
    BY <1>1, <1>2, <1>5 DEF Grounded, Exists
  <2> QED BY <1>1, <1>2, <1>5, <1>6, <2>1 DEF Grounded
<1>8. ASSUME c \notin Excused PROVE Ordered(c)'
  <2>1. FailedJobAges(c) /\ job[c].state = "failed"
    BY <1>2, <1>8 DEF RecoverStalled, FailedJobAges, Ordered
  <2>2. ~BeingEnqueued(c) /\ \A l \in Workers : ~Running(l, c)
    BY <1>2, <1>8, <2>1 DEF Ordered, RunnerOwnsJob, Excused
  <2>3. job'[c].state = "none"
    BY <1>1, <2>1 DEF FailedJobAges, NoJob
  <2>4. \A p \in Producers : ~(prod'[p].pc = "enqueue" /\ prod'[p].call = c)
    BY <1>1, <2>2 DEF BeingEnqueued
  <2> QED BY <1>5, <2>2, <2>3, <2>4 DEF Ordered, Disowned
<1>9. Traceable(c)'
  BY <1>3, <1>7, <1>8 DEF Traceable
<1>10. ~(c > created)
  BY <1>1, <1>2 DEF Traced, Grounded
<1> QED BY <1>1, <1>3, <1>4, <1>9, <1>10, TraceOne

\* The set of calls a deletion takes, by their webhook or by their age.
LEMMA DeletionIs ==
    ASSUME TypeOK, Traced,
           (\E w \in Webhooks : DeleteWebhook(w)) \/ \E C \in SUBSET Calls : CleanupCalls(C)
    PROVE  \E C \in SUBSET Calls :
              /\ \A c \in C : Stored(c)
              /\ call' = [c \in Calls |-> IF c \in C THEN [status |-> "deleted"] ELSE call[c]]
              /\ \A c \in Calls \ C : Stored(c) => hook'[call[c].hook].status \in WebhookStatus
              /\ UNCHANGED <<job, exec, prod, created, retries, unlocked, unheard>>
<1>1. ASSUME NEW c \in Calls, Stored(c)
      PROVE  hook[call[c].hook].status \in WebhookStatus /\ call[c].hook \in Webhooks
  BY <1>1, RowUpdates DEF Traced, Grounded, Exists, TypeOK, Stored
<1>2. ASSUME NEW w \in Webhooks, DeleteWebhook(w)
      PROVE  \A c \in Calls : Stored(c) /\ call[c].hook # w
                => hook'[call[c].hook].status \in WebhookStatus
  BY <1>1, <1>2 DEF DeleteWebhook, TypeOK
<1>3. ASSUME NEW w \in Webhooks, DeleteWebhook(w)
      PROVE  \E C \in SUBSET Calls :
              /\ \A c \in C : Stored(c)
              /\ call' = [c \in Calls |-> IF c \in C THEN [status |-> "deleted"] ELSE call[c]]
              /\ \A c \in Calls \ C : Stored(c) => hook'[call[c].hook].status \in WebhookStatus
              /\ UNCHANGED <<job, exec, prod, created, retries, unlocked, unheard>>
  <2> WITNESS {c \in Calls : Stored(c) /\ call[c].hook = w} \in SUBSET Calls
  <2> QED BY <1>2, <1>3 DEF DeleteWebhook
<1>4. ASSUME NEW C \in SUBSET Calls, CleanupCalls(C)
      PROVE  \E D \in SUBSET Calls :
              /\ \A c \in D : Stored(c)
              /\ call' = [c \in Calls |-> IF c \in D THEN [status |-> "deleted"] ELSE call[c]]
              /\ \A c \in Calls \ D : Stored(c) => hook'[call[c].hook].status \in WebhookStatus
              /\ UNCHANGED <<job, exec, prod, created, retries, unlocked, unheard>>
  <2> WITNESS C \in SUBSET Calls
  <2> QED BY <1>1, <1>4 DEF CleanupCalls
<1> QED BY <1>3, <1>4

LEMMA NextTraced == TypeOK /\ RunnerOwnsJob /\ Traced /\ [Next]_vars => Traced'
<1> SUFFICES ASSUME TypeOK, RunnerOwnsJob, Traced, [Next]_vars PROVE Traced'
  OBVIOUS
<1>1. ASSUME UNCHANGED <<call, job, exec, prod, created, retries, unlocked, unheard, mix>>, WebhooksStay
      PROVE  Traced'
  <2>1. \A d \in Calls : Apart(d)
    BY <1>1 DEF Apart, Excused, Running
  <2> QED BY <1>1, <2>1, TraceNone
<1>2. ASSUME NEW p \in Producers, Request(p) \/ ProducerStep(p) \/ ProducerFails(p), UNCHANGED mix
      PROVE  Traced'
  BY <1>2, ProducerTraced
<1>3. ASSUME NEW k \in Workers, Slot(k) \/ DbFails(k) \/ ReplyLost(k) \/ LockFails(k),
             UNCHANGED mix
      PROVE  Traced'
  <2>1. PICK c, n : c = exec[k].call /\ n = job[c].made + 1
    OBVIOUS
  <2>2. CASE FinishJob(k)
    BY <1>3, <2>1, <2>2, FinishTraced
  <2>3. CASE \E d \in Calls : Fetch(k, d)
    BY <1>3, <2>3, FetchTraced
  <2>4. CASE (WorkerStep(k) /\ ~FinishJob(k)) \/ DbFails(k) \/ ReplyLost(k) \/ LockFails(k)
    <3>1. \/ ReadCall(k) \/ DiscardCall(k) \/ MarkInProgress(k) \/ AcquireLock(k) \/ LockBusy(k)
          \/ PostWebhook(k) \/ SaveDelivered(k) \/ CountFailure(k) \/ SaveFailed(k) \/ ReleaseLock(k)
          \/ DbFails(k) \/ ReplyLost(k) \/ LockFails(k)
      BY <2>4 DEF WorkerStep
    <3> QED BY <1>3, <2>1, <3>1, WorkerTraced
  <2> QED BY <1>3, <2>2, <2>3, <2>4 DEF Slot
<1>4. ASSUME NEW w \in Webhooks, CreateWebhook(w), UNCHANGED mix PROVE Traced'
  <2>1. WebhooksStay
    BY <1>4 DEF CreateWebhook, WebhooksStay, Exists, TypeOK, WebhookStatus
  <2> QED BY <1>1, <1>4, <2>1 DEF CreateWebhook
<1>5. ASSUME NEW w \in Webhooks, LockExpires(w), UNCHANGED mix PROVE Traced'
  BY <1>1, <1>5 DEF LockExpires, WebhooksStay, Exists
<1>6. ASSUME NEW k \in Workers, WorkerCrashes(k) \/ JobLockLost(k), UNCHANGED mix PROVE Traced'
  <2>1. PICK c : c = exec[k].call
    OBVIOUS
  <2> QED BY <1>6, <2>1, DisownTraced
<1>7. ASSUME NEW c \in Calls, RecoverStalled(c) \/ FailedJobAges(c), UNCHANGED mix PROVE Traced'
  BY <1>7, StalledTraced
<1>8. ASSUME (\E w \in Webhooks : DeleteWebhook(w)) \/ \E C \in SUBSET Calls : CleanupCalls(C),
             UNCHANGED mix
      PROVE  Traced'
  BY <1>8, DeletionIs, DeleteTraced
<1>9. CASE UNCHANGED vars
  BY <1>1, <1>9 DEF vars, state, WebhooksStay, Exists
<1> QED BY <1>2, <1>3, <1>4, <1>5, <1>6, <1>7, <1>8, <1>9 DEF Next, Step, Environment

LEMMA InitTraced == Init => Traced
BY NumbersAssumption DEF Init, Traced, Grounded, Ordered, Stored, CallStatus, BeingEnqueued, Running,
    IdleRun, NoJob, Disowned

-----------------------------------------------------------------------------
(***************************************************************************)
(* Every step is a step of WebhookLifecycle or leaves what it shows alone. *)
(***************************************************************************)

\* A row that awaits attempt n starts it, or is discarded in it.
LEMMA RowStarts ==
    ASSUME NEW c \in Calls, Stored(c), Stored(c)', \A d \in Calls \ {c} : call'[d] = call[d],
           UNCHANGED <<unlocked, unheard, retries, mix>>,
           NEW n \in Nat \ {0}, n <= MaxAttempts, call[c].attempt \in Nat, Awaits(c, n - 1),
           call'[c].attempt = n, call'[c].status \in {"IN_PROGRESS", "DISCARDED"}
    PROVE  Lifecycle!Start(c) \/ Lifecycle!Discard(c) \/ Lifecycle!StartLate(c)
<1>1. PICK f, t : f = call[c].status /\ t = call'[c].status
  OBVIOUS
<1>2. /\ Lifecycle!Moves(c, f, t)
      /\ ShownAttempt' = [ShownAttempt EXCEPT ![c] = n]
      /\ t \in {"IN_PROGRESS", "DISCARDED"}
  BY <1>1, RowMoves
<1>3. ShownAttempt[c] = call[c].attempt
  BY DEF ShownAttempt
<1>4. CASE f = "PENDING" /\ call[c].attempt = n - 1
  <2>1. ShownAttempt[c] < MaxAttempts /\ ShownAttempt[c] + 1 = n
    BY <1>3, <1>4, NumbersAssumption
  <2>2. ShownAttempt[c] < MaxAttempts /\ ShownAttempt' = [ShownAttempt EXCEPT ![c] = ShownAttempt[c] + 1]
    BY <1>2, <2>1
  <2>3. Lifecycle!NextAttempt(c)
    BY <2>2 DEF Lifecycle!NextAttempt, ShownAttempt
  <2>4. CASE t = "IN_PROGRESS"
    <3>1. Lifecycle!Moves(c, "PENDING", "IN_PROGRESS")
      BY <1>2, <1>4, <2>4
    <3> QED BY <2>3, <3>1 DEF Lifecycle!Start
  <2>5. CASE t = "DISCARDED"
    <3>1. Lifecycle!Moves(c, "PENDING", "DISCARDED")
      BY <1>2, <1>4, <2>5
    <3> QED BY <2>3, <3>1 DEF Lifecycle!Discard
  <2> QED BY <1>2, <2>4, <2>5
<1>5. CASE ~(f = "PENDING" /\ call[c].attempt = n - 1)
  <2>1. Lossy /\ call[c].attempt <= n - 1 /\ f \in {"PENDING", "IN_PROGRESS"}
    BY <1>1, <1>5 DEF Awaits
  <2>2. n \in ShownAttempt[c] + 1..MaxAttempts
    BY <1>3, <2>1, NumbersAssumption
  <2>3. \E m \in ShownAttempt[c] + 1..MaxAttempts : ShownAttempt' = [ShownAttempt EXCEPT ![c] = m]
    BY <1>2, <2>2
  <2>4. \E x \in {"PENDING", "IN_PROGRESS"}, y \in {"IN_PROGRESS", "DISCARDED"} : Lifecycle!Moves(c, x, y)
    BY <1>2, <2>1
  <2> QED BY <2>1, <2>3, <2>4 DEF Lifecycle!StartLate, ShownAttempt, Lossy
<1> QED BY <1>4, <1>5

\* A row that is in attempt n ends it.
LEMMA RowEnds ==
    ASSUME NEW c \in Calls, Stored(c), Stored(c)', \A d \in Calls \ {c} : call'[d] = call[d],
           UNCHANGED <<unlocked, unheard, retries, mix>>,
           call[c].status = "IN_PROGRESS", call'[c].attempt = call[c].attempt,
           \/ call'[c].status \in {"PENDING", "DELIVERED"}
           \/ call'[c].status = "FAILED" /\ call[c].attempt = MaxAttempts
    PROVE  Lifecycle!TryAgain(c) \/ Lifecycle!Deliver(c) \/ Lifecycle!Fail(c)
<1>1. \A t : t = call'[c].status =>
         /\ Lifecycle!Moves(c, "IN_PROGRESS", t)
         /\ ShownAttempt' = [ShownAttempt EXCEPT ![c] = call[c].attempt]
  BY RowMoves
<1>2. ShownAttempt[c] = call[c].attempt
  BY DEF ShownAttempt
<1>3. UNCHANGED ShownAttempt
  BY <1>1, <1>2 DEF ShownAttempt
<1>4. CASE call'[c].status = "PENDING"
  BY <1>1, <1>3, <1>4 DEF Lifecycle!TryAgain, ShownAttempt
<1>5. CASE call'[c].status = "DELIVERED"
  BY <1>1, <1>3, <1>5 DEF Lifecycle!Deliver, ShownAttempt
<1>6. CASE call'[c].status = "FAILED" /\ call[c].attempt = MaxAttempts
  BY <1>1, <1>2, <1>3, <1>6 DEF Lifecycle!Fail, ShownAttempt
<1> QED BY <1>4, <1>5, <1>6

LEMMA WorkerFollows ==
    ASSUME TypeOK, TypeOK', RunnerOwnsJob, Traced, NEW k \in Workers,
           \/ DiscardCall(k) \/ MarkInProgress(k) \/ LockBusy(k) \/ SaveDelivered(k) \/ SaveFailed(k)
           \/ ReplyLost(k),
           UNCHANGED mix, NEW c, c = exec[k].call, NEW n, n = job[c].made + 1
    PROVE  [Lifecycle!Next]_(Lifecycle!lifecycleVars)
<1>1. /\ exec[k].pc # "idle" /\ UNCHANGED <<unlocked, retries>>
      /\ UNCHANGED unheard \/ (ReplyLost(k) /\ NotesUnheard(k))
  BY DEF DiscardCall, MarkInProgress, LockBusy, SaveDelivered, SaveFailed, ReplyLost
<1>2. /\ c \in Calls /\ Grounded(c) /\ n \in Nat \ {0}
      /\ c \notin Excused => Progress(k)
      /\ exec[k].pc \in Before \cup Within => exec[k].attempt \in Nat /\ exec[k].attempt <= MaxAttempts
  <2>1. /\ c \in Calls /\ Grounded(c) /\ job[c].made \in Nat
        /\ c \notin Excused => Progress(k)
        /\ exec[k].pc \in Before \cup Within => exec[k].attempt \in Nat /\ exec[k].attempt <= MaxAttempts
    BY <1>1, RunKnows
  <2> QED BY <2>1
<1>3. CASE UNCHANGED <<call, unheard>>
  BY <1>1, <1>3, RowsStay
\* An excused call's row may become anything.
<1>4. ASSUME c \in Excused', \A d \in Calls : d # c => call'[d] = call[d],
             Stored(c)' => call'[c].attempt <= MaxAttempts
      PROVE  [Lifecycle!Next]_(Lifecycle!lifecycleVars)
  <2>1. Excused' = Excused \cup {c}
    BY <1>1, <1>2, <1>4 DEF Excused, NotesUnheard
  <2>2. Lifecycle!Slip(c)
    BY <1>2, <1>4, <2>1, RowSlips
  <2> QED BY <1>2, <2>2 DEF Lifecycle!Next
<1>5. ASSUME NEW s \in CallStatus, UpdateCall(k, s), exec[k].pc \in Before \cup Within
      PROVE  /\ \A d \in Calls : d # c => call'[d] = call[d]
             /\ Stored(c) /\ Stored(c)'
             /\ call'[c].status = s /\ call'[c].attempt = exec[k].attempt
             /\ call'[c].attempt <= MaxAttempts /\ call[c].attempt \in Nat
  <2>1. /\ \A d \in Calls : d # c => call'[d] = call[d]
        /\ Stored(c) /\ Stored(c)'
        /\ call'[c].status = s /\ call'[c].attempt = exec[k].attempt
    BY <1>2, <1>5, RowUpdated
  <2>2. call[c].attempt \in Nat
    BY <1>2, <2>1 DEF TypeOK, Row, Stored, NoRow, CallStatus
  <2> QED BY <1>2, <1>5, <2>1, <2>2
\* The run's attempt starts, or finds the webhook inactive.
<1>6. ASSUME NEW s \in {"DISCARDED", "IN_PROGRESS"}, UpdateCall(k, s), exec[k].pc \in Before,
             UNCHANGED unheard
      PROVE  [Lifecycle!Next]_(Lifecycle!lifecycleVars)
  <2>1. /\ \A d \in Calls : d # c => call'[d] = call[d]
        /\ Stored(c) /\ Stored(c)'
        /\ call'[c].status = s /\ call'[c].attempt = exec[k].attempt
        /\ call'[c].attempt <= MaxAttempts /\ call[c].attempt \in Nat
    BY <1>5, <1>6 DEF CallStatus
  <2>2. Excused' = Excused
    BY <1>1, <1>6 DEF Excused
  <2>3. ASSUME c \notin Excused
        PROVE  Lifecycle!Start(c) \/ Lifecycle!Discard(c) \/ Lifecycle!StartLate(c)
    <3>1. exec[k].attempt = n /\ Awaits(c, n - 1)
      BY <1>2, <1>6, <2>3 DEF Progress
    <3> QED BY <1>1, <1>2, <1>6, <2>1, <3>1, RowStarts
  <2> QED BY <1>2, <1>4, <2>1, <2>2, <2>3 DEF Lifecycle!Next
<1>7. CASE LockBusy(k) /\ ~RowGone(k)
  <2>0. Excused' = Excused /\ UNCHANGED unheard
    BY <1>1, <1>7 DEF Excused, LockBusy
  <2>1. exec[k].pc = "busy" /\ Stored(c) /\ call' = [call EXCEPT ![c].status = "PENDING"]
    BY <1>7 DEF LockBusy
  <2>2. call[c] \in [status : CallStatus, hook : Webhooks, attempt : Nat] /\ call \in [Calls -> Row]
    BY <1>2, <2>1 DEF TypeOK, Row, Stored, NoRow, CallStatus
  <2>3. /\ call'[c].status = "PENDING" /\ call'[c].attempt = call[c].attempt
        /\ \A d \in Calls : d # c => call'[d] = call[d]
    BY <1>2, <2>1, <2>2
  <2>4. Stored(c)' /\ call'[c].attempt <= MaxAttempts
    BY <1>2, <2>1, <2>3 DEF Grounded, Stored, CallStatus
  <2>5. ASSUME c \notin Excused PROVE Lifecycle!TryAgain(c) \/ Lifecycle!Deliver(c) \/ Lifecycle!Fail(c)
    <3>1. call[c].status = "IN_PROGRESS"
      BY <1>2, <2>1, <2>5 DEF Progress, Within
    <3> QED BY <1>1, <1>2, <2>0, <2>1, <2>3, <2>4, <3>1, RowEnds
  <2> QED BY <1>2, <1>4, <2>0, <2>3, <2>4, <2>5 DEF Lifecycle!Next
\* The run's attempt ends.
<1>8. ASSUME NEW s \in {"DELIVERED", "FAILED", "PENDING"}, UpdateCall(k, s), exec[k].pc \in Within,
             s = "FAILED" => IsFinalAttempt(k), UNCHANGED unheard
      PROVE  [Lifecycle!Next]_(Lifecycle!lifecycleVars)
  <2>1. /\ \A d \in Calls : d # c => call'[d] = call[d]
        /\ Stored(c) /\ Stored(c)'
        /\ call'[c].status = s /\ call'[c].attempt = exec[k].attempt
        /\ call'[c].attempt <= MaxAttempts /\ call[c].attempt \in Nat
    BY <1>5, <1>8 DEF CallStatus
  <2>2. Excused' = Excused
    BY <1>1, <1>8 DEF Excused
  <2>3. ASSUME c \notin Excused PROVE Lifecycle!TryAgain(c) \/ Lifecycle!Deliver(c) \/ Lifecycle!Fail(c)
    <3>1. exec[k].attempt = n /\ call[c].status = "IN_PROGRESS" /\ call[c].attempt = n
      BY <1>2, <1>8, <2>1, <2>3 DEF Progress, Before, Within
    <3>2. s = "FAILED" => call[c].attempt = MaxAttempts
      BY <1>2, <1>8, <2>1, <3>1, NumbersAssumption DEF IsFinalAttempt
    <3> QED BY <1>1, <1>2, <1>8, <2>1, <3>1, <3>2, RowEnds
  <2> QED BY <1>2, <1>4, <2>1, <2>2, <2>3 DEF Lifecycle!Next
\* A status nobody heard of excuses the call.
<1>9. ASSUME NEW s \in {"DISCARDED", "DELIVERED"}, UpdateCall(k, s), exec[k].pc \in Before \cup Within,
             NotesUnheard(k)
      PROVE  [Lifecycle!Next]_(Lifecycle!lifecycleVars)
  <2>1. /\ \A d \in Calls : d # c => call'[d] = call[d]
        /\ call'[c].attempt <= MaxAttempts
    BY <1>5, <1>9 DEF CallStatus
  <2>2. c \in Excused'
    BY <1>2, <1>9 DEF Excused, NotesUnheard
  <2> QED BY <1>4, <2>1, <2>2
<1>10. CASE DiscardCall(k) \/ MarkInProgress(k)
  <2>1. exec[k].pc \in Before /\ UNCHANGED unheard
    BY <1>10 DEF DiscardCall, MarkInProgress, Before
  <2> QED BY <1>3, <1>6, <1>10, <2>1 DEF DiscardCall, MarkInProgress, RowGone
<1>11. CASE SaveDelivered(k) \/ SaveFailed(k)
  <2>1. exec[k].pc \in Within /\ UNCHANGED unheard
    BY <1>11 DEF SaveDelivered, SaveFailed, Within
  <2> QED BY <1>3, <1>8, <1>11, <2>1 DEF SaveDelivered, SaveFailed, StoreDelivered, StoreFailed, RowGone
<1>12. CASE ReplyLost(k)
  <2>1. exec[k].pc \in Before \cup Within
    BY <1>12 DEF ReplyLost, Before, Within
  <2>2. CASE NotesUnheard(k) /\ (UpdateCall(k, "DISCARDED") \/ UpdateCall(k, "DELIVERED"))
    BY <1>9, <2>1, <2>2
  <2>3. CASE exec[k].pc = "mark" /\ UpdateCall(k, "IN_PROGRESS") /\ UNCHANGED unheard
    BY <1>6, <2>3 DEF Before
  <2>4. CASE exec[k].pc = "save" /\ StoreFailed(k) /\ UNCHANGED unheard
    BY <1>8, <2>4 DEF StoreFailed, Within
  <2> QED BY <1>3, <1>12, <2>2, <2>3, <2>4 DEF ReplyLost, StoreDelivered
<1> QED BY <1>3, <1>7, <1>10, <1>11, <1>12 DEF LockBusy, RowGone

LEMMA ProducerFollows ==
    ASSUME TypeOK, TypeOK', Traced, NEW p \in Producers,
           Request(p) \/ ProducerStep(p) \/ ProducerFails(p), UNCHANGED mix
    PROVE  [Lifecycle!Next]_(Lifecycle!lifecycleVars)
<1>1. ASSUME NEW w \in Webhooks, CreateCall(p, w)
      PROVE  [Lifecycle!Next]_(Lifecycle!lifecycleVars)
  <2>1. CASE ~Exists(w)
    BY <1>1, <2>1, RowsStay DEF CreateCall
  <2>2. CASE Exists(w)
    <3>1. PICK c : c = created + 1
      OBVIOUS
    <3>2. c \in Calls /\ call[c].status = "none"
      BY <1>1, <2>2, <3>1, NumbersAssumption DEF CreateCall, MayCreate, Calls, Traced, TypeOK
    <3>3. /\ call' = [call EXCEPT ![c] = [status |-> "PENDING", hook |-> w, attempt |-> 0]]
          /\ UNCHANGED <<unlocked, unheard, retries>>
      BY <1>1, <2>2, <3>1 DEF CreateCall
    <3>4. /\ call'[c].status = "PENDING" /\ call'[c].attempt = 0
          /\ \A d \in Calls \ {c} : call'[d] = call[d]
      BY <3>2, <3>3 DEF TypeOK
    <3>5. ShownStatus' = [ShownStatus EXCEPT ![c] = "PENDING"] /\ ShownStatus[c] = "none"
      BY <3>2, <3>4 DEF ShownStatus
    <3>6. UNCHANGED ShownAttempt
      BY <3>2, <3>4 DEF ShownAttempt, Stored, CallStatus
    <3>7. UNCHANGED <<unlocked \cup unheard \cup {d \in Calls : retries[d] > 0}, {"db", "redis"} \cap mix # {}>>
      BY <3>3
    <3>8. Lifecycle!Create(c)
      BY <3>5, <3>6, <3>7 DEF Lifecycle!Create, Lifecycle!Moves, ShownStatus, ShownAttempt
    <3> QED BY <3>2, <3>8 DEF Lifecycle!Next
  <2> QED BY <2>1, <2>2
<1>2. ASSUME NEW c \in Calls, RetryCall(p, c)
      PROVE  [Lifecycle!Next]_(Lifecycle!lifecycleVars)
  <2>1. /\ Stored(c) /\ UNCHANGED <<unlocked, unheard>>
        /\ retries' = [retries EXCEPT ![c] = @ + 1]
        /\ call' = [call EXCEPT ![c].status = "PENDING", ![c].attempt = 0]
    BY <1>2 DEF RetryCall
  <2>2. /\ call[c] \in [status : CallStatus, hook : Webhooks, attempt : Nat]
        /\ call \in [Calls -> Row] /\ retries[c] \in Nat /\ retries \in [Calls -> 0..MaxRetries]
    BY <2>1, NumbersAssumption DEF TypeOK, Row, Stored, NoRow, CallStatus
  <2>3. call'[c].attempt = 0 /\ \A d \in Calls \ {c} : call'[d] = call[d]
    BY <2>1, <2>2
  <2>4. Excused' = Excused \cup {c}
    BY <2>1, <2>2 DEF Excused
  <2>5. Lifecycle!Slip(c)
    BY <2>3, <2>4, RowSlips, NumbersAssumption
  <2> QED BY <2>5 DEF Lifecycle!Next
<1>3. UNCHANGED <<call, unlocked, unheard, retries, mix>>
         \/ (\E w \in Webhooks : CreateCall(p, w)) \/ \E c \in Calls : RetryCall(p, c)
  BY DEF Request, ProducerStep, ProducerFails, EmitRead, TestWebhook, SetStatusRead, SetStatusWrite,
         EnqueueCall
<1> QED BY <1>1, <1>2, <1>3, RowsStay

LEMMA StepsFollow ==
    ASSUME TypeOK, TypeOK', RunnerOwnsJob, Traced, Traced', [Next]_vars
    PROVE  [Lifecycle!Next]_(Lifecycle!lifecycleVars)
<1>1. ASSUME NEW p \in Producers, Request(p) \/ ProducerStep(p) \/ ProducerFails(p), UNCHANGED mix
      PROVE  [Lifecycle!Next]_(Lifecycle!lifecycleVars)
  BY <1>1, ProducerFollows
<1>2. ASSUME NEW k \in Workers, Slot(k) \/ DbFails(k) \/ ReplyLost(k) \/ LockFails(k),
             UNCHANGED mix
      PROVE  [Lifecycle!Next]_(Lifecycle!lifecycleVars)
  <2>1. PICK c, n : c = exec[k].call /\ n = job[c].made + 1
    OBVIOUS
  <2>2. UNCHANGED <<call, unlocked, unheard, retries, mix>>
           \/ DiscardCall(k) \/ MarkInProgress(k) \/ LockBusy(k) \/ SaveDelivered(k) \/ SaveFailed(k)
           \/ ReplyLost(k)
    BY <1>2 DEF Slot, WorkerStep, Fetch, ReadCall, AcquireLock, PostWebhook, CountFailure, ReleaseLock,
                FinishJob, DbFails, LockFails
  <2> QED BY <1>2, <2>1, <2>2, WorkerFollows, RowsStay
<1>3. ASSUME NEW k \in Workers, WorkerCrashes(k) \/ JobLockLost(k), UNCHANGED mix
      PROVE  [Lifecycle!Next]_(Lifecycle!lifecycleVars)
  <2>1. PICK c : c = exec[k].call
    OBVIOUS
  <2>2. UNCHANGED <<call, retries, unheard>> /\ c \in Calls /\ (unlocked' = unlocked \/ unlocked' = unlocked \cup {c})
    BY <1>3, <2>1, DisownTraced
  <2>3. CASE unlocked' = unlocked \cup {c}
    <3>1. Excused' = Excused \cup {c}
      BY <2>2, <2>3 DEF Excused
    <3>2. Stored(c)' => call'[c].attempt <= MaxAttempts
      BY <2>2 DEF Traced, Grounded, Stored
    <3>3. Lifecycle!Slip(c)
      BY <1>3, <2>2, <3>1, <3>2, RowSlips
    <3> QED BY <2>2, <3>3 DEF Lifecycle!Next
  <2> QED BY <1>3, <2>2, <2>3, RowsStay
<1>4. ASSUME (\E w \in Webhooks : DeleteWebhook(w)) \/ \E C \in SUBSET Calls : CleanupCalls(C),
             UNCHANGED mix
      PROVE  [Lifecycle!Next]_(Lifecycle!lifecycleVars)
  <2>1. PICK C \in SUBSET Calls :
              /\ \A c \in C : Stored(c)
              /\ call' = [c \in Calls |-> IF c \in C THEN [status |-> "deleted"] ELSE call[c]]
              /\ UNCHANGED <<retries, unlocked, unheard>>
    BY <1>4, DeletionIs
  <2>2. Lifecycle!Delete(C)
    BY <1>4, <2>1, RowsGo
  <2> QED BY <2>2 DEF Lifecycle!Next
<1>5. UNCHANGED <<call, unlocked, unheard, retries, mix>>
         \/ (Next /\ ~\E w \in Webhooks : CreateWebhook(w) \/ LockExpires(w))
  BY DEF Next, vars, state, CreateWebhook, LockExpires
<1>6. UNCHANGED <<call, unlocked, unheard, retries, mix>>
         \/ (Next /\ ~(\E w \in Webhooks : CreateWebhook(w) \/ LockExpires(w))
                  /\ ~\E c \in Calls : RecoverStalled(c) \/ FailedJobAges(c))
  BY <1>5 DEF Next, RecoverStalled, FailedJobAges
<1> QED BY <1>1, <1>2, <1>3, <1>4, <1>6, RowsStay DEF Next, Step, Environment

\* The rows of the calls follow the status machine: whatever slots, locks, counters
\* and handlers do between two of its steps, and whichever writes fail or commit unheard,
\* a call is attempted in order, fails for good only at its last attempt and never leaves
\* a final status, unless its job lost its worker, it was retried by hand, or the very
\* write of its DELIVERED or DISCARDED was committed unheard (processWebhookCall and
\* WebhookQueueService implement WebhookLifecycle).
THEOREM RowsFollowLifecycle == Spec => ImplementsLifecycle
<1>1. Init => TypeOK /\ RunnerOwnsJob /\ Traced
  BY InitType, InitTraced DEF Init, RunnerOwnsJob, Running, IdleRun
<1>2. TypeOK /\ RunnerOwnsJob /\ Traced /\ [Next]_vars => (TypeOK /\ RunnerOwnsJob /\ Traced)'
  BY NextType, OwnerSteps, NextTraced
<1>3. Init => Lifecycle!Init
  <2> SUFFICES ASSUME Init PROVE Lifecycle!Init
    OBVIOUS
  <2>1. ShownStatus = [c \in Calls |-> "none"] /\ ShownAttempt = [c \in Calls |-> 0]
    BY DEF Init, ShownStatus, ShownAttempt, Stored, CallStatus
  <2>2. unlocked \cup unheard \cup {c \in Calls : retries[c] > 0} \in SUBSET Calls
    BY DEF Init
  <2> QED BY <2>1, <2>2 DEF Lifecycle!Init, ShownStatus, ShownAttempt
<1>4. /\ TypeOK /\ RunnerOwnsJob /\ Traced /\ (TypeOK /\ RunnerOwnsJob /\ Traced)' /\ [Next]_vars
      => [Lifecycle!Next]_(Lifecycle!lifecycleVars)
  BY StepsFollow
<1> QED BY <1>1, <1>2, <1>3, <1>4, PTL DEF Spec, ImplementsLifecycle, Lifecycle!Spec

=============================================================================
