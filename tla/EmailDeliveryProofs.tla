------------------------ MODULE EmailDeliveryProofs ------------------------
(***************************************************************************)
(* Theorems about EmailDelivery, for any slots, clients, times and faults, *)
(* and about Idempotency, through which the requests that send come.       *)
(***************************************************************************)
EXTENDS EmailDelivery, Idempotency, FiniteSetTheorems, TLAPS

\* What TypeOK says of the job.
JobType == [state : {"none", "delayed", "waiting", "active", "failed"}, wait : 0..MaxTime,
            owner : Workers \cup {Nobody}, stalls : 0..MaxStalled]

JobOK ==
    /\ job \in JobType
    /\ job.owner # Nobody => job.state = "active"
    /\ job.state # "none" => added

LEMMA NoJobType == NoJob \in JobType
BY NumbersAssumption DEF NoJob, JobType, MaxStalled

LEMMA InitType == Init => TypeOK
<1> SUFFICES ASSUME Init PROVE TypeOK
  OBVIOUS
<1>1. JobOK
  BY NoJobType DEF Init, JobOK, NoJob
<1>2. client \in [Clients -> [pc : {"idle", "time", "delay", "get", "remove", "mark"},
                              at : 0..MaxTime, wait : 0..MaxTime]]
  BY NumbersAssumption DEF Init, IdleClient
<1>3. run \in [Workers -> Points]
  BY DEF Init, Points
<1>4. at \in 0..MaxTime /\ clock \in 0..MaxTime /\ asks \in 0..MaxAsks /\ crashes \in 0..MaxCrashes
  BY NumbersAssumption DEF Init
<1> QED BY <1>1, <1>2, <1>3, <1>4 DEF Init, TypeOK, JobOK, JobType

\* A computed delay reaches its time and is no longer than it.
LEMMA DelayReaches ==
    ASSUME clock \in Nat, NEW t \in Nat
    PROVE  DelayUntil(t) \in 0..t /\ t <= clock + DelayUntil(t)
BY DEF DelayUntil

LEMMA AddJobType == ASSUME TypeOK, AddJob PROVE JobOK' /\ delay' \in 0..MaxTime
<1>1. job' \in JobType /\ job'.owner = Nobody /\ added'
  BY NoJobType DEF AddJob, NoJob, JobType, TypeOK
<1>2. delay' \in 0..MaxTime
  BY NumbersAssumption DEF AddJob
<1> QED BY <1>1, <1>2 DEF JobOK

LEMMA SenderType ==
    ASSUME TypeOK, Sender \/ SenderStops
    PROVE  TypeOK'
<1> USE NumbersAssumption DEF TypeOK, SenderStep, NoJob, MaxStalled, Points, Statuses
<1>2. CASE CreateEmail
  <2>1. at' \in 0..MaxTime /\ delay' \in 0..MaxTime
    <3>1. ASSUME NEW t \in 0..MaxTime PROVE DelayUntil(t) \in 0..MaxTime
      BY DelayReaches
    <3> QED BY <1>2, <3>1 DEF CreateEmail
  <2>2. status' \in Statuses \cup {"none"} /\ sender' \in {"queue", "bulk", "ok"}
    BY <1>2 DEF CreateEmail
  <2> QED BY <1>2, <2>1, <2>2 DEF CreateEmail
<1>3. CASE QueueEmail
  <2>1. JobOK' /\ delay' \in 0..MaxTime
    BY <1>3, AddJobType DEF QueueEmail, JobOK, JobType
  <2>2. added' \in BOOLEAN /\ sender' \in {"ok", "fail"}
    BY <1>3 DEF QueueEmail, AddJob
  <2> QED BY <1>3, <2>1, <2>2 DEF QueueEmail, JobOK, JobType
<1>4. CASE QueueBulk
  <2>1. JobOK' /\ delay' \in 0..MaxTime
    BY <1>4, AddJobType DEF QueueBulk, JobOK, JobType
  <2>2. added' \in BOOLEAN /\ stranded' \in BOOLEAN
    BY <1>4 DEF QueueBulk, AddJob
  <2> QED BY <1>4, <2>1, <2>2 DEF QueueBulk, JobOK, JobType
<1>5. CASE MarkUnqueued
  BY <1>5 DEF MarkUnqueued
<1>6. CASE SenderStops
  BY <1>6 DEF SenderStops
<1> QED BY <1>2, <1>3, <1>4, <1>5, <1>6 DEF Sender

LEMMA ClientType ==
    ASSUME TypeOK, NEW c \in Clients, ReadScheduled(c) \/ Client(c)
    PROVE  TypeOK'
<1> USE NumbersAssumption
    DEF TypeOK, ClientStep, NoJob, IdleClient, MaxStalled, Points, Statuses, Moves, Stops
<1>1. CASE ReadScheduled(c)
  <2>1. ASSUME NEW t \in 1..MaxTime PROVE DelayUntil(t) \in 0..MaxTime
    BY DelayReaches
  <2>2. client' \in [Clients -> [pc : {"idle", "time", "delay", "get", "remove", "mark"},
                                  at : 0..MaxTime, wait : 0..MaxTime]]
    BY <1>1, <2>1 DEF ReadScheduled
  <2> QED BY <1>1, <2>2 DEF ReadScheduled
<1>2. CASE WriteTime(c)
  <2>1. client' \in [Clients -> [pc : {"idle", "time", "delay", "get", "remove", "mark"},
                                  at : 0..MaxTime, wait : 0..MaxTime]]
    BY <1>2 DEF WriteTime
  <2>2. at' \in 0..MaxTime /\ missed' \in BOOLEAN
    BY <1>2 DEF WriteTime
  <2> QED BY <1>2, <2>1, <2>2 DEF WriteTime
<1>3. CASE ChangeDelay(c)
  <2>1. client[c].wait \in 0..MaxTime
    OBVIOUS
  <2>2. JobOK'
    BY <1>3, <2>1 DEF ChangeDelay, JobOK, JobType
  <2>3. client' \in [Clients -> [pc : {"idle", "time", "delay", "get", "remove", "mark"},
                                  at : 0..MaxTime, wait : 0..MaxTime]]
    BY <1>3 DEF ChangeDelay
  <2>4. missed' \in BOOLEAN
    BY <1>3 DEF ChangeDelay
  <2> QED BY <1>3, <2>2, <2>3, <2>4 DEF ChangeDelay, JobOK, JobType
<1>4. CASE GetJob(c)
  BY <1>4 DEF GetJob
<1>5. CASE RemoveJob(c)
  BY <1>5 DEF RemoveJob
<1>6. CASE MarkCancelled(c)
  <2>1. client' \in [Clients -> [pc : {"idle", "time", "delay", "get", "remove", "mark"},
                                  at : 0..MaxTime, wait : 0..MaxTime]]
    BY <1>6 DEF MarkCancelled
  <2>2. stranded' \in BOOLEAN /\ status' \in Statuses \cup {"none"}
    BY <1>6 DEF MarkCancelled
  <2> QED BY <1>6, <2>1, <2>2 DEF MarkCancelled
<1> QED BY <1>1, <1>2, <1>3, <1>4, <1>5, <1>6 DEF Client

LEMMA WorkerType ==
    ASSUME TypeOK, NEW k \in Workers, Worker(k) \/ Crash(k)
    PROVE  TypeOK'
<1> USE NumbersAssumption
    DEF TypeOK, WorkerStep, history, NoJob, MaxStalled, Points, Statuses, GoesTo
<1>1. CASE TakeJob(k)
  BY <1>1 DEF TakeJob
<1>2. CASE ReadEmail(k)
  <2>1. run' \in [Workers -> Points] /\ stranded' \in BOOLEAN
    BY <1>2 DEF ReadEmail
  <2> QED BY <1>2, <2>1 DEF ReadEmail
<1>3. CASE CheckLimit(k)
  BY <1>3 DEF CheckLimit
<1>4. CASE MarkOverLimit(k)
  BY <1>4 DEF MarkOverLimit
<1>5. CASE SendRaw(k)
  BY <1>5 DEF SendRaw
<1>6. CASE SaveMessageId(k)
  BY <1>6 DEF SaveMessageId
<1>7. CASE MarkFailed(k)
  <2>1. run' \in [Workers -> Points] /\ stranded' \in BOOLEAN
    BY <1>7 DEF MarkFailed
  <2>2. status' \in Statuses \cup {"none"}
    BY <1>7 DEF MarkFailed
  <2> QED BY <1>7, <2>1, <2>2 DEF MarkFailed
<1>8. CASE FinishJob(k)
  <2>1. JobOK'
    BY <1>8, NoJobType DEF FinishJob, JobOK, JobType
  <2>2. run' \in [Workers -> Points]
    BY <1>8 DEF FinishJob
  <2> QED BY <1>8, <2>1, <2>2 DEF FinishJob, JobOK, JobType
<1>9. CASE Crash(k)
  BY <1>9 DEF Crash
<1> QED BY <1>1, <1>2, <1>3, <1>4, <1>5, <1>6, <1>7, <1>8, <1>9 DEF Worker

LEMMA NextType == TypeOK /\ [Next]_vars => TypeOK'
<1> SUFFICES ASSUME TypeOK, [Next]_vars PROVE TypeOK'
  OBVIOUS
<1> USE NumbersAssumption DEF history, MaxStalled, Statuses
<1>1. CASE Sender \/ SenderStops
  BY <1>1, SenderType
<1>2. ASSUME NEW c \in Clients, ReadScheduled(c) \/ Client(c) PROVE TypeOK'
  BY <1>2, ClientType
<1>3. ASSUME NEW k \in Workers, Worker(k) \/ Crash(k) PROVE TypeOK'
  BY <1>3, WorkerType
<1>4. CASE Tick
  BY <1>4 DEF Tick, TypeOK
<1>5. CASE PromoteJob
  BY <1>5 DEF PromoteJob, TypeOK
<1>6. CASE HookRaises
  BY <1>6 DEF HookRaises, TypeOK
<1>7. CASE JobLockExpires
  BY <1>7 DEF JobLockExpires, TypeOK
<1>8. CASE RecoverStalled
  <2>1. job.stalls < MaxStalled => job.stalls + 1 \in 0..MaxStalled
    BY DEF TypeOK
  <2>2. JobOK'
    BY <1>8, <2>1 DEF RecoverStalled, TypeOK, JobOK, JobType
  <2>3. requeued' \in Nat
    BY <1>8 DEF RecoverStalled, TypeOK
  <2> QED BY <1>8, <2>2, <2>3 DEF RecoverStalled, TypeOK, JobOK, JobType
<1>9. CASE UNCHANGED vars
  BY <1>9 DEF vars, TypeOK
<1> QED
  BY <1>1, <1>2, <1>3, <1>4, <1>5, <1>6, <1>7, <1>8, <1>9 DEF Next

\* The rows, the job and the runs are well formed; only a slot locks the job, and a
\* job exists only after it was added.
THEOREM TypeCorrect == Spec => []TypeOK
<1>1. Init => TypeOK
  BY InitType
<1>2. TypeOK /\ [Next]_vars => TypeOK'
  BY NextType
<1> QED BY <1>1, <1>2, PTL DEF Spec

-----------------------------------------------------------------------------
\* The slots that may still send are finitely many.
LEMMA ToSendFinite == IsFiniteSet(ToSend) /\ Cardinality(ToSend) \in Nat
<1>1. ToSend \subseteq Workers
  BY DEF ToSend
<1> QED BY <1>1, NumbersAssumption, FS_Subset, FS_CardinalityType

\* A step after which no more slots and no more queued jobs may send than before.
LEMMA FewerRuns ==
    ASSUME TypeOK, RunsAreCounted, ToSend' \subseteq ToSend, ToRun' <= ToRun,
           UNCHANGED <<sends, requeued, added, revoked>>,
           sender' \in {"start", "queue", "bulk"} => sender \in {"start", "queue", "bulk"},
           job'.state # "none" => job.state # "none" /\ job'.stalls = job.stalls
    PROVE  RunsAreCounted'
<1>1. Cardinality(ToSend') \in Nat /\ Cardinality(ToSend') <= Cardinality(ToSend)
  BY ToSendFinite, FS_Subset, FS_CardinalityType
<1>2. ToRun \in Nat /\ ToRun' \in Nat
  BY DEF ToRun
<1>3. Cardinality(ToSend)' = Cardinality(ToSend')
  OBVIOUS
<1>4. (sends + Cardinality(ToSend) + ToRun)' <= (1 + requeued)'
  BY <1>1, <1>2, <1>3, ToSendFinite DEF RunsAreCounted, TypeOK
<1> QED BY <1>4 DEF RunsAreCounted

\* Where a slot goes decides whether it may still send.
LEMMA SlotMoves ==
    ASSUME TypeOK, NEW k \in Workers, NEW point, GoesTo(k, point)
    PROVE  /\ point \in {"read", "limit", "send"} => ToSend' = ToSend \cup {k}
           /\ point \notin {"read", "limit", "send"} => ToSend' = ToSend \ {k}
           /\ k \in ToSend <=> run[k] \in {"read", "limit", "send"}
BY DEF GoesTo, ToSend, TypeOK

\* The sender adds the job before anything ran.
LEMMA AddIsFirst ==
    ASSUME TypeOK, RunsAreCounted, AddJob, sender \in {"queue", "bulk"},
           sender' \notin {"start", "queue", "bulk"}, UNCHANGED <<run, sends, requeued, revoked>>
    PROVE  RunsAreCounted'
<1>1. ~added /\ sends = 0 /\ ToSend = {} /\ requeued = 0 /\ ~revoked
  BY DEF RunsAreCounted
<1>2. ToSend' = {} /\ ToRun' = 1 /\ added' /\ job'.stalls = 0
  BY <1>1 DEF AddJob, ToSend, ToRun, NoJob
<1>3. Cardinality(ToSend)' = 0
  BY <1>2, FS_EmptySet
<1> QED BY <1>1, <1>2, <1>3 DEF RunsAreCounted, MaxStalled

LEMMA SenderCounted ==
    ASSUME TypeOK, RunsAreCounted, Sender \/ SenderStops
    PROVE  RunsAreCounted'
<1> USE DEF SenderStep
<1>1. ToSend' = ToSend
  BY DEF Sender, SenderStops, CreateEmail, QueueEmail, QueueBulk, MarkUnqueued, ToSend
<1>2. ASSUME UNCHANGED <<job, added>>,
             sender' \in {"start", "queue", "bulk"} => sender \in {"start", "queue", "bulk"}
      PROVE  RunsAreCounted'
  <2>1. ToRun' = ToRun /\ ToRun \in {0, 1}
    BY <1>2 DEF ToRun
  <2>2. UNCHANGED <<sends, requeued, revoked>>
    BY DEF Sender, SenderStops, CreateEmail, QueueEmail, QueueBulk, MarkUnqueued
  <2> QED BY <1>1, <1>2, <2>1, <2>2, FewerRuns
<1>3. CASE CreateEmail
  BY <1>2, <1>3 DEF CreateEmail
<1>4. CASE QueueEmail
  BY <1>2, <1>4, AddIsFirst DEF QueueEmail
<1>5. CASE QueueBulk
  BY <1>2, <1>5, AddIsFirst DEF QueueBulk
<1>6. CASE MarkUnqueued
  BY <1>2, <1>6 DEF MarkUnqueued
<1>7. CASE SenderStops
  BY <1>2, <1>7 DEF SenderStops
<1> QED BY <1>3, <1>4, <1>5, <1>6, <1>7 DEF Sender

LEMMA ClientCounted ==
    ASSUME TypeOK, RunsAreCounted, NEW c \in Clients, ReadScheduled(c) \/ Client(c)
    PROVE  RunsAreCounted'
<1> USE DEF ClientStep
<1>1. UNCHANGED <<sender, run, sends, added, requeued>> /\ ToSend' = ToSend
  BY DEF Client, ReadScheduled, WriteTime, ChangeDelay, GetJob, RemoveJob, MarkCancelled, ToSend
<1>2. ASSUME job' = job \/ (job.state = "delayed" /\ job' = [job EXCEPT !.wait = client[c].wait]),
             revoked' = revoked
      PROVE  RunsAreCounted'
  <2>1. job'.state = job.state /\ job'.stalls = job.stalls
    BY <1>2 DEF TypeOK
  <2>2. ToRun' = ToRun /\ ToRun \in {0, 1}
    BY <2>1 DEF ToRun
  <2> QED BY <1>1, <1>2, <2>1, <2>2, FewerRuns
<1>3. CASE ReadScheduled(c) \/ WriteTime(c) \/ ChangeDelay(c) \/ GetJob(c) \/ MarkCancelled(c)
  BY <1>2, <1>3 DEF ReadScheduled, WriteTime, ChangeDelay, GetJob, MarkCancelled
<1>4. CASE RemoveJob(c)
  <2>1. CASE job' = job /\ revoked' = revoked
    BY <1>2, <2>1
  <2>2. CASE job' = NoJob /\ revoked' = revoked
    <3>1. job'.state = "none" /\ ToRun' <= ToRun
      BY <2>2 DEF NoJob, ToRun
    <3> QED BY <1>1, <2>2, <3>1, FewerRuns
  <2>3. CASE job' = NoJob /\ job.state \in {"delayed", "waiting"} /\ job.stalls = 0
    <3>1. ToRun = 1 /\ requeued = 0 /\ added
      BY <2>3 DEF RunsAreCounted, ToRun, TypeOK
    <3>2. sends = 0 /\ Cardinality(ToSend) = 0
      BY <3>1, ToSendFinite DEF RunsAreCounted, TypeOK
    <3>3. ToSend = {}
      BY <3>2, ToSendFinite, FS_EmptySet
    <3>4. job'.state = "none" /\ ToRun' = 0
      BY <2>3 DEF NoJob, ToRun
    <3>5. Cardinality(ToSend)' = 0
      BY <1>1, <3>2
    <3> QED BY <1>1, <3>1, <3>2, <3>3, <3>4, <3>5 DEF RunsAreCounted
  <2>4. UNCHANGED <<job, revoked>>
        \/ (job' = NoJob /\ revoked' = (revoked \/ (/\ job.state \in {"delayed", "waiting"}
                                                  /\ job.stalls = 0)))
    BY <1>4 DEF RemoveJob
  <2>5. CASE job' = NoJob /\ revoked' = (revoked \/ (/\ job.state \in {"delayed", "waiting"}
                                                   /\ job.stalls = 0))
    <3>1. CASE job.state \in {"delayed", "waiting"} /\ job.stalls = 0
      BY <2>3, <2>5, <3>1
    <3>2. CASE ~(job.state \in {"delayed", "waiting"} /\ job.stalls = 0)
      <4>1. revoked' = revoked
        BY <2>5, <3>2, Zenon DEF TypeOK
      <4> QED BY <2>2, <2>5, <4>1
    <3> QED BY <3>1, <3>2
  <2> QED BY <2>1, <2>4, <2>5
<1> QED BY <1>3, <1>4 DEF Client

LEMMA WorkerCounted ==
    ASSUME TypeOK, RunsAreCounted, NEW k \in Workers, Worker(k) \/ Crash(k)
    PROVE  RunsAreCounted'
<1> USE DEF WorkerStep, history
<1>1. UNCHANGED <<sender, added, requeued, revoked>>
  BY DEF Worker, TakeJob, ReadEmail, CheckLimit, MarkOverLimit, SendRaw, SaveMessageId,
         MarkFailed, FinishJob, Crash
<1>2. ASSUME ToSend' \subseteq ToSend, UNCHANGED <<job, sends>> PROVE RunsAreCounted'
  <2>1. ToRun' = ToRun /\ ToRun \in {0, 1}
    BY <1>2 DEF ToRun
  <2> QED BY <1>1, <1>2, <2>1, FewerRuns
<1>3. CASE TakeJob(k)
  <2>1. ToSend' = ToSend \cup {k} /\ k \notin ToSend
    BY <1>3, SlotMoves DEF TakeJob
  <2>2. Cardinality(ToSend)' = Cardinality(ToSend) + 1
    BY <2>1, ToSendFinite, FS_AddElement
  <2>3. ToRun = 1 /\ ToRun' = 0 /\ job'.state = "active" /\ job'.stalls = job.stalls
    BY <1>3 DEF TakeJob, ToRun, TypeOK
  <2>4. added /\ ~revoked /\ requeued = job.stalls /\ sends' = sends
    BY <1>3 DEF TakeJob, RunsAreCounted, TypeOK
  <2> QED BY <1>1, <2>2, <2>3, <2>4, ToSendFinite DEF RunsAreCounted, TypeOK
<1>4. CASE ReadEmail(k)
  <2>1. ToSend' \subseteq ToSend
    BY <1>4, SlotMoves DEF ReadEmail
  <2> QED BY <1>2, <1>4, <2>1 DEF ReadEmail
<1>5. CASE CheckLimit(k)
  <2>1. ToSend' \subseteq ToSend
    BY <1>5, SlotMoves DEF CheckLimit
  <2> QED BY <1>2, <1>5, <2>1 DEF CheckLimit
<1>6. CASE MarkOverLimit(k)
  <2>1. ToSend' \subseteq ToSend
    BY <1>6, SlotMoves DEF MarkOverLimit
  <2> QED BY <1>2, <1>6, <2>1 DEF MarkOverLimit
<1>7. CASE SendRaw(k)
  <2>1. ToSend' = ToSend \ {k} /\ k \in ToSend
    BY <1>7, SlotMoves DEF SendRaw
  <2>2. Cardinality(ToSend)' = Cardinality(ToSend) - 1
    BY <2>1, ToSendFinite, FS_RemoveElement
  <2>3. ToRun' = ToRun /\ ToRun \in {0, 1} /\ job' = job /\ sends' \in {sends, sends + 1}
    BY <1>7 DEF SendRaw, ToRun
  <2>4. added /\ ~revoked
    BY <2>1 DEF RunsAreCounted
  <2> QED BY <1>1, <2>2, <2>3, <2>4, ToSendFinite DEF RunsAreCounted, TypeOK
<1>8. CASE SaveMessageId(k)
  <2>1. ToSend' \subseteq ToSend
    BY <1>8, SlotMoves DEF SaveMessageId
  <2> QED BY <1>2, <1>8, <2>1 DEF SaveMessageId
<1>9. CASE MarkFailed(k)
  <2>1. ToSend' \subseteq ToSend
    BY <1>9, SlotMoves DEF MarkFailed
  <2> QED BY <1>2, <1>9, <2>1 DEF MarkFailed
<1>10. CASE FinishJob(k)
  <2>1. ToSend' \subseteq ToSend
    BY <1>10, SlotMoves DEF FinishJob
  <2>2. \/ job' = job \/ job' = NoJob
        \/ job.state = "active" /\ job' = [job EXCEPT !.state = "failed", !.owner = Nobody]
    BY <1>10, NumbersAssumption DEF FinishJob, TypeOK
  <2>3. ToRun' <= ToRun /\ (job'.state # "none" => job.state # "none" /\ job'.stalls = job.stalls)
    <3>1. CASE job' = job
      BY <3>1 DEF ToRun
    <3>2. CASE job' = NoJob
      BY <3>2 DEF ToRun, NoJob
    <3>3. CASE job.state = "active" /\ job' = [job EXCEPT !.state = "failed", !.owner = Nobody]
      <4>1. job'.state = "failed" /\ job'.stalls = job.stalls
        BY <3>3 DEF TypeOK
      <4> QED BY <3>3, <4>1 DEF ToRun
    <3> QED BY <2>2, <3>1, <3>2, <3>3
  <2> QED BY <1>1, <1>10, <2>1, <2>3, FewerRuns DEF FinishJob
<1>11. CASE Crash(k)
  <2>1. ToSend' \subseteq ToSend
    BY <1>11, SlotMoves DEF Crash
  <2> QED BY <1>2, <1>11, <2>1 DEF Crash
<1> QED
  BY <1>3, <1>4, <1>5, <1>6, <1>7, <1>8, <1>9, <1>10, <1>11 DEF Worker

LEMMA NextCounted ==
    ASSUME TypeOK, RunsAreCounted, [Next]_vars
    PROVE  RunsAreCounted'
<1> USE DEF history
<1>1. CASE Sender \/ SenderStops
  BY <1>1, SenderCounted
<1>2. ASSUME NEW c \in Clients, ReadScheduled(c) \/ Client(c) PROVE RunsAreCounted'
  BY <1>2, ClientCounted
<1>3. ASSUME NEW k \in Workers, Worker(k) \/ Crash(k) PROVE RunsAreCounted'
  BY <1>3, WorkerCounted
<1>4. ASSUME UNCHANGED <<run, sends, requeued, added, revoked, sender>>,
             job'.state = job.state \/ {job.state, job'.state} = {"delayed", "waiting"},
             job'.stalls = job.stalls
      PROVE  RunsAreCounted'
  <2>1. ToSend' = ToSend
    BY <1>4 DEF ToSend
  <2>2. ToRun' = ToRun /\ ToRun \in {0, 1}
    BY <1>4 DEF ToRun
  <2> QED BY <1>4, <2>1, <2>2, FewerRuns
<1>5. CASE Tick \/ HookRaises \/ UNCHANGED vars
  <2>1. UNCHANGED <<run, sends, requeued, added, revoked, sender>>
    BY <1>5 DEF Tick, HookRaises, vars
  <2>2. job'.state = job.state /\ job'.stalls = job.stalls
    BY <1>5 DEF Tick, HookRaises, vars, TypeOK
  <2> QED BY <1>4, <2>1, <2>2
<1>6. CASE PromoteJob
  BY <1>4, <1>6 DEF PromoteJob, TypeOK
<1>7. CASE JobLockExpires
  BY <1>4, <1>7 DEF JobLockExpires, TypeOK
<1>8. CASE RecoverStalled
  <2>1. ToSend' = ToSend /\ ToRun = 0 /\ added /\ ~revoked /\ requeued = job.stalls
    BY <1>8 DEF RecoverStalled, ToSend, ToRun, RunsAreCounted, TypeOK
  <2>2. UNCHANGED <<run, sends, added, revoked, sender>>
    BY <1>8 DEF RecoverStalled
  <2>3. Cardinality(ToSend)' = Cardinality(ToSend)
    BY <2>1
  <2>4. CASE job.stalls < MaxStalled
    <3>1. job'.state = "waiting" /\ job'.stalls = job.stalls + 1 /\ requeued' = requeued + 1
      BY <1>8, <2>4 DEF RecoverStalled, TypeOK
    <3>2. ToRun' = 1
      BY <3>1 DEF ToRun
    <3> QED BY <2>1, <2>2, <2>3, <2>4, <3>1, <3>2, ToSendFinite
            DEF RunsAreCounted, TypeOK, MaxStalled
  <2>5. CASE ~(job.stalls < MaxStalled)
    <3>1. job'.state = "failed" /\ job'.stalls = job.stalls /\ requeued' = requeued
      BY <1>8, <2>5 DEF RecoverStalled, TypeOK
    <3>2. ToRun' = 0
      BY <3>1 DEF ToRun
    <3> QED BY <2>1, <2>2, <2>3, <3>1, <3>2 DEF RunsAreCounted
  <2> QED BY <2>4, <2>5
<1> QED
  BY <1>1, <1>2, <1>3, <1>5, <1>6, <1>7, <1>8 DEF Next

\* Runs are counted from the start: the step both theorems below rest on.
LEMMA Counted == Spec => [](TypeOK /\ RunsAreCounted)
<1>1. Init => RunsAreCounted
  <2> SUFFICES ASSUME Init PROVE RunsAreCounted
    OBVIOUS
  <2>1. ToSend = {} /\ ToRun = 0
    BY DEF Init, ToSend, ToRun, NoJob
  <2>2. Cardinality(ToSend) = 0
    BY <2>1, FS_EmptySet
  <2> QED BY <2>1, <2>2 DEF Init, RunsAreCounted, NoJob, MaxStalled
<1>2. TypeOK /\ RunsAreCounted /\ [Next]_vars => RunsAreCounted'
  BY NextCounted
<1> QED BY <1>1, <1>2, TypeCorrect, PTL DEF Spec

\* SES gets an email at most once for each time its job was queued, so at most
\* twice, however many slots there are and however often they crash, stall and run
\* on without their job.
THEOREM AtMostTwice == Spec => []SendsBounded
<1>1. TypeOK /\ RunsAreCounted => SendsBounded
  <2> SUFFICES ASSUME TypeOK, RunsAreCounted PROVE SendsBounded
    OBVIOUS
  <2>1. ToRun \in Nat
    BY DEF ToRun
  <2> QED BY <2>1, ToSendFinite DEF RunsAreCounted, SendsBounded, TypeOK
<1> QED BY <1>1, Counted, PTL

\* A cancellation that took the job out of the queue before any slot had it holds,
\* however many requests and slots race with it.
THEOREM CancellationHolds == Spec => []CancelHolds
<1>1. RunsAreCounted => CancelHolds
  BY DEF RunsAreCounted, CancelHolds
<1> QED BY <1>1, Counted, PTL

-----------------------------------------------------------------------------
(***************************************************************************)
(* No email is early.                                                      *)
(***************************************************************************)

\* The delay that the sender, the queue or an update holds reaches the row's time, and
\* whoever may run or send has waited for it.
OnTime ==
    /\ sender \in {"queue", "bulk"} => at <= clock + delay
    /\ job.state = "delayed" => at <= clock + job.wait
    /\ job.state \in {"waiting", "active"} => at <= clock
    /\ ToSend # {} => at <= clock

Moving(c) == client[c].pc = "delay"

\* It holds but while an update has written a time that the job is yet to get.
Punctual ==
    /\ job.state = "delayed" => job.stalls = 0
    /\ sender = "start" =>
          /\ status = "none"
          /\ \A c \in Clients : client[c].pc = "idle"
          /\ \A k \in Workers : run[k] = "idle"
    /\ \A c \in Clients : client[c].pc = "time" => client[c].at <= clock + client[c].wait
    /\ ~missed => \A c \in Clients : Moving(c) => at <= clock + client[c].wait
    /\ missed \/ (\E c \in Clients : Moving(c)) \/ OnTime

\* What a delayed job excludes.
LEMMA DelayedIsFirst ==
    ASSUME TypeOK, RunsAreCounted, Punctual, job.state = "delayed"
    PROVE  ToSend = {} /\ sender \notin {"start", "queue", "bulk"}
<1>1. added /\ requeued = 0
  BY DEF TypeOK, RunsAreCounted, Punctual
<1>2. ToRun = 1
  BY DEF ToRun
<1>3. Cardinality(ToSend) = 0
  BY <1>1, <1>2, ToSendFinite DEF RunsAreCounted, TypeOK
<1> QED BY <1>1, <1>3, ToSendFinite, FS_EmptySet DEF RunsAreCounted

\* A step of the sender.
LEMMA SenderPunctual ==
    ASSUME TypeOK, RunsAreCounted, Punctual, Sender \/ SenderStops
    PROVE  Punctual'
<1>1. UNCHANGED <<clock, client, run, missed>> /\ UNCHANGED ToSend
  BY DEF Sender, SenderStops, CreateEmail, QueueEmail, QueueBulk, MarkUnqueued, SenderStep, ToSend
<1>2. at \in Nat /\ clock \in Nat /\ delay \in Nat
  BY DEF TypeOK
<1>3. CASE CreateEmail
  <2>1. /\ sender = "start" /\ sender' # "start" /\ UNCHANGED job
        /\ \/ \E t \in 0..MaxTime : at' = t /\ delay' = DelayUntil(t)
           \/ UNCHANGED <<at, delay>> /\ sender' = "ok"
    BY <1>3 DEF CreateEmail
  <2>2. /\ job.state = "none" /\ ToSend = {}
        /\ \A c \in Clients : client[c].pc = "idle"
    BY <2>1 DEF RunsAreCounted, TypeOK, Punctual
  <2>3. sender' \in {"queue", "bulk"} => at' <= clock + delay'
    BY <1>2, <2>1, DelayReaches
  <2>4. OnTime'
    BY <1>1, <2>1, <2>2, <2>3 DEF OnTime
  <2> QED BY <1>1, <2>1, <2>2, <2>4 DEF Punctual, Moving
<1>4. CASE sender \in {"queue", "bulk"} /\ sender' \notin {"start", "queue", "bulk"} /\ AddJob
           /\ UNCHANGED at
  <2>1. job'.stalls = 0 /\ job'.wait = delay /\ ToSend = {}
    BY <1>4 DEF AddJob, NoJob, RunsAreCounted
  <2>2. job'.state = IF delay = 0 THEN "waiting" ELSE "delayed"
    BY <1>4 DEF AddJob, NoJob
  <2>3. OnTime => OnTime'
    BY <1>1, <1>2, <1>4, <2>1, <2>2 DEF OnTime
  <2> QED BY <1>1, <1>4, <2>1, <2>3 DEF Punctual, Moving
<1>5. CASE UNCHANGED <<at, delay, job>> /\ sender # "start" /\ sender' \notin {"start", "queue", "bulk"}
  <2>1. OnTime => OnTime'
    BY <1>1, <1>5 DEF OnTime
  <2> QED BY <1>1, <1>5, <2>1 DEF Punctual, Moving
<1> QED
  BY <1>3, <1>4, <1>5 DEF Sender, SenderStops, QueueEmail, QueueBulk, MarkUnqueued

\* A step of an update or a cancellation.
LEMMA ClientPunctual ==
    ASSUME TypeOK, RunsAreCounted, Punctual, NEW c \in Clients, ReadScheduled(c) \/ Client(c)
    PROVE  Punctual'
<1>1. UNCHANGED <<clock, sender, delay, run>> /\ UNCHANGED ToSend
  BY DEF Client, ReadScheduled, WriteTime, ChangeDelay, GetJob, RemoveJob, MarkCancelled, ClientStep,
         ToSend
<1>2. /\ at \in Nat /\ clock \in Nat
      /\ \A d \in Clients : client[d].at \in Nat /\ client[d].wait \in Nat
  BY DEF TypeOK
<1>3. \A d \in Clients \ {c} : UNCHANGED client[d]
  BY DEF Client, ReadScheduled, WriteTime, ChangeDelay, GetJob, RemoveJob, MarkCancelled, Moves, Stops,
         TypeOK
<1>4. ASSUME client'[c].pc \notin {"time", "delay"}, ~Moving(c), UNCHANGED <<at, missed>>,
             sender # "start", job' = job \/ job' = NoJob
      PROVE  Punctual'
  <2>1. OnTime => OnTime'
    BY <1>1, <1>4 DEF OnTime, NoJob
  <2>2. (\E d \in Clients : Moving(d)) => \E d \in Clients : Moving(d)'
    BY <1>3, <1>4 DEF Moving
  <2>3. job'.state = "delayed" => job'.stalls = 0
    BY <1>4 DEF Punctual, NoJob
  <2>4. \A d \in Clients : client'[d].pc = "time" => client'[d].at <= clock' + client'[d].wait
    BY <1>1, <1>3, <1>4 DEF Punctual
  <2>5. ~missed' => \A d \in Clients : Moving(d)' => at' <= clock' + client'[d].wait
    BY <1>1, <1>3, <1>4 DEF Punctual, Moving
  <2> QED BY <1>1, <1>4, <2>1, <2>2, <2>3, <2>4, <2>5 DEF Punctual
<1>5. sender # "start"
  BY DEF Client, ReadScheduled, WriteTime, ChangeDelay, GetJob, RemoveJob, MarkCancelled, Punctual
<1>6. CASE ReadScheduled(c)
  <2>1. UNCHANGED <<at, missed, job>> /\ client[c].pc = "idle"
    BY <1>6 DEF ReadScheduled
  <2>2. CASE Moves(c, "get")
    <3>1. client'[c].pc = "get"
      BY <2>2 DEF Moves, TypeOK
    <3> QED BY <1>4, <1>5, <2>1, <3>1 DEF Moving
  <2>3. ASSUME NEW t \in 1..MaxTime,
               client' = [client EXCEPT ![c] = [pc |-> "time", at |-> t, wait |-> DelayUntil(t)]]
        PROVE  Punctual'
    <3>1. client'[c] = [pc |-> "time", at |-> t, wait |-> DelayUntil(t)]
      BY <2>3 DEF TypeOK
    <3>2. client'[c].pc = "time" /\ client'[c].at <= clock + client'[c].wait
      BY <1>2, <2>3, <3>1, DelayReaches
    <3>3. OnTime => OnTime'
      BY <1>1, <2>1 DEF OnTime
    <3>4. (\E d \in Clients : Moving(d)) => \E d \in Clients : Moving(d)'
      BY <1>3, <2>1 DEF Moving
    <3>5. \A d \in Clients : client'[d].pc = "time" => client'[d].at <= clock' + client'[d].wait
      BY <1>1, <1>3, <3>2 DEF Punctual
    <3>6. ~missed' => \A d \in Clients : Moving(d)' => at' <= clock' + client'[d].wait
      BY <1>1, <1>3, <2>1, <3>2 DEF Punctual, Moving
    <3> QED BY <1>1, <1>5, <2>1, <3>3, <3>4, <3>5, <3>6 DEF Punctual
  <2> QED BY <1>6, <2>2, <2>3 DEF ReadScheduled
<1>7. CASE WriteTime(c)
  <2>1. client[c].pc = "time" /\ UNCHANGED job
    BY <1>7 DEF WriteTime
  <2>2. CASE Stops(c) /\ UNCHANGED <<at, missed>>
    <3>1. client'[c].pc = "idle"
      BY <2>2 DEF Stops, IdleClient, TypeOK
    <3> QED BY <1>4, <1>5, <2>1, <2>2, <3>1 DEF Moving
  <2>3. CASE /\ at' = client[c].at
             /\ client' = [client EXCEPT ![c].pc = "delay", ![c].at = 0]
             /\ missed' = (missed \/ \E d \in Clients : client[d].pc = "delay")
    <3>1. client'[c].pc = "delay" /\ client'[c].wait = client[c].wait
      BY <2>3 DEF TypeOK
    <3>2. at' <= clock' + client'[c].wait
      BY <1>1, <2>1, <2>3, <3>1 DEF Punctual
    <3>3. \A d \in Clients : client'[d].pc = "time" => client'[d].at <= clock' + client'[d].wait
      BY <1>1, <1>3, <3>1 DEF Punctual
    <3>4. ~missed' => \A d \in Clients : Moving(d)' => d = c
      BY <1>3, <2>3 DEF Moving
    <3> QED BY <1>1, <1>5, <2>1, <3>1, <3>2, <3>3, <3>4 DEF Punctual, Moving
  <2> QED BY <1>7, <2>2, <2>3 DEF WriteTime
<1>8. CASE ChangeDelay(c)
  <2>1. client'[c].pc = "idle" /\ UNCHANGED at /\ Moving(c)
    BY <1>8 DEF ChangeDelay, Stops, IdleClient, TypeOK, Moving
  <2>2. \A d \in Clients : client'[d].pc = "time" => client'[d].at <= clock' + client'[d].wait
    BY <1>1, <1>3, <2>1 DEF Punctual
  <2>3. CASE missed' = TRUE /\ UNCHANGED job
    BY <1>1, <1>5, <2>1, <2>2, <2>3 DEF Punctual
  <2>4. CASE job.state = "delayed" /\ job' = [job EXCEPT !.wait = client[c].wait] /\ UNCHANGED missed
    <3>1. job'.state = "delayed" /\ job'.wait = client[c].wait /\ job'.stalls = job.stalls
      BY <2>4 DEF TypeOK
    <3>2. ToSend = {} /\ sender \notin {"start", "queue", "bulk"}
      BY <2>4, DelayedIsFirst
    <3>3. ~missed => OnTime'
      BY <1>1, <2>1, <3>1, <3>2 DEF OnTime, Punctual
    <3>4. ~missed' => \A d \in Clients : Moving(d)' => at' <= clock' + client'[d].wait
      BY <1>1, <1>3, <2>1, <2>4 DEF Punctual, Moving
    <3> QED BY <1>1, <1>5, <2>2, <2>4, <3>1, <3>3, <3>4 DEF Punctual
  <2> QED BY <1>8, <2>3, <2>4 DEF ChangeDelay
<1>9. CASE GetJob(c) \/ RemoveJob(c) \/ MarkCancelled(c)
  <2>1. client'[c].pc \notin {"time", "delay"} /\ ~Moving(c)
    BY <1>9 DEF GetJob, RemoveJob, MarkCancelled, Stops, Moves, IdleClient, TypeOK, Moving
  <2> QED BY <1>4, <1>5, <1>9, <2>1 DEF GetJob, RemoveJob, MarkCancelled
<1> QED BY <1>6, <1>7, <1>8, <1>9 DEF Client

\* A step that leaves the clients and the row's time alone, and lets nobody run early.
LEMMA RunsPunctual ==
    ASSUME TypeOK, Punctual, UNCHANGED <<at, client, missed, sender, delay>>,
           clock' \in Nat, clock <= clock', sender # "start",
           job'.state = "delayed" => job.state = "delayed" /\ job'.stalls = job.stalls,
           OnTime => OnTime'
    PROVE  Punctual'
<1>1. clock \in Nat /\ at \in Nat /\ \A d \in Clients : client[d].at \in Nat /\ client[d].wait \in Nat
  BY DEF TypeOK
<1>2. \A d \in Clients : client'[d].pc = "time" => client'[d].at <= clock' + client'[d].wait
  BY <1>1 DEF Punctual
<1>3. ~missed' => \A d \in Clients : Moving(d)' => at' <= clock' + client'[d].wait
  BY <1>1 DEF Punctual, Moving
<1> QED BY <1>2, <1>3 DEF Punctual, Moving

LEMMA WorkerPunctual ==
    ASSUME TypeOK, RunsAreCounted, Punctual, NEW k \in Workers, Worker(k) \/ Crash(k)
    PROVE  Punctual'
<1>1. UNCHANGED <<at, client, missed, sender, delay, clock>> /\ clock \in Nat
  BY DEF Worker, TakeJob, ReadEmail, CheckLimit, MarkOverLimit, SendRaw, SaveMessageId, MarkFailed,
         FinishJob, Crash, WorkerStep, history, TypeOK
<1>2. sender # "start"
  <2>1. job.state = "waiting" \/ run[k] # "idle"
    BY DEF Worker, TakeJob, ReadEmail, CheckLimit, MarkOverLimit, SendRaw, SaveMessageId, MarkFailed,
           FinishJob, Crash
  <2> QED BY <2>1 DEF Punctual, RunsAreCounted, TypeOK
<1>3. CASE TakeJob(k)
  <2>1. job.state = "waiting" /\ job'.state = "active"
    BY <1>3 DEF TakeJob, TypeOK
  <2>2. OnTime => OnTime'
    BY <1>1, <2>1 DEF OnTime
  <2> QED BY <1>1, <1>2, <2>1, <2>2, RunsPunctual
<1>4. ASSUME ToSend' \subseteq ToSend, UNCHANGED job \/ job'.state \in {"none", "failed"}
      PROVE  Punctual'
  <2>1. OnTime => OnTime'
    BY <1>1, <1>4 DEF OnTime
  <2> QED BY <1>1, <1>2, <1>4, <2>1, RunsPunctual
<1>5. CASE ReadEmail(k) \/ CheckLimit(k) \/ MarkOverLimit(k) \/ SendRaw(k) \/ SaveMessageId(k)
           \/ MarkFailed(k) \/ Crash(k)
  <2>1. ToSend' \subseteq ToSend
    BY <1>5, SlotMoves DEF ReadEmail, CheckLimit, MarkOverLimit, SendRaw, SaveMessageId, MarkFailed, Crash
  <2>2. UNCHANGED job
    BY <1>5 DEF ReadEmail, CheckLimit, MarkOverLimit, SendRaw, SaveMessageId, MarkFailed, Crash
  <2> QED BY <1>4, <2>1, <2>2
<1>6. CASE FinishJob(k)
  <2>1. ToSend' \subseteq ToSend
    BY <1>6, SlotMoves DEF FinishJob
  <2>2. UNCHANGED job \/ job'.state \in {"none", "failed"}
    BY <1>6 DEF FinishJob, NoJob, TypeOK
  <2> QED BY <1>4, <2>1, <2>2
<1> QED BY <1>3, <1>5, <1>6 DEF Worker

\* Time passes for a delay that is not yet running.
LEMMA Later ==
    ASSUME NEW a \in Nat, NEW b \in Nat, NEW c \in Nat, NEW d \in Nat, a <= b + c, b <= d
    PROVE  a <= d + c
OBVIOUS

LEMMA NextPunctual == TypeOK /\ RunsAreCounted /\ Punctual /\ [Next]_vars => Punctual'
<1> SUFFICES ASSUME TypeOK, RunsAreCounted, Punctual, [Next]_vars PROVE Punctual'
  OBVIOUS
<1> USE DEF history
<1>1. CASE Sender \/ SenderStops
  BY <1>1, SenderPunctual
<1>2. ASSUME NEW c \in Clients, ReadScheduled(c) \/ Client(c) PROVE Punctual'
  BY <1>2, ClientPunctual
<1>3. ASSUME NEW k \in Workers, Worker(k) \/ Crash(k) PROVE Punctual'
  BY <1>3, WorkerPunctual
<1>4. CASE Tick
  <2>1. UNCHANGED <<at, client, missed, sender, delay, status, run>> /\ UNCHANGED ToSend
    BY <1>4 DEF Tick, ToSend
  <2>2. clock \in Nat /\ clock' \in Nat /\ clock <= clock' /\ (clock < MaxTime => clock' = clock + 1)
    BY <1>4, NumbersAssumption DEF Tick, TypeOK
  <2>3. at \in Nat /\ delay \in Nat /\ job.wait \in Nat /\ (clock = MaxTime => at <= clock')
    BY <2>2, NumbersAssumption DEF TypeOK
  <2>4. job'.state = job.state /\ job'.stalls = job.stalls /\ job'.wait \in Nat
        /\ job'.wait + 1 >= job.wait
    BY <1>4, <2>3 DEF Tick, TypeOK
  <2>5. clock < MaxTime \/ clock = MaxTime
    BY NumbersAssumption DEF TypeOK
  <2>6. OnTime => OnTime'
    <3>1. at <= clock => at' <= clock'
      BY <2>1, <2>2, <2>3
    <3>2. at <= clock + delay => at' <= clock' + delay'
      BY <2>1, <2>2, <2>3, Later
    <3>3. at <= clock + job.wait => at' <= clock' + job'.wait
      BY <2>1, <2>2, <2>3, <2>4, <2>5
    <3> QED BY <2>1, <2>4, <3>1, <3>2, <3>3 DEF OnTime
  <2>7. CASE sender # "start"
    BY <2>1, <2>2, <2>4, <2>6, <2>7, RunsPunctual
  <2>8. CASE sender = "start"
    <3>1. \A c \in Clients : client[c].pc = "idle"
      BY <2>8 DEF Punctual
    <3> QED BY <2>1, <2>4, <2>6, <2>8, <3>1 DEF Punctual, Moving
  <2> QED BY <2>7, <2>8
<1>5. CASE PromoteJob \/ JobLockExpires \/ RecoverStalled
  <2>1. UNCHANGED <<at, client, missed, sender, delay, clock, run>> /\ UNCHANGED ToSend
    BY <1>5 DEF PromoteJob, JobLockExpires, RecoverStalled, ToSend
  <2>2. job.state # "none" /\ sender # "start" /\ clock \in Nat /\ at \in Nat
    BY <1>5 DEF PromoteJob, JobLockExpires, Locked, RecoverStalled, RunsAreCounted, TypeOK
  <2>3. \/ job.state = "delayed" /\ job.wait = 0 /\ job'.state = "waiting"
        \/ job.state = "active" /\ job'.state \in {"active", "waiting", "failed"}
    BY <1>5 DEF PromoteJob, JobLockExpires, Locked, RecoverStalled, TypeOK
  <2>4. OnTime => OnTime'
    BY <2>1, <2>2, <2>3 DEF OnTime
  <2> QED BY <2>1, <2>2, <2>3, <2>4, RunsPunctual
<1>6. CASE HookRaises
  <2>1. sender # "start"
    BY <1>6 DEF HookRaises, RunsAreCounted, TypeOK
  <2>2. UNCHANGED <<at, client, missed, sender, delay, clock, job, run>> /\ clock \in Nat
    BY <1>6 DEF HookRaises, TypeOK
  <2>3. OnTime => OnTime'
    BY <2>2 DEF OnTime, ToSend
  <2> QED BY <2>1, <2>2, <2>3, RunsPunctual
<1>7. CASE UNCHANGED vars
  BY <1>7 DEF vars, Punctual, OnTime, Moving, ToSend
<1> QED BY <1>1, <1>2, <1>3, <1>4, <1>5, <1>6, <1>7 DEF Next

\* No slot hands the email to SES before the time that its row shows, however requests
\* to move and to cancel it, slots and the passing of time interleave, unless an update
\* could not move the job, or is yet to, or two of them crossed (updateEmail).
THEOREM NothingIsEarly == Spec => NotEarly
<1>1. Init => Punctual
  <2> SUFFICES ASSUME Init PROVE Punctual
    OBVIOUS
  <2>1. ToSend = {} /\ job.state = "none" /\ sender = "start" /\ status = "none"
    BY DEF Init, ToSend, NoJob
  <2>2. \A c \in Clients : client[c].pc = "idle"
    BY DEF Init, IdleClient
  <2> QED BY <2>1, <2>2 DEF Punctual, OnTime, Moving, Init
<1>2. TypeOK /\ Punctual /\ [Next]_vars =>
        [sends' # sends =>
            at <= clock \/ missed \/ \E c \in Clients : client[c].pc = "delay"]_vars
  <2> SUFFICES ASSUME TypeOK, Punctual, [Next]_vars, sends' # sends
               PROVE  at <= clock \/ missed \/ \E c \in Clients : client[c].pc = "delay"
    OBVIOUS
  <2>1. PICK k \in Workers : SendRaw(k)
    <3> USE DEF history
    <3>1. ~(Sender \/ SenderStops)
      BY DEF Sender, SenderStops, CreateEmail, QueueEmail, QueueBulk, MarkUnqueued, SenderStep
    <3>2. ASSUME NEW c \in Clients PROVE ~(ReadScheduled(c) \/ Client(c))
      BY DEF Client, ReadScheduled, WriteTime, ChangeDelay, GetJob, RemoveJob, MarkCancelled, ClientStep
    <3>3. ~(Tick \/ PromoteJob \/ HookRaises \/ JobLockExpires \/ RecoverStalled \/ UNCHANGED vars)
      BY DEF Tick, PromoteJob, HookRaises, JobLockExpires, RecoverStalled, vars
    <3>4. PICK k \in Workers : Worker(k) \/ Crash(k)
      BY <3>1, <3>2, <3>3 DEF Next
    <3>5. SendRaw(k)
      BY <3>4 DEF Worker, TakeJob, ReadEmail, CheckLimit, MarkOverLimit, SaveMessageId, MarkFailed,
                  FinishJob, Crash
    <3> QED BY <3>5
  <2>2. ToSend # {}
    BY <2>1 DEF SendRaw, ToSend
  <2> QED BY <2>2 DEF Punctual, OnTime, Moving
<1>3. TypeOK /\ RunsAreCounted /\ Punctual /\ [Next]_vars => Punctual'
  BY NextPunctual
<1> QED BY <1>1, <1>2, <1>3, Counted, PTL DEF Spec, NotEarly

-----------------------------------------------------------------------------
(***************************************************************************)
(* Idempotency, in front of the send endpoints: for every set of requests  *)
(* and payloads.  It shares no state with the emails above.                *)
(***************************************************************************)

\* The stored record gives a request an email or a conflict.
LEMMA ReplyType ==
    ASSUME KeyTypeOK, result # NoRequest, NEW r \in Requests
    PROVE  Reply(r) \in Requests \cup Refusals
BY DEF Reply, KeyTypeOK, Refusals

LEMMA KeyInitType == KeyInit => KeyTypeOK
BY DEF KeyInit, KeyTypeOK, KeyPoints

\* Every step of a request leaves the types.
LEMMA KeyStepType ==
    ASSUME KeyTypeOK, NEW r \in Requests, Step(r) \/ KeyCrash(r)
    PROVE  KeyTypeOK'
<1> USE DEF KeyTypeOK, KeyPoints, Refusals, KeyGoesTo, Answers, RedisFails
<1>1. CASE ReadResult(r)
  BY <1>1, ReplyType DEF ReadResult
<1>2. CASE AcquireLock(r)
  <2>1. pc' \in [Requests -> KeyPoints]
    BY <1>2 DEF AcquireLock
  <2>2. answer' \in [Requests -> Requests \cup Refusals \cup {"none"}]
    BY <1>2 DEF AcquireLock
  <2>3. lock' \in BOOLEAN /\ holder' \in Requests \cup {NoRequest}
    BY <1>2 DEF AcquireLock
  <2> QED BY <1>2, <2>1, <2>2, <2>3 DEF AcquireLock
<1>3. CASE ReadAgain(r)
  BY <1>3, ReplyType DEF ReadAgain
<1>4. CASE Operate(r)
  BY <1>4 DEF Operate
<1>5. CASE StoreResult(r)
  BY <1>5 DEF StoreResult
<1>6. CASE ReleaseLock(r)
  BY <1>6 DEF ReleaseLock, Deletes, Loses
<1>7. CASE KeyCrash(r)
  BY <1>7 DEF KeyCrash
<1> QED BY <1>1, <1>2, <1>3, <1>4, <1>5, <1>6, <1>7 DEF Step

LEMMA KeyNextType == KeyTypeOK /\ [KeyNext]_keyVars => KeyTypeOK'
<1> SUFFICES ASSUME KeyTypeOK, [KeyNext]_keyVars PROVE KeyTypeOK'
  OBVIOUS
<1>1. ASSUME NEW r \in Requests, Step(r) \/ KeyCrash(r) PROVE KeyTypeOK'
  BY <1>1, KeyStepType
<1>2. CASE LockExpires
  BY <1>2 DEF LockExpires, Loses, KeyTypeOK
<1>3. CASE UNCHANGED keyVars
  BY <1>3 DEF keyVars, KeyTypeOK
<1> QED BY <1>1, <1>2, <1>3 DEF KeyNext, Done

\* Every variable keeps its type, and only requests' emails are answered.
THEOREM KeyTypeCorrect == KeySpec => []KeyTypeOK
<1>1. KeyInit => KeyTypeOK
  BY KeyInitType
<1>2. KeyTypeOK /\ [KeyNext]_keyVars => KeyTypeOK'
  BY KeyNextType
<1> QED BY <1>1, <1>2, PTL DEF KeySpec

-----------------------------------------------------------------------------
\* A request in its operation that did not lose the lock set it, and deletes its own.
LEMMA NextHolds ==
    ASSUME KeyTypeOK, HolderOperates, [KeyNext]_keyVars
    PROVE  HolderOperates'
<1> USE DEF KeyTypeOK, HolderOperates, OneOperation, InOperation, KeyGoesTo, Answers, RedisFails
<1>1. ASSUME NEW r \in Requests, ReadResult(r) PROVE HolderOperates'
  BY <1>1 DEF ReadResult
<1>2. ASSUME NEW r \in Requests, AcquireLock(r) PROVE HolderOperates'
  BY <1>2 DEF AcquireLock
<1>3. ASSUME NEW r \in Requests, ReadAgain(r) PROVE HolderOperates'
  BY <1>3 DEF ReadAgain
<1>4. ASSUME NEW r \in Requests, Operate(r) PROVE HolderOperates'
  BY <1>4 DEF Operate
<1>5. ASSUME NEW r \in Requests, StoreResult(r) PROVE HolderOperates'
  BY <1>5 DEF StoreResult
<1>6. ASSUME NEW r \in Requests, ReleaseLock(r) PROVE HolderOperates'
  <2>1. pc[r] = "release" /\ UNCHANGED holder /\ lock' \in {lock, FALSE}
    BY <1>6 DEF ReleaseLock, Deletes
  \* whoever deletes another's lock has lost its own
  <2>2. CASE NotItsOwn(r) /\ Loses(holder, "deleted")
    <3>1. holder \in Requests /\ lostBy[r] # "no" /\ ~lock'
      BY <1>6, <2>1, <2>2 DEF NotItsOwn, ReleaseLock, Deletes, Loses
    <3> QED BY <1>6, <2>1, <2>2, <3>1 DEF NotItsOwn, ReleaseLock, Deletes, Loses
  <2>3. CASE UNCHANGED lostBy
    BY <1>6, <2>1, <2>3 DEF NotItsOwn, ReleaseLock, Deletes, Loses
  <2>4. CASE ~NotItsOwn(r) /\ Loses(r, "resent") /\ lock /\ ~lock' /\ UNCHANGED pc
    BY <2>1, <2>4 DEF NotItsOwn, Loses
  <2> QED BY <1>6, <2>2, <2>3, <2>4 DEF ReleaseLock, Deletes
<1>7. ASSUME NEW r \in Requests, KeyCrash(r) PROVE HolderOperates'
  BY <1>7 DEF KeyCrash
<1>8. ASSUME LockExpires PROVE HolderOperates'
  BY <1>8 DEF LockExpires, Loses
<1>9. ASSUME UNCHANGED keyVars PROVE HolderOperates'
  BY <1>9 DEF keyVars
<1> QED
  BY <1>1, <1>2, <1>3, <1>4, <1>5, <1>6, <1>7, <1>8, <1>9 DEF KeyNext, Step, Done

\* Two requests with one key are in their operations together only if one of the two
\* has lost its lock, and no request loses it to another before some operation outlived
\* the lock's TTL or some DEL was sent twice: however many requests there are, and however
\* long their operations take.
THEOREM OneAtATime == KeySpec => []OneOperation
<1>1. KeyInit => HolderOperates
  BY DEF KeyInit, HolderOperates, OneOperation, InOperation
<1>2. KeyTypeOK /\ HolderOperates /\ [KeyNext]_keyVars => HolderOperates'
  BY NextHolds
<1>3. HolderOperates => OneOperation
  BY DEF HolderOperates
<1> QED BY <1>1, <1>2, <1>3, KeyTypeCorrect, PTL DEF KeySpec

-----------------------------------------------------------------------------
\* Once an email was answered a result is stored, and stays.
LEMMA NextStored ==
    ASSUME KeyTypeOK, AnswersAreStored, [KeyNext]_keyVars
    PROVE  AnswersAreStored'
<1> USE RequestsAssumption DEF KeyTypeOK, AnswersAreStored, RetrySendsNothing, KeyGoesTo, Answers, RedisFails, Refusals
<1>1. ASSUME NEW r \in Requests, ReadResult(r) PROVE AnswersAreStored'
  <2>1. result' = result /\ sent' = sent /\ r \notin sent
    BY <1>1 DEF ReadResult
  <2>2. \A q \in Requests : answer'[q] \in Requests => result # NoRequest
    BY <1>1 DEF ReadResult
  <2>3. pc'[r] \in {"lock", "run", "store"} => known'[r] = {}
    <3>1. pc'[r] \in {"lock", "run", "store"} => result = NoRequest
      BY <1>1 DEF ReadResult
    <3>2. known'[r] = {q \in Requests : pc[q] = "done" /\ answer[q] \in Requests}
      BY <1>1 DEF ReadResult
    <3> QED BY <3>1, <3>2
  <2>4. \A q \in Requests \ {r} : pc'[q] = pc[q] /\ known'[q] = known[q]
    BY <1>1 DEF ReadResult
  <2>5. pc'[r] # "new"
    BY <1>1 DEF ReadResult
  <2> QED BY <2>1, <2>2, <2>3, <2>4, <2>5
<1>2. ASSUME NEW r \in Requests, AcquireLock(r) PROVE AnswersAreStored'
  BY <1>2 DEF AcquireLock
<1>3. ASSUME NEW r \in Requests, ReadAgain(r) PROVE AnswersAreStored'
  BY <1>3, ReplyType DEF ReadAgain
<1>4. ASSUME NEW r \in Requests, Operate(r) PROVE AnswersAreStored'
  BY <1>4 DEF Operate
<1>5. ASSUME NEW r \in Requests, StoreResult(r) PROVE AnswersAreStored'
  BY <1>5 DEF StoreResult
<1>6. ASSUME NEW r \in Requests, ReleaseLock(r) PROVE AnswersAreStored'
  <2>1. UNCHANGED <<result, sent, known>> /\ (UNCHANGED pc \/ pc' = [pc EXCEPT ![r] = "done"])
    BY <1>6 DEF ReleaseLock
  <2>2. UNCHANGED answer \/ answer' = [answer EXCEPT ![r] = "error"]
    BY <1>6 DEF ReleaseLock
  <2> QED BY <2>1, <2>2
<1>7. ASSUME NEW r \in Requests, KeyCrash(r) PROVE AnswersAreStored'
  BY <1>7 DEF KeyCrash
<1>8. ASSUME LockExpires PROVE AnswersAreStored'
  BY <1>8 DEF LockExpires
<1>9. ASSUME UNCHANGED keyVars PROVE AnswersAreStored'
  BY <1>9 DEF keyVars
<1> QED
  BY <1>1, <1>2, <1>3, <1>4, <1>5, <1>6, <1>7, <1>8, <1>9 DEF KeyNext, Step, Done

\* A request that starts after the key was answered with an email sends
\* nothing, whatever fails or crashes, and even if the lock is lost.
THEOREM RetryIsSafe == KeySpec => []RetrySendsNothing
<1>1. KeyInit => AnswersAreStored
  BY RequestsAssumption DEF KeyInit, AnswersAreStored, RetrySendsNothing, Refusals
<1>2. KeyTypeOK /\ AnswersAreStored /\ [KeyNext]_keyVars => AnswersAreStored'
  BY NextStored
<1>3. AnswersAreStored => RetrySendsNothing
  BY DEF AnswersAreStored
<1> QED BY <1>1, <1>2, <1>3, KeyTypeCorrect, PTL DEF KeySpec

-----------------------------------------------------------------------------
\* The stored record is of an email that was sent, and emails are never unsent.
LEMMA NextSent ==
    ASSUME KeyTypeOK, StoredWasSent, [KeyNext]_keyVars
    PROVE  StoredWasSent'
<1> USE RequestsAssumption DEF KeyTypeOK, StoredWasSent, AnswerMatches, KeyGoesTo, Answers, RedisFails, Refusals
<1>1. ASSUME NEW r \in Requests, ReadResult(r) PROVE StoredWasSent'
  BY <1>1 DEF ReadResult, Reply
<1>2. ASSUME NEW r \in Requests, AcquireLock(r) PROVE StoredWasSent'
  BY <1>2 DEF AcquireLock
<1>3. ASSUME NEW r \in Requests, ReadAgain(r) PROVE StoredWasSent'
  BY <1>3 DEF ReadAgain, Reply
<1>4. ASSUME NEW r \in Requests, Operate(r) PROVE StoredWasSent'
  BY <1>4 DEF Operate
<1>5. ASSUME NEW r \in Requests, StoreResult(r) PROVE StoredWasSent'
  BY <1>5 DEF StoreResult
<1>6. ASSUME NEW r \in Requests, ReleaseLock(r) PROVE StoredWasSent'
  <2>1. UNCHANGED <<body, result, sent>> /\ (UNCHANGED pc \/ pc' = [pc EXCEPT ![r] = "done"])
    BY <1>6 DEF ReleaseLock
  <2>2. UNCHANGED answer \/ answer' = [answer EXCEPT ![r] = "error"]
    BY <1>6 DEF ReleaseLock
  <2> QED BY <2>1, <2>2
<1>7. ASSUME NEW r \in Requests, KeyCrash(r) PROVE StoredWasSent'
  BY <1>7 DEF KeyCrash
<1>8. ASSUME LockExpires PROVE StoredWasSent'
  BY <1>8 DEF LockExpires
<1>9. ASSUME UNCHANGED keyVars PROVE StoredWasSent'
  BY <1>9 DEF keyVars
<1> QED
  BY <1>1, <1>2, <1>3, <1>4, <1>5, <1>6, <1>7, <1>8, <1>9 DEF KeyNext, Step, Done

\* Every email a request is answered with was sent, for the payload it carries.
THEOREM AnswersMatch == KeySpec => []AnswerMatches
<1>1. KeyInit => StoredWasSent
  BY RequestsAssumption DEF KeyInit, StoredWasSent, AnswerMatches, Refusals
<1>2. KeyTypeOK /\ StoredWasSent /\ [KeyNext]_keyVars => StoredWasSent'
  BY NextSent
<1>3. StoredWasSent => AnswerMatches
  BY DEF StoredWasSent
<1> QED BY <1>1, <1>2, <1>3, KeyTypeCorrect, PTL DEF KeySpec

=============================================================================
