------------------------ MODULE CampaignBatchProofs ------------------------
(***************************************************************************)
(* Theorems about CampaignBatch, for every book, batch size, set of slots  *)
(* and bounds.                                                             *)
(***************************************************************************)
EXTENDS CampaignBatch, FiniteSetTheorems, WellFoundedInduction, TLAPS

-----------------------------------------------------------------------------
(***************************************************************************)
(* The least and the greatest contact, and the pages of the cursor.        *)
(***************************************************************************)

LEMMA LeastExists ==
    ASSUME NEW S \in SUBSET Nat, S # {}
    PROVE  \E x \in S : \A y \in S : x <= y
<1> DEFINE R == OpToRel(<, Nat)
<1>1. PICK x \in S : \A y \in S : ~(<<y, x>> \in R)
  BY NatLessThanWellFounded, WFMin, Zenon
<1>2. \A y \in S : x <= y
  <2> TAKE y \in S
  <2>1. <<y, x>> \in Nat \X Nat /\ <<y, x>>[1] = y /\ <<y, x>>[2] = x
    OBVIOUS
  <2>2. ~(y < x)
    BY <1>1, <2>1 DEF OpToRel
  <2> QED BY <2>2
<1> QED BY <1>2

LEMMA MinIsLeast ==
    ASSUME NEW S \in SUBSET Nat, S # {}
    PROVE  Min(S) \in S /\ \A y \in S : Min(S) <= y
BY LeastExists DEF Min

\* Contacts are bounded, so that a set of them has a greatest one.
LEMMA MaxIsGreatest ==
    ASSUME NEW S \in SUBSET Contacts, S # {}
    PROVE  Max(S) \in S /\ \A y \in S : y <= Max(S)
<1> DEFINE T == {n \in Nat : \E x \in S : n = N - x}
<1>1. T \in SUBSET Nat /\ T # {}
  <2>1. PICK x \in S : TRUE
    OBVIOUS
  <2>2. N - x \in T
    BY NumbersAssumption DEF Contacts
  <2> QED BY <2>2
<1>2. PICK n \in T : \A m \in T : n <= m
  BY <1>1, LeastExists
<1>3. PICK x \in S : n = N - x
  BY <1>2
<1>4. \A y \in S : x >= y
  <2> TAKE y \in S
  <2>1. N - y \in T
    BY NumbersAssumption DEF Contacts
  <2>2. N - x <= N - y
    BY <1>2, <1>3, <2>1
  <2> QED BY <2>2, NumbersAssumption DEF Contacts
<1>5. Max(S) \in S /\ \A y \in S : Max(S) >= y
  BY <1>4 DEF Max
<1> QED BY <1>5, NumbersAssumption DEF Contacts
LEMMA HandIsContact ==
    ASSUME TypeOK, NEW k \in Workers, run[k].todo # {}
    PROVE  InHand(k) \in run[k].todo /\ InHand(k) \in Contacts
<1>1. run[k].todo \in SUBSET Contacts
  BY DEF TypeOK
<1>2. run[k].todo \in SUBSET Nat
  BY <1>1, NumbersAssumption DEF Contacts
<1> QED BY <1>1, <1>2, MinIsLeast DEF InHand

\* While the contacts stay as they are, a page leaves none out.
LEMMA PageFacts ==
    ASSUME NEW from \in 0..N, from = 0 \/ from \in Subscribed
    PROVE  /\ Page(from) \in SUBSET Subscribed
           /\ \A c \in Page(from) : \A d \in Subscribed :
                from < d /\ d <= c => d \in Page(from)
           /\ Page(from) = {} => \A d \in Subscribed : d <= from
<1> DEFINE match == {c \in Subscribed : c >= from}
           after == IF from = 0 \/ match = {} THEN match ELSE match \ {Min(match)}
           upto(c) == {d \in after : d <= c}
<1>1. Subscribed \in SUBSET Contacts /\ Contacts \in SUBSET Nat /\ IsFiniteSet(Contacts)
  <2>1. IsFiniteSet(1..N)
    BY FS_Interval, NumbersAssumption
  <2> QED BY <2>1, NumbersAssumption DEF Subscribed, Contacts
<1>0. from \in Nat /\ (\A d \in Subscribed : d \in Nat /\ 0 < d)
  BY NumbersAssumption DEF Subscribed, Contacts
<1>2. after = {d \in Subscribed : from < d}
  <2>1. CASE from = 0
    BY <1>0, <2>1
  <2>2. CASE from # 0
    <3>1. from \in match
      BY <1>1, <2>2
    <3>2. Min(match) \in match /\ Min(match) <= from
      BY <1>1, <3>1, MinIsLeast
    <3>3. Min(match) = from
      BY <1>0, <3>2
    <3>4. after = match \ {from}
      BY <2>2, <3>1, <3>3
    <3> QED BY <1>0, <3>4
  <2> QED BY <2>1, <2>2
<1>3. \A c : upto(c) \in SUBSET Contacts /\ IsFiniteSet(upto(c)) /\ Cardinality(upto(c)) \in Nat
  <2> TAKE c
  <2>1. upto(c) \in SUBSET Contacts
    BY <1>1, <1>2
  <2> QED BY <1>1, <2>1, FS_Subset, FS_CardinalityType
<1>4. Page(from) = {c \in after : Cardinality(upto(c)) <= BatchSize}
  BY DEF Page
<1> HIDE DEF match, after
<1>5. ASSUME NEW c \in Page(from), NEW d \in Subscribed, from < d, d <= c
      PROVE  d \in Page(from)
  <2>1. upto(d) \in SUBSET upto(c)
    <3>1. c \in Nat /\ d \in Nat /\ (\A e \in after : e \in Nat)
      BY <1>0, <1>2, <1>4, <1>5
    <3>2. \A e \in after : e <= d => e <= c
      BY <1>5, <3>1
    <3> QED BY <3>2
  <2>2. Cardinality(upto(d)) <= Cardinality(upto(c))
    BY <1>3, <2>1, FS_Subset
  <2>3. Cardinality(upto(d)) <= BatchSize
    <3>1. Cardinality(upto(d)) \in Nat /\ Cardinality(upto(c)) \in Nat /\ BatchSize \in Nat
      BY <1>3, NumbersAssumption
    <3>2. Cardinality(upto(c)) <= BatchSize
      BY <1>4, <1>5
    <3> QED BY <2>2, <3>1, <3>2
  <2> QED BY <1>2, <1>4, <1>5, <2>3
<1>6. ASSUME Page(from) = {}, NEW d \in Subscribed, ~(d <= from)
      PROVE  FALSE
  <2>1. after # {} /\ after \in SUBSET Nat
    BY <1>0, <1>2, <1>6
  <2> DEFINE m == Min(after)
  <2>2. m \in after /\ \A c \in after : m <= c
    BY <2>1, MinIsLeast
  <2>3. upto(m) = {m}
    <3> HIDE DEF m
    <3>1. \A e \in after : e <= m => e = m
      BY <2>1, <2>2
    <3>2. m <= m
      BY <2>1, <2>2
    <3> QED BY <2>2, <3>1, <3>2
  <2>4. Cardinality(upto(m)) = 1
    BY <2>3, FS_Singleton
  <2> QED BY <1>4, <1>6, <2>2, <2>4, NumbersAssumption
<1> QED BY <1>2, <1>4, <1>5, <1>6

-----------------------------------------------------------------------------
(***************************************************************************)
(* Type correctness                                                        *)
(***************************************************************************)

Runs == [pc : Points, from : 0..N, page : SUBSET Contacts, todo : SUBSET Contacts,
         email : Nat, send : BOOLEAN]

\* A run at a point of the loop has a contact in hand, and one past its read of
\* the page a page.
RunType(r) ==
    /\ r \in Runs
    /\ r.pc \in {"link", "queue", "record"} => r.todo # {}
    /\ r.pc \in {"existing", "create", "link", "queue", "record"} => r.page # {}

\* TypeOK with what the loop needs of the page.
RunsTyped == TypeOK /\ \A k \in Workers : RunType(run[k])

\* A step of one slot, and what is left to show of it.
LEMMA RunStep ==
    ASSUME RunsTyped, NEW k \in Workers, NEW r, RunType(r), run' = [run EXCEPT ![k] = r]
    PROVE  /\ run' \in [Workers -> Runs]
           /\ \A q \in Workers : RunType(run'[q])
           /\ \A q \in Workers :
                /\ run'[q].pc \in {"link", "queue", "record"} => run'[q].todo # {}
                /\ run'[q].pc \in {"existing", "create"} => run'[q].page # {}
<1>1. run \in [Workers -> Runs]
  BY DEF RunsTyped, TypeOK, Runs
<1>2. \A q \in Workers : run'[q] = IF q = k THEN r ELSE run[q]
  BY <1>1
<1>3. \A q \in Workers : RunType(run'[q])
  BY <1>2 DEF RunsTyped
<1>4. run' \in [Workers -> Runs]
  BY <1>1 DEF RunType
<1> QED BY <1>3, <1>4 DEF RunType

\* A slot moves on to a point that asks nothing more of its run.
LEMMA MoveType ==
    ASSUME RunsTyped, NEW k \in Workers, NEW p \in Points, GoesTo(k, p),
           p \in {"link", "queue", "record"} => run[k].todo # {},
           p \in {"existing", "create", "link", "queue", "record"} => run[k].page # {}
    PROVE  \E r : RunType(r) /\ run' = [run EXCEPT ![k] = r]
<1> DEFINE r == [run[k] EXCEPT !.pc = p]
<1>1. run[k] \in Runs
  BY DEF RunsTyped, RunType
<1>2. RunType(r)
  BY <1>1 DEF RunType, Runs
<1>3. run' = [run EXCEPT ![k] = r]
  BY DEF GoesTo
<1> QED BY <1>2, <1>3

\* A slot moves on to the next contact of its page.
LEMMA NextType ==
    ASSUME RunsTyped, NEW k \in Workers, NextContact(k), run[k].page # {}
    PROVE  \E r : RunType(r) /\ run' = [run EXCEPT ![k] = r]
<1> DEFINE r == [run[k] EXCEPT !.pc = "create", !.todo = @ \ {InHand(k)}, !.email = 0,
                               !.send = FALSE]
<1>1. run[k] \in Runs
  BY DEF RunsTyped, RunType
<1>2. RunType(r)
  BY <1>1 DEF RunType, Runs, Points
<1>3. run' = [run EXCEPT ![k] = r]
  BY DEF NextContact
<1> QED BY <1>2, <1>3

LEMMA InitTyped == Init => RunsTyped
BY NumbersAssumption
   DEF Init, RunsTyped, RunType, Runs, TypeOK, NoJob, IdleRun, Points, Statuses, Contacts

\* The variables that are not the runs'.
RestTyped ==
    /\ mix \in Mixes
    /\ status \in Statuses
    /\ due \in BOOLEAN
    /\ cursor \in 0..N
    /\ contact \in [Contacts -> {"absent", "subscribed", "unsubscribed", "deleted"}]
    /\ rows \in [Contacts -> Nat]
    /\ link \in [Contacts -> Nat]
    /\ queued \in [Contacts -> SUBSET Nat]
    /\ failed \in [Contacts -> SUBSET Nat]
    /\ suppressed \in [Contacts -> SUBSET Nat]
    /\ job \in [state : {"none", "waiting", "active", "failed"},
                owner : Workers \cup {Nobody}, stalls : Nat]
    /\ job.state = "active" => job.owner \in Workers
    /\ tick \in {"idle", "check", "add"}
    /\ asking \in [1..MaxAsks -> {"none", "reset", "keep", "RUNNING", "SCHEDULED"}]
    /\ asks \in 0..MaxAsks
    /\ crashes \in 0..MaxCrashes

LEMMA Typed == RunsTyped => RestTyped
BY DEF RunsTyped, TypeOK, RestTyped

LEMMA TypedByRun ==
    ASSUME RunsTyped, RestTyped',
           \/ UNCHANGED run
           \/ \E k \in Workers : \E r : RunType(r) /\ run' = [run EXCEPT ![k] = r]
    PROVE  RunsTyped'
<1>1. /\ run' \in [Workers -> Runs]
      /\ \A q \in Workers : RunType(run'[q])
      /\ \A q \in Workers :
            /\ run'[q].pc \in {"link", "queue", "record"} => run'[q].todo # {}
            /\ run'[q].pc \in {"existing", "create"} => run'[q].page # {}
  <2>1. CASE UNCHANGED run
    BY <2>1 DEF RunsTyped, TypeOK, Runs
  <2>2. CASE \E k \in Workers : \E r : RunType(r) /\ run' = [run EXCEPT ![k] = r]
    BY <2>2, RunStep
  <2> QED BY <2>1, <2>2
<1>2. TypeOK'
  BY <1>1 DEF TypeOK, RestTyped, Runs
<1> QED BY <1>1, <1>2 DEF RunsTyped

LEMMA RequestTyped ==
    ASSUME RunsTyped, UNCHANGED mix, Requests \/ Scheduler \/ TimePasses \/ ContactChanges
    PROVE  RunsTyped'
<1> USE Typed, NumbersAssumption DEF RestTyped
<1>1. CASE ScheduleRead
  BY <1>1, TypedByRun DEF ScheduleRead, Ask, WillWrite, book
<1>2. CASE \E r \in 1..MaxAsks : ScheduleWrite(r)
  BY <1>2, TypedByRun DEF ScheduleWrite, Writes, book, Statuses
<1>3. CASE PauseCampaign
  BY <1>3, TypedByRun DEF PauseCampaign, Ask, book, Statuses
<1>4. CASE ResumeRead
  BY <1>4, TypedByRun DEF ResumeRead, Ask, WillWrite, book
<1>10. CASE \E r \in 1..MaxAsks : ResumeWrite(r)
  BY <1>10, TypedByRun DEF ResumeWrite, Writes, book, Statuses
<1>5. CASE DeleteCampaign
  BY <1>5, TypedByRun DEF DeleteCampaign, outside, Statuses
<1>6. CASE TickRead \/ QueueBatchRead
  BY <1>6, TypedByRun DEF TickRead, QueueBatchRead, book
<1>7. CASE AddBatch
  BY <1>7, TypedByRun DEF AddBatch, book, NoJob
<1>8. CASE TimePasses
  BY <1>8, TypedByRun DEF TimePasses, book, outside
<1>9. CASE ContactChanges
  BY <1>9, TypedByRun DEF ContactChanges, book, outside
<1> QED
  BY <1>1, <1>2, <1>3, <1>4, <1>5, <1>6, <1>7, <1>8, <1>9, <1>10 DEF Requests, Scheduler

LEMMA BatchTyped ==
    ASSUME RunsTyped, UNCHANGED mix, NEW k \in Workers, Batch(k) \/ Crash(k)
    PROVE  RunsTyped'
<1> USE Typed, NumbersAssumption DEF RestTyped
<1>0. run[k] \in Runs /\ RunType(run[k]) /\ (run[k].todo # {} => InHand(k) \in Contacts)
  BY HandIsContact DEF RunsTyped, RunType
<1>1. CASE TakeJob(k)
  <2>1. \E r : RunType(r) /\ run' = [run EXCEPT ![k] = r]
    BY <1>1, MoveType DEF TakeJob, Points
  <2> QED BY <1>1, <2>1, TypedByRun DEF TakeJob, book, outside
<1>2. CASE ReadCampaign(k)
  <2>1. CASE \E p \in {"return", "throw"} : GoesTo(k, p)
    <3>1. \E r : RunType(r) /\ run' = [run EXCEPT ![k] = r]
      BY <2>1, MoveType DEF Points
    <3> QED BY <1>2, <3>1, TypedByRun DEF ReadCampaign, book, outside
  <2>2. CASE \E p \in {"mark", "page"} : run' = [run EXCEPT ![k].pc = p, ![k].from = cursor]
    <3>1. PICK p \in {"mark", "page"} : run' = [run EXCEPT ![k].pc = p, ![k].from = cursor]
      BY <2>2
    <3>2. RunType([run[k] EXCEPT !.pc = p, !.from = cursor])
      BY <1>0 DEF RunType, Runs, Points
    <3>3. run' = [run EXCEPT ![k] = [run[k] EXCEPT !.pc = p, !.from = cursor]]
      BY <3>1
    <3> QED BY <1>2, <3>2, <3>3, TypedByRun DEF ReadCampaign, book, outside
  <2> QED BY <1>2, <2>1, <2>2 DEF ReadCampaign, DbThrows
<1>3. CASE MarkRunning(k) \/ MarkSent(k)
  <2>1. \E p \in {"page", "return", "throw"} : GoesTo(k, p)
    BY <1>3 DEF MarkRunning, MarkSent, DbThrows
  <2>2. \E r : RunType(r) /\ run' = [run EXCEPT ![k] = r]
    BY <2>1, MoveType DEF Points
  <2> QED BY <1>3, <2>2, TypedByRun DEF MarkRunning, MarkSent, book, outside, Statuses
<1>4. CASE ReadPage(k)
  <2>1. CASE DbThrows(k)
    <3>1. \E r : RunType(r) /\ run' = [run EXCEPT ![k] = r]
      BY <2>1, MoveType DEF DbThrows, Points
    <3> QED BY <1>4, <3>1, TypedByRun DEF ReadPage, book, outside
  <2>2. CASE ~DbThrows(k)
    <3>1. PICK page \in SUBSET Contacts :
            run' = [run EXCEPT ![k].pc = IF page = {} THEN "empty" ELSE "existing",
                               ![k].page = page]
      BY <1>4, <2>2 DEF ReadPage, Page, Subscribed
    <3> DEFINE r == [run[k] EXCEPT !.pc = IF page = {} THEN "empty" ELSE "existing",
                                   !.page = page]
    <3>2. RunType(r)
      BY <1>0 DEF RunType, Runs, Points
    <3>3. run' = [run EXCEPT ![k] = r]
      BY <3>1
    <3> QED BY <1>4, <3>2, <3>3, TypedByRun DEF ReadPage, book, outside
  <2> QED BY <2>1, <2>2
<1>5. CASE ReadExisting(k)
  <2>1. CASE \E p \in {"return", "throw"} : GoesTo(k, p)
    <3>1. \E r : RunType(r) /\ run' = [run EXCEPT ![k] = r]
      BY <2>1, MoveType DEF Points
    <3> QED BY <1>5, <3>1, TypedByRun DEF ReadExisting, book, outside
  <2>2. CASE run' = [run EXCEPT ![k].pc = "create",
                                ![k].todo = {c \in run[k].page : link[c] = 0}]
    <3> DEFINE r == [run[k] EXCEPT !.pc = "create", !.todo = {c \in run[k].page : link[c] = 0}]
    <3>1. RunType(r)
      BY <1>0, <1>5 DEF RunType, Runs, Points, ReadExisting
    <3>2. run' = [run EXCEPT ![k] = r]
      BY <2>2
    <3> QED BY <1>5, <3>1, <3>2, TypedByRun DEF ReadExisting, book, outside
  <2> QED BY <1>5, <2>1, <2>2 DEF ReadExisting, DbThrows
<1>6. CASE CreateEmail(k)
  <2> DEFINE c == InHand(k)
             n == rows[c] + 1
  <2>1. run[k].pc = "create" /\ run[k].todo # {} /\ run[k].page # {} /\ c \in Contacts /\ n \in Nat
    BY <1>0, <1>6 DEF CreateEmail, RunType
  <2>2. CASE GoesTo(k, "record") /\ UNCHANGED <<rows, suppressed>>
    <3>1. \E r : RunType(r) /\ run' = [run EXCEPT ![k] = r]
      BY <2>1, <2>2, MoveType DEF Points
    <3> QED BY <1>6, <2>2, <3>1, TypedByRun DEF CreateEmail, outside
  <2>3. CASE \E send \in BOOLEAN :
                /\ rows' = [rows EXCEPT ![c] = n]
                /\ suppressed' = IF send THEN suppressed
                                 ELSE [suppressed EXCEPT ![c] = @ \cup {n}]
                /\ run' = [run EXCEPT ![k].pc = "link", ![k].email = n, ![k].send = send]
    <3>1. PICK send \in BOOLEAN :
                /\ rows' = [rows EXCEPT ![c] = n]
                /\ suppressed' = IF send THEN suppressed
                                 ELSE [suppressed EXCEPT ![c] = @ \cup {n}]
                /\ run' = [run EXCEPT ![k].pc = "link", ![k].email = n, ![k].send = send]
      BY <2>3
    <3> HIDE DEF n, c
    <3> DEFINE r == [run[k] EXCEPT !.pc = "link", !.email = n, !.send = send]
    <3>2. RunType(r)
      BY <1>0, <2>1 DEF RunType, Runs, Points
    <3>3. run' = [run EXCEPT ![k] = r]
      BY <3>1
    <3>4. rows' \in [Contacts -> Nat] /\ suppressed' \in [Contacts -> SUBSET Nat]
      BY <2>1, <3>1
    <3> QED BY <1>6, <3>2, <3>3, <3>4, TypedByRun DEF CreateEmail, outside
  <2> QED BY <1>6, <2>2, <2>3 DEF CreateEmail
<1>7. CASE LinkEmail(k)
  <2>1. run[k].todo # {} /\ run[k].page # {} /\ InHand(k) \in Contacts /\ run[k].email \in Nat
    BY <1>0, <1>7 DEF LinkEmail, RunType, Runs
  <2>2. link' \in [Contacts -> Nat]
    BY <1>7, <2>1 DEF LinkEmail
  <2>3. (\E p \in {"queue", "record"} : GoesTo(k, p)) \/ NextContact(k)
    BY <1>7 DEF LinkEmail
  <2>4. \E r : RunType(r) /\ run' = [run EXCEPT ![k] = r]
    BY <2>1, <2>3, MoveType, NextType DEF Points
  <2> QED BY <1>7, <2>2, <2>4, TypedByRun DEF LinkEmail, outside
<1>8. CASE QueueEmail(k)
  <2>1. run[k].todo # {} /\ run[k].page # {} /\ InHand(k) \in Contacts /\ run[k].email \in Nat
    BY <1>0, <1>8 DEF QueueEmail, RunType, Runs
  <2>2. queued' \in [Contacts -> SUBSET Nat]
    BY <1>8, <2>1 DEF QueueEmail
  <2>3. GoesTo(k, "record") \/ NextContact(k)
    BY <1>8 DEF QueueEmail
  <2>4. \E r : RunType(r) /\ run' = [run EXCEPT ![k] = r]
    BY <2>1, <2>3, MoveType, NextType DEF Points
  <2> QED BY <1>8, <2>2, <2>4, TypedByRun DEF QueueEmail, outside
<1>9. CASE RecordFailure(k)
  <2>1. run[k].todo # {} /\ run[k].page # {} /\ InHand(k) \in Contacts
    BY <1>0, <1>9 DEF RecordFailure, RunType
  <2>2. /\ link' \in [Contacts -> Nat] /\ rows' \in [Contacts -> Nat]
        /\ failed' \in [Contacts -> SUBSET Nat]
    <3>1. CASE UNCHANGED <<link, rows, failed>>
      BY <3>1
    <3>2. CASE \E c \in Contacts, n \in Nat :
                 /\ link' = [link EXCEPT ![c] = n]
                 /\ rows' = [rows EXCEPT ![c] = IF @ = 0 THEN 1 ELSE @]
                 /\ failed' = [failed EXCEPT ![c] = @ \cup {n}]
      BY <3>2
    <3>3. /\ link[InHand(k)] \in Nat
          /\ rows[InHand(k)] \in Nat
      BY <2>1
    <3> QED BY <1>9, <2>1, <3>1, <3>2, <3>3 DEF RecordFailure
  <2>3. \E r : RunType(r) /\ run' = [run EXCEPT ![k] = r]
    BY <1>9, <2>1, NextType DEF RecordFailure
  <2> QED BY <1>9, <2>2, <2>3, TypedByRun DEF RecordFailure, outside
<1>10. CASE AdvanceCursor(k)
  <2>1. run[k].page # {} /\ run[k].page \in SUBSET Contacts
    BY <1>0, <1>10 DEF AdvanceCursor, RunType, Runs
  <2>2. cursor' \in 0..N
    <3>1. Max(run[k].page) \in 0..N
      BY <2>1, MaxIsGreatest, Max(run[k].page) \in Contacts DEF Contacts
    <3> QED BY <1>10, <3>1 DEF AdvanceCursor
  <2>3. \E p \in {"return", "throw"} : GoesTo(k, p)
    BY <1>10 DEF AdvanceCursor, DbThrows
  <2>4. \E r : RunType(r) /\ run' = [run EXCEPT ![k] = r]
    BY <2>3, MoveType DEF Points
  <2> QED BY <1>10, <2>2, <2>4, TypedByRun DEF AdvanceCursor, book, outside
<1>11. CASE FinishJob(k) \/ Crash(k)
  <2>1. RunType(IdleRun) /\ run' = [run EXCEPT ![k] = IdleRun]
    BY <1>11 DEF FinishJob, Crash, RunType, Runs, IdleRun, Points
  <2>2. /\ job' \in [state : {"none", "waiting", "active", "failed"},
                     owner : Workers \cup {Nobody}, stalls : Nat]
        /\ job'.state = "active" => job'.owner \in Workers
        /\ crashes' \in 0..MaxCrashes
    <3>1. CASE Crash(k)
      BY <3>1 DEF Crash
    <3>2. CASE FinishJob(k)
      <4>1. job' \in {job, NoJob, [job EXCEPT !.state = "failed", !.owner = Nobody]}
        BY <3>2 DEF FinishJob
      <4> QED BY <3>2, <4>1 DEF FinishJob, NoJob, outside
    <3> QED BY <1>11, <3>1, <3>2
  <2> QED BY <1>11, <2>1, <2>2, TypedByRun DEF FinishJob, Crash, book, outside
<1> QED
  BY <1>1, <1>2, <1>3, <1>4, <1>5, <1>6, <1>7, <1>8, <1>9, <1>10, <1>11 DEF Batch

LEMMA NextTyped == RunsTyped /\ [Next]_vars => RunsTyped'
<1> SUFFICES ASSUME RunsTyped, [Next]_vars PROVE RunsTyped'
  OBVIOUS
<1>0. UNCHANGED mix
  BY DEF Next, vars
<1>1. CASE RecoverStalled
  <2>1. /\ job' \in [state : {"none", "waiting", "active", "failed"},
                     owner : Workers \cup {Nobody}, stalls : Nat]
        /\ job'.state # "active"
        /\ crashes' \in 0..MaxCrashes
    BY <1>1, Typed, NumbersAssumption DEF RecoverStalled, RestTyped
  <2> QED BY <1>0, <1>1, <2>1, Typed, TypedByRun DEF RecoverStalled, RestTyped, book
<1>2. CASE UNCHANGED vars
  BY <1>2, Typed, TypedByRun DEF vars, state, RestTyped, book, outside
<1> QED BY <1>0, <1>1, <1>2, RequestTyped, BatchTyped DEF Next, Step

\* Every variable keeps its type; a run in the loop has a contact in hand.
THEOREM TypeCorrect == Spec => []TypeOK
<1>1. Init => RunsTyped
  BY InitTyped
<1>2. RunsTyped /\ [Next]_vars => RunsTyped'
  BY NextTyped
<1>3. RunsTyped => TypeOK
  BY DEF RunsTyped
<1> QED BY <1>1, <1>2, <1>3, PTL DEF Spec

-----------------------------------------------------------------------------
(***************************************************************************)
(* One email per contact.  The unique key of CampaignEmail decides which   *)
(* of a contact's emails may be queued, and no later step replaces it.     *)
(***************************************************************************)

LEMMA OthersStay ==
    ASSUME RunsTyped, NEW k \in Workers, NEW r, run' = [run EXCEPT ![k] = r]
    PROVE  run'[k] = r /\ \A q \in Workers \ {k} : run'[q] = run[q]
BY DEF RunsTyped, TypeOK

\* What a run says of the links l: the email it is about to queue is the linked
\* one.
HoldsLink(r, l) ==
    /\ r.pc = "link" => r.email # 0
    /\ r.pc = "queue" => r.email # 0 /\ l[Min(r.todo)] = r.email

OnlyLinkedQueued ==
    /\ \A c \in Contacts : queued[c] \in SUBSET {link[c]} /\ 0 \notin queued[c]
    /\ \A k \in Workers : HoldsLink(run[k], link)

\* A set link stays.
LinksStay == \A c \in Contacts : link[c] # 0 => link'[c] = link[c]

LEMMA LinkedByRun ==
    ASSUME RunsTyped, OnlyLinkedQueued, LinksStay, NEW k \in Workers, NEW r,
           run' = [run EXCEPT ![k] = r], HoldsLink(r, link'),
           \A c \in Contacts : queued'[c] \in SUBSET {link'[c]} /\ 0 \notin queued'[c]
    PROVE  OnlyLinkedQueued'
<1>1. \A q \in Workers : HoldsLink(run'[q], link')
  <2> TAKE q \in Workers
  <2>1. CASE q = k
    BY <2>1, OthersStay
  <2>2. CASE q # k
    <3>1. run'[q] = run[q] /\ HoldsLink(run[q], link)
      BY <2>2, OthersStay DEF OnlyLinkedQueued
    <3>2. run[q].pc = "queue" => Min(run[q].todo) \in Contacts
      BY HandIsContact DEF RunsTyped, RunType, InHand
    <3> QED BY <3>1, <3>2 DEF HoldsLink, LinksStay
  <2> QED BY <2>1, <2>2
<1> QED BY <1>1 DEF OnlyLinkedQueued

\* Steps that leave emails alone and take a run to another point.
LEMMA LinkedByMove ==
    ASSUME RunsTyped, OnlyLinkedQueued, UNCHANGED <<link, queued>>, NEW k \in Workers,
           NEW r, run' = [run EXCEPT ![k] = r], r.pc \notin {"link", "queue"}
    PROVE  OnlyLinkedQueued'
<1>1. HoldsLink(r, link') /\ LinksStay
  BY DEF HoldsLink, LinksStay
<1>2. \A c \in Contacts : queued'[c] \in SUBSET {link'[c]} /\ 0 \notin queued'[c]
  BY DEF OnlyLinkedQueued
<1> QED BY <1>1, <1>2, LinkedByRun

\* A slot at another point, and one with the next contact, as runs.
LEMMA MovedRun ==
    ASSUME RunsTyped, NEW k \in Workers, NEW p, GoesTo(k, p)
    PROVE  \E r : /\ run' = [run EXCEPT ![k] = r]
                 /\ r = [run[k] EXCEPT !.pc = p]
                 /\ r.pc = p /\ r.page = run[k].page /\ r.todo = run[k].todo
                 /\ r.from = run[k].from /\ r.email = run[k].email
                 /\ r.send = run[k].send
<1> DEFINE r == [run[k] EXCEPT !.pc = p]
<1>1. run[k] \in Runs
  BY DEF RunsTyped, RunType
<1>2. run' = [run EXCEPT ![k] = r]
  BY DEF GoesTo
<1>3. /\ r.pc = p /\ r.page = run[k].page /\ r.todo = run[k].todo
      /\ r.from = run[k].from /\ r.email = run[k].email /\ r.send = run[k].send
  BY <1>1 DEF Runs
<1> QED BY <1>2, <1>3

LEMMA NextRun ==
    ASSUME RunsTyped, NEW k \in Workers, NextContact(k)
    PROVE  \E r : /\ run' = [run EXCEPT ![k] = r]
                 /\ r.pc = "create" /\ r.page = run[k].page /\ r.from = run[k].from
                 /\ r.todo = run[k].todo \ {InHand(k)}
<1> DEFINE r == [run[k] EXCEPT !.pc = "create", !.todo = @ \ {InHand(k)}, !.email = 0,
                               !.send = FALSE]
<1>1. run[k] \in Runs
  BY DEF RunsTyped, RunType
<1>2. run' = [run EXCEPT ![k] = r]
  BY DEF NextContact
<1>3. /\ r.pc = "create" /\ r.page = run[k].page /\ r.from = run[k].from
      /\ r.todo = run[k].todo \ {InHand(k)}
  BY <1>1 DEF Runs
<1> QED BY <1>2, <1>3

LEMMA BatchLinked ==
    ASSUME RunsTyped, OnlyLinkedQueued, NEW k \in Workers, Batch(k) \/ Crash(k)
    PROVE  OnlyLinkedQueued'
<1>0. /\ run[k] \in Runs
      /\ run[k].pc \in {"link", "queue", "record"} => InHand(k) \in Contacts
      /\ link \in [Contacts -> Nat]
      /\ rows \in [Contacts -> Nat]
      /\ queued \in [Contacts -> SUBSET Nat]
  BY HandIsContact DEF RunsTyped, RunType, TypeOK
<1>1. CASE \E p \in Points \ {"link", "queue"} : GoesTo(k, p) /\ UNCHANGED <<link, queued>>
  BY <1>1, MovedRun, LinkedByMove
<1>2. CASE NextContact(k) /\ UNCHANGED <<link, queued>>
  BY <1>2, NextRun, LinkedByMove
<1>3. CASE ReadCampaign(k)
  <2>1. CASE \E p \in {"mark", "page"} : run' = [run EXCEPT ![k].pc = p, ![k].from = cursor]
    <3>1. PICK p \in {"mark", "page"} :
            run' = [run EXCEPT ![k] = [run[k] EXCEPT !.pc = p, !.from = cursor]]
      BY <2>1
    <3>2. [run[k] EXCEPT !.pc = p, !.from = cursor].pc = p
      BY <1>0 DEF Runs
    <3> QED BY <1>3, <3>1, <3>2, LinkedByMove DEF ReadCampaign, book
  <2> QED BY <1>1, <1>3, <2>1 DEF ReadCampaign, DbThrows, book, Points
<1>4. CASE ReadPage(k) /\ ~DbThrows(k)
  <2>0. PICK page \in SUBSET Contacts :
          run' = [run EXCEPT ![k].pc = IF page = {} THEN "empty" ELSE "existing",
                             ![k].page = page]
    BY <1>4 DEF ReadPage, Page, Subscribed
  <2>1. run' = [run EXCEPT ![k] = [run[k] EXCEPT !.pc = IF page = {} THEN "empty" ELSE "existing",
                                                 !.page = page]]
    BY <2>0
  <2>2. [run[k] EXCEPT !.pc = IF page = {} THEN "empty" ELSE "existing", !.page = page].pc
            \in {"empty", "existing"}
    BY <1>0 DEF Runs
  <2> QED BY <1>4, <2>1, <2>2, LinkedByMove DEF ReadPage, book
<1>5. CASE ReadExisting(k)
  <2>1. CASE run' = [run EXCEPT ![k].pc = "create",
                                ![k].todo = {c \in run[k].page : link[c] = 0}]
    <3> DEFINE r == [run[k] EXCEPT !.pc = "create", !.todo = {c \in run[k].page : link[c] = 0}]
    <3>1. run' = [run EXCEPT ![k] = r] /\ r.pc = "create"
      BY <1>0, <2>1 DEF Runs
    <3> QED BY <1>5, <3>1, LinkedByMove DEF ReadExisting, book
  <2> QED BY <1>1, <1>5, <2>1 DEF ReadExisting, DbThrows, book, Points
<1>6. CASE CreateEmail(k) /\ ~GoesTo(k, "record")
  <2> DEFINE c == InHand(k)
             n == rows[c] + 1
  <2>1. c \in Contacts /\ n \in Nat /\ n # 0
    BY <1>0, <1>6, HandIsContact DEF CreateEmail, RunsTyped
  <2>2. PICK send \in BOOLEAN :
            run' = [run EXCEPT ![k] = [run[k] EXCEPT !.pc = "link", !.email = n, !.send = send]]
    BY <1>6 DEF CreateEmail
  <2> HIDE DEF n, c
  <2> DEFINE r == [run[k] EXCEPT !.pc = "link", !.email = n, !.send = send]
  <2>3. HoldsLink(r, link') /\ LinksStay
    BY <1>0, <1>6, <2>1 DEF HoldsLink, Runs, LinksStay, CreateEmail
  <2> QED BY <1>6, <2>2, <2>3, LinkedByRun DEF CreateEmail, OnlyLinkedQueued
<1>7. CASE /\ LinkEmail(k) /\ link[InHand(k)] = 0
           /\ link' = [link EXCEPT ![InHand(k)] = run[k].email]
           /\ GoesTo(k, "queue") \/ NextContact(k)
  <2>1. /\ run[k].pc = "link" /\ run[k].email # 0
        /\ link' = [link EXCEPT ![InHand(k)] = run[k].email]
        /\ UNCHANGED queued
    BY <1>7 DEF LinkEmail, OnlyLinkedQueued, HoldsLink
  <2>2. LinksStay
    BY <1>0, <1>7, <2>1 DEF LinksStay
  <2>3. \A c \in Contacts : queued'[c] \in SUBSET {link'[c]} /\ 0 \notin queued'[c]
    BY <1>0, <1>7, <2>1 DEF OnlyLinkedQueued
  <2>4. CASE GoesTo(k, "queue")
    <3>1. PICK r : /\ run' = [run EXCEPT ![k] = r]
                   /\ r.pc = "queue" /\ r.todo = run[k].todo /\ r.email = run[k].email
      BY <2>4, MovedRun
    <3>2. HoldsLink(r, link')
      BY <1>0, <2>1, <3>1 DEF HoldsLink, InHand
    <3> QED BY <2>2, <2>3, <3>1, <3>2, LinkedByRun
  <2>5. CASE NextContact(k)
    <3>1. PICK r : run' = [run EXCEPT ![k] = r] /\ r.pc = "create"
      BY <2>5, NextRun
    <3>2. HoldsLink(r, link')
      BY <3>1 DEF HoldsLink
    <3> QED BY <2>2, <2>3, <3>1, <3>2, LinkedByRun
  <2> QED BY <1>7, <2>4, <2>5
<1>8. CASE QueueEmail(k) /\ queued' = [queued EXCEPT ![InHand(k)] = @ \cup {run[k].email}]
  <2>1. run[k].email # 0 /\ link[InHand(k)] = run[k].email /\ UNCHANGED link
    BY <1>8 DEF QueueEmail, OnlyLinkedQueued, HoldsLink, InHand
  <2>2. \A c \in Contacts : queued'[c] \in SUBSET {link'[c]} /\ 0 \notin queued'[c]
    BY <1>0, <1>8, <2>1 DEF QueueEmail, OnlyLinkedQueued
  <2>3. PICK r : run' = [run EXCEPT ![k] = r] /\ r.pc \in {"create", "record"}
    BY <1>8, NextRun, MovedRun DEF QueueEmail
  <2>4. HoldsLink(r, link') /\ LinksStay
    BY <2>1, <2>3 DEF HoldsLink, LinksStay
  <2> QED BY <2>2, <2>3, <2>4, LinkedByRun
<1>9. CASE RecordFailure(k) /\ link' # link
  <2>1. LinksStay
    BY <1>0, <1>9 DEF RecordFailure, LinksStay
  <2>2. \A c \in Contacts : queued'[c] \in SUBSET {link'[c]} /\ 0 \notin queued'[c]
    BY <1>0, <1>9, <2>1 DEF RecordFailure, OnlyLinkedQueued, LinksStay
  <2>3. PICK r : run' = [run EXCEPT ![k] = r] /\ r.pc = "create"
    BY <1>9, NextRun DEF RecordFailure
  <2>4. HoldsLink(r, link')
    BY <2>3 DEF HoldsLink
  <2> QED BY <2>1, <2>2, <2>3, <2>4, LinkedByRun
<1>10. CASE FinishJob(k) \/ Crash(k)
  BY <1>10, LinkedByMove DEF FinishJob, Crash, IdleRun, book
<1>11. CASE TakeJob(k) \/ MarkRunning(k) \/ MarkSent(k) \/ AdvanceCursor(k)
  <2>1. \E p \in Points \ {"link", "queue"} : GoesTo(k, p)
    BY <1>11 DEF TakeJob, MarkRunning, MarkSent, AdvanceCursor, DbThrows, Points
  <2>2. UNCHANGED <<link, queued>>
    BY <1>11 DEF TakeJob, MarkRunning, MarkSent, AdvanceCursor, book
  <2> QED BY <1>1, <2>1, <2>2
<1>12. CASE ReadPage(k)
  BY <1>1, <1>4, <1>12 DEF ReadPage, DbThrows, Points, book
<1>13. CASE CreateEmail(k)
  BY <1>1, <1>6, <1>13 DEF CreateEmail, Points
<1>14. CASE LinkEmail(k)
  BY <1>1, <1>7, <1>14 DEF LinkEmail, Points
<1>15. CASE QueueEmail(k)
  BY <1>1, <1>8, <1>15 DEF QueueEmail, Points
<1>16. CASE RecordFailure(k)
  BY <1>2, <1>9, <1>16 DEF RecordFailure
<1> QED
  BY <1>3, <1>5, <1>10, <1>11, <1>12, <1>13, <1>14, <1>15, <1>16 DEF Batch

LEMMA NextLinked ==
    ASSUME "campaign" \notin mix, RunsTyped, OnlyLinkedQueued, [Next]_vars
    PROVE  OnlyLinkedQueued'
<1>1. CASE \E k \in Workers : Batch(k) \/ Crash(k)
  BY <1>1, BatchLinked
<1>2. CASE UNCHANGED <<run, link, queued>>
  BY <1>2 DEF OnlyLinkedQueued
<1> QED
  BY <1>1, <1>2 DEF Next, Step, Requests, Scheduler, ScheduleRead, ScheduleWrite,
     PauseCampaign, ResumeRead, ResumeWrite, DeleteCampaign, TickRead, QueueBatchRead, AddBatch,
     RecoverStalled, TimePasses, ContactChanges, vars, state, book

\* Without a deletion of the campaign no contact has two of its emails queued,
\* however many slots run its batches at once and whatever fails.
THEOREM OneEmail == Spec => []OneEmailPerContact
<1> DEFINE Linked == "campaign" \notin mix => OnlyLinkedQueued
<1>1. Init => Linked
  BY DEF Init, OnlyLinkedQueued, HoldsLink, IdleRun
<1>2. RunsTyped /\ Linked /\ [Next]_vars => Linked'
  <2> SUFFICES ASSUME RunsTyped, Linked, [Next]_vars, "campaign" \notin mix'
               PROVE  OnlyLinkedQueued'
    OBVIOUS
  <2>1. mix' = mix
    BY DEF Next, vars
  <2> QED BY <2>1, NextLinked
<1>3. Linked => OneEmailPerContact
  BY DEF OnlyLinkedQueued, OneEmailPerContact
<1>4. Spec => []RunsTyped
  BY InitTyped, NextTyped, PTL DEF Spec
<1> QED BY <1>1, <1>2, <1>3, <1>4, PTL DEF Spec

-----------------------------------------------------------------------------
(***************************************************************************)
(* A SENT campaign is complete, when the book does not change meanwhile.   *)
(* Every run's page continues the contacts that are accounted for, and the *)
(* cursor moves over contacts of a finished page only, so that an empty    *)
(* page says that there is nobody left.                                    *)
(***************************************************************************)

Loop == {"create", "link", "queue", "record"}

\* What a run knows of the links l of the subscribed contacts S.
RunCovers(r, l, S) ==
    /\ r.from = 0 \/ r.from \in S
    /\ \A c \in S : c <= r.from => l[c] # 0
    /\ r.pc \in Loop \cup {"existing"} =>
        /\ r.page \in SUBSET S
        /\ \A c \in S : c <= Max(r.page) => c \in r.page \/ l[c] # 0
    /\ r.pc \in Loop => \A c \in r.page \ r.todo : l[c] # 0
    /\ r.pc = "empty" => \A c \in S : l[c] # 0

Covered ==
    /\ cursor = 0 \/ cursor \in Subscribed
    /\ CursorIsCovered
    /\ SentIsComplete
    /\ \A k \in Workers : RunCovers(run[k], link, Subscribed)

\* Links stay set, so that what a run knows stays true.
LEMMA CoversStays ==
    ASSUME NEW r, NEW l, NEW m, NEW S \in SUBSET Contacts,
           \A c \in Contacts : l[c] # 0 => m[c] # 0,
           RunCovers(r, l, S), r.page \in SUBSET Contacts
    PROVE  RunCovers(r, m, S)
BY DEF RunCovers

LEMMA CoveredByRun ==
    ASSUME RunsTyped, Covered, UNCHANGED contact, NEW k \in Workers, NEW r,
           run' = [run EXCEPT ![k] = r],
           \A c \in Contacts : link[c] # 0 => link'[c] # 0,
           RunCovers(r, link', Subscribed),
           status' = status \/ status' # "SENT" \/ (\A c \in Subscribed : link'[c] # 0),
           \/ cursor' = cursor
           \/ cursor' \in Subscribed /\ \A c \in Subscribed : c <= cursor' => link'[c] # 0
    PROVE  Covered'
<1>1. Subscribed' = Subscribed /\ Subscribed \in SUBSET Contacts
  BY DEF Subscribed
<1>2. \A q \in Workers : RunCovers(run'[q], link', Subscribed)
  <2> TAKE q \in Workers
  <2>1. CASE q = k
    BY <2>1, OthersStay
  <2>2. CASE q # k
    <3>1. /\ run'[q] = run[q] /\ RunCovers(run[q], link, Subscribed)
          /\ run[q].page \in SUBSET Contacts
      BY <2>2, OthersStay DEF Covered, RunsTyped, RunType, Runs
    <3> DEFINE s == run[q]
               l == link
               m == link'
    <3>2. RunCovers(s, l, Subscribed) /\ s.page \in SUBSET Contacts
      BY <3>1
    <3>3. \A c \in Contacts : l[c] # 0 => m[c] # 0
      OBVIOUS
    <3> HIDE DEF s, l, m
    <3>4. RunCovers(s, m, Subscribed)
      BY <1>1, <3>2, <3>3, CoversStays
    <3> QED BY <3>1, <3>4 DEF s, m
  <2> QED BY <2>1, <2>2
<1>3. CursorIsCovered' /\ (cursor' = 0 \/ cursor' \in Subscribed')
  BY <1>1 DEF Covered, CursorIsCovered
<1>4. SentIsComplete'
  BY <1>1 DEF Covered, SentIsComplete
<1> QED BY <1>1, <1>2, <1>3, <1>4 DEF Covered

\* A run that moves on to a point that says nothing new.
LEMMA CoveredByMove ==
    ASSUME RunsTyped, Covered, UNCHANGED <<contact, link, cursor>>, NEW k \in Workers,
           NEW p, GoesTo(k, p),
           p \notin Loop \cup {"existing", "empty"} \/ {p, run[k].pc} \subseteq Loop,
           status' = status \/ status' # "SENT" \/ (\A c \in Subscribed : link[c] # 0)
    PROVE  Covered'
<1>1. PICK r : /\ run' = [run EXCEPT ![k] = r]
               /\ r.pc = p /\ r.page = run[k].page /\ r.todo = run[k].todo
               /\ r.from = run[k].from
  BY MovedRun
<1>2. RunCovers(r, link', Subscribed)
  BY <1>1 DEF Covered, RunCovers, Loop
<1> QED BY <1>1, <1>2, CoveredByRun

\* A run is done with the contact in hand, which has its email.
LEMMA CoveredByNext ==
    ASSUME RunsTyped, Covered, UNCHANGED <<contact, cursor, status>>, NEW k \in Workers,
           NextContact(k), run[k].pc \in Loop, run[k].todo # {},
           \A c \in Contacts : link[c] # 0 => link'[c] # 0,
           link'[InHand(k)] # 0
    PROVE  Covered'
<1>1. PICK r : /\ run' = [run EXCEPT ![k] = r]
               /\ r.pc = "create" /\ r.page = run[k].page /\ r.from = run[k].from
               /\ r.todo = run[k].todo \ {InHand(k)}
  BY NextRun
<1>2. run[k].page \in SUBSET Contacts /\ Subscribed \in SUBSET Contacts
  BY DEF RunsTyped, RunType, Runs, Subscribed
<1>3. RunCovers(r, link', Subscribed)
  BY <1>1, <1>2 DEF Covered, RunCovers, Loop
<1> QED BY <1>1, <1>3, CoveredByRun

LEMMA BatchCovered ==
    ASSUME "db" \notin mix, RunsTyped, OnlyLinkedQueued, Covered,
           NEW k \in Workers, Batch(k) \/ Crash(k)
    PROVE  Covered'
<1>0. /\ run[k] \in Runs
      /\ run[k].pc \in {"link", "queue", "record"} =>
            run[k].todo # {} /\ InHand(k) \in Contacts
      /\ Subscribed \in SUBSET Contacts
      /\ link \in [Contacts -> Nat]
      /\ rows \in [Contacts -> Nat]
      /\ cursor \in 0..N
      /\ RunCovers(run[k], link, Subscribed)
  BY HandIsContact DEF RunsTyped, RunType, TypeOK, Subscribed, Covered
<1>1. CASE TakeJob(k)
  BY <1>1, CoveredByMove DEF TakeJob, book, Loop
<1>2. CASE ReadCampaign(k)
  <2>1. CASE GoesTo(k, "return")
    BY <1>2, <2>1, CoveredByMove DEF ReadCampaign, book, Loop
  <2>2. CASE \E p \in {"mark", "page"} : run' = [run EXCEPT ![k].pc = p, ![k].from = cursor]
    <3>1. PICK p \in {"mark", "page"} : run' = [run EXCEPT ![k].pc = p, ![k].from = cursor]
      BY <2>2
    <3> DEFINE r == [run[k] EXCEPT !.pc = p, !.from = cursor]
    <3>2. run' = [run EXCEPT ![k] = r] /\ r.pc = p /\ r.from = cursor
      BY <1>0, <3>1 DEF Runs
    <3> HIDE DEF r
    <3>3. RunCovers(r, link', Subscribed)
      BY <1>2, <3>1, <3>2 DEF Covered, CursorIsCovered, RunCovers, ReadCampaign, Loop, book
    <3> QED BY <1>2, <3>2, <3>3, CoveredByRun DEF ReadCampaign, book
  <2> QED BY <1>2, <2>1, <2>2 DEF ReadCampaign, DbThrows
<1>3. CASE MarkRunning(k)
  BY <1>3, CoveredByMove DEF MarkRunning, DbThrows, book, Loop
<1>4. CASE ReadPage(k)
  <2> DEFINE from == run[k].from
             page == Page(from)
  <2>1. from \in 0..N /\ (from = 0 \/ from \in Subscribed) /\ ~(from # 0 /\ contact[from] = "deleted")
    BY <1>0 DEF RunCovers, Runs, Subscribed
  <2>2. run' = [run EXCEPT ![k].pc = IF page = {} THEN "empty" ELSE "existing", ![k].page = page]
    BY <1>4, <2>1 DEF ReadPage, DbThrows
  <2>3. /\ page \in SUBSET Subscribed
        /\ \A c \in page : \A d \in Subscribed : from < d /\ d <= c => d \in page
        /\ page = {} => \A d \in Subscribed : d <= from
    BY <2>1, PageFacts
  <2>4. page # {} => Max(page) \in page
    BY <1>0, <2>3, MaxIsGreatest
  <2>5. \A d \in Subscribed : d \in Nat /\ from \in Nat /\ (d <= from \/ from < d)
    BY <2>1, <1>0, NumbersAssumption DEF Contacts
  <2> HIDE DEF page, from
  <2> DEFINE r == [run[k] EXCEPT !.pc = IF page = {} THEN "empty" ELSE "existing", !.page = page]
  <2>6. /\ run' = [run EXCEPT ![k] = r] /\ r.page = page /\ r.from = from
        /\ r.pc = IF page = {} THEN "empty" ELSE "existing"
    BY <1>0, <2>2 DEF Runs, from
  <2> HIDE DEF r
  <2>7. \A c \in Subscribed : c <= from => link[c] # 0
    BY <1>0 DEF RunCovers, from
  <2>8. RunCovers(r, link, Subscribed)
    <3>1. r.pc \in Loop \cup {"existing"} =>
            \A c \in Subscribed : c <= Max(r.page) => c \in r.page \/ link[c] # 0
      BY <2>3, <2>4, <2>5, <2>6, <2>7 DEF Loop
    <3>2. r.pc = "empty" => \A c \in Subscribed : link[c] # 0
      BY <2>3, <2>6, <2>7
    <3>3. r.pc \notin Loop /\ (r.from = 0 \/ r.from \in Subscribed)
      BY <2>1, <2>6 DEF Loop
    <3> QED BY <2>3, <2>6, <2>7, <3>1, <3>2, <3>3 DEF RunCovers
  <2> QED BY <1>4, <2>6, <2>8, CoveredByRun DEF ReadPage, book
<1>5. CASE MarkSent(k)
  <2>1. \A c \in Subscribed : link[c] # 0
    BY <1>0, <1>5 DEF MarkSent, RunCovers
  <2> QED BY <1>5, <2>1, CoveredByMove DEF MarkSent, DbThrows, book, Loop
<1>6. CASE ReadExisting(k)
  <2>1. CASE GoesTo(k, "return")
    BY <1>6, <2>1, CoveredByMove DEF ReadExisting, book, Loop
  <2>2. CASE run' = [run EXCEPT ![k].pc = "create",
                                ![k].todo = {c \in run[k].page : link[c] = 0}]
    <3> DEFINE r == [run[k] EXCEPT !.pc = "create", !.todo = {c \in run[k].page : link[c] = 0}]
    <3>1. /\ run' = [run EXCEPT ![k] = r] /\ r.pc = "create" /\ r.from = run[k].from
          /\ r.page = run[k].page /\ r.todo = {c \in run[k].page : link[c] = 0}
      BY <1>0, <2>2 DEF Runs
    <3> HIDE DEF r
    <3>2. RunCovers(r, link, Subscribed)
      BY <1>0, <1>6, <3>1 DEF RunCovers, ReadExisting, Loop
    <3> QED BY <1>6, <3>1, <3>2, CoveredByRun DEF ReadExisting, book
  <2> QED BY <1>6, <2>1, <2>2 DEF ReadExisting, DbThrows
<1>7. CASE CreateEmail(k)
  <2>1. CASE GoesTo(k, "record")
    BY <1>7, <2>1, CoveredByMove DEF CreateEmail, Loop
  <2>2. CASE ~GoesTo(k, "record")
    <3> DEFINE n == rows[InHand(k)] + 1
    <3>1. PICK send \in BOOLEAN :
            run' = [run EXCEPT ![k] = [run[k] EXCEPT !.pc = "link", !.email = n, !.send = send]]
      BY <1>7, <2>2 DEF CreateEmail
    <3> HIDE DEF n
    <3> DEFINE r == [run[k] EXCEPT !.pc = "link", !.email = n, !.send = send]
    <3>2. /\ run' = [run EXCEPT ![k] = r] /\ r.pc = "link" /\ r.from = run[k].from
          /\ r.page = run[k].page /\ r.todo = run[k].todo
      BY <1>0, <3>1 DEF Runs
    <3> HIDE DEF r
    <3>3. RunCovers(r, link, Subscribed)
      BY <1>0, <1>7, <3>2 DEF RunCovers, CreateEmail, Loop
    <3> QED BY <1>7, <3>2, <3>3, CoveredByRun DEF CreateEmail
  <2> QED BY <2>1, <2>2
<1>8. CASE LinkEmail(k)
  <2>1. CASE GoesTo(k, "record") /\ UNCHANGED link
    BY <1>8, <2>1, CoveredByMove DEF LinkEmail, Loop
  <2>2. CASE /\ link[InHand(k)] = 0
             /\ link' = [link EXCEPT ![InHand(k)] = run[k].email]
    <3>1. /\ run[k].email # 0 /\ run[k].pc = "link" /\ InHand(k) \in Contacts
          /\ run[k].todo # {}
      BY <1>0, <1>8 DEF LinkEmail, OnlyLinkedQueued, HoldsLink
    <3>2. (\A c \in Contacts : link[c] # 0 => link'[c] # 0) /\ link'[InHand(k)] # 0
      BY <1>0, <2>2, <3>1
    <3>3. CASE GoesTo(k, "queue")
      <4>1. PICK r : /\ run' = [run EXCEPT ![k] = r]
                     /\ r.pc = "queue" /\ r.page = run[k].page /\ r.todo = run[k].todo
                     /\ r.from = run[k].from
        BY <3>3, MovedRun
      <4>2. run[k].page \in SUBSET Contacts
        BY <1>0 DEF Runs
      <4>3. RunCovers(r, link', Subscribed)
        BY <1>0, <3>1, <3>2, <4>1, <4>2 DEF RunCovers, Loop
      <4> QED BY <1>8, <3>2, <4>1, <4>3, CoveredByRun DEF LinkEmail
    <3>4. CASE NextContact(k)
      BY <1>8, <3>1, <3>2, <3>4, CoveredByNext DEF LinkEmail, Loop
    <3> QED BY <1>8, <3>1, <3>3, <3>4, <2>1, <2>2 DEF LinkEmail
  <2> QED BY <1>8, <2>1, <2>2 DEF LinkEmail
<1>9. CASE QueueEmail(k)
  <2>1. CASE GoesTo(k, "record")
    BY <1>9, <2>1, CoveredByMove DEF QueueEmail, Loop
  <2>2. CASE NextContact(k)
    <3>1. link[InHand(k)] # 0
      BY <1>9 DEF QueueEmail, OnlyLinkedQueued, HoldsLink, InHand
    <3> QED BY <1>0, <1>9, <2>2, <3>1, CoveredByNext DEF QueueEmail, Loop
  <2> QED BY <1>9, <2>1, <2>2 DEF QueueEmail
<1>10. CASE RecordFailure(k)
  <2>1. (\A c \in Contacts : link[c] # 0 => link'[c] # 0) /\ link'[InHand(k)] # 0
    BY <1>0, <1>10 DEF RecordFailure
  <2> QED BY <1>0, <1>10, <2>1, CoveredByNext DEF RecordFailure, Loop
<1>11. CASE AdvanceCursor(k)
  <2>1. CASE cursor' = cursor
    BY <1>11, <2>1, CoveredByMove DEF AdvanceCursor, DbThrows, book, Loop
  <2>2. CASE cursor' = Max(run[k].page) /\ GoesTo(k, "return")
    <3>1. /\ run[k].page # {} /\ run[k].page \in SUBSET Subscribed
          /\ \A c \in Subscribed : c <= Max(run[k].page) => link[c] # 0
      BY <1>0, <1>11 DEF AdvanceCursor, RunsTyped, RunType, RunCovers, Loop
    <3>2. Max(run[k].page) \in Subscribed
      BY <1>0, <3>1, MaxIsGreatest
    <3>3. PICK r : /\ run' = [run EXCEPT ![k] = r]
                   /\ r.pc = "return" /\ r.from = run[k].from
      BY <2>2, MovedRun
    <3>4. RunCovers(r, link, Subscribed)
      BY <1>0, <3>3 DEF RunCovers, Loop
    <3> QED BY <1>11, <2>2, <3>1, <3>2, <3>3, <3>4, CoveredByRun DEF AdvanceCursor, book
  <2> QED BY <1>11, <2>1, <2>2 DEF AdvanceCursor, DbThrows
<1>12. CASE FinishJob(k) \/ Crash(k)
  <2>1. IdleRun.from = 0 /\ IdleRun.pc = "idle"
    BY DEF IdleRun
  <2>2. \A c \in Subscribed : ~(c <= 0)
    BY NumbersAssumption DEF Subscribed, Contacts
  <2>3. RunCovers(IdleRun, link, Subscribed)
    BY <2>1, <2>2 DEF RunCovers, Loop
  <2> QED BY <1>12, <2>3, CoveredByRun DEF FinishJob, Crash, book
<1> QED
  BY <1>1, <1>2, <1>3, <1>4, <1>5, <1>6, <1>7, <1>8, <1>9, <1>10, <1>11, <1>12 DEF Batch

Steady == mix \cap {"join", "leave", "contact", "campaign", "db"} = {}

LEMMA NextCovered ==
    ASSUME Steady, RunsTyped, OnlyLinkedQueued, Covered, [Next]_vars
    PROVE  Covered'
<1>1. CASE \E k \in Workers : Batch(k) \/ Crash(k)
  BY <1>1, BatchCovered DEF Steady
<1>2. CASE /\ UNCHANGED <<run, link, contact>>
           /\ status' = status \/ status' # "SENT"
           /\ cursor' = cursor \/ cursor' = 0
  <2>1. Subscribed' = Subscribed /\ \A c \in Subscribed : ~(c <= 0)
    BY <1>2, NumbersAssumption DEF Subscribed, Contacts
  <2> QED BY <1>2, <2>1 DEF Covered, CursorIsCovered, SentIsComplete
<1>3. CASE Requests \/ Scheduler \/ RecoverStalled \/ TimePasses \/ UNCHANGED vars
  <2>1. ~DeleteCampaign
    BY DEF DeleteCampaign, Steady
  <2> QED
    BY <1>2, <1>3, <2>1
    DEF Requests, Scheduler, ScheduleRead, ScheduleWrite, PauseCampaign, ResumeRead, ResumeWrite,
        TickRead, QueueBatchRead, AddBatch, RecoverStalled, TimePasses, vars, state, book
<1>4. CASE ContactChanges
  BY <1>4 DEF ContactChanges, Steady
<1> QED BY <1>1, <1>3, <1>4 DEF Next, Step

\* While the book does not change and the database answers, a campaign is SENT
\* only when every subscribed contact has an email or a recorded failure, for
\* any number of crashes, reruns, pauses and reschedules.
THEOREM SentLeavesNobody == Spec => []SteadySentIsComplete
<1> DEFINE Kept == Steady => OnlyLinkedQueued /\ Covered
<1>1. Init => OnlyLinkedQueued /\ Covered
  <2>1. Init => OnlyLinkedQueued
    BY DEF Init, OnlyLinkedQueued, HoldsLink, IdleRun
  <2>2. \A c \in Subscribed : ~(c <= 0)
    BY NumbersAssumption DEF Subscribed, Contacts
  <2>3. Init => Covered
    BY <2>2 DEF Init, Covered, CursorIsCovered, SentIsComplete, RunCovers, IdleRun, Loop
  <2> QED BY <2>1, <2>3
<1>2. RunsTyped /\ Kept /\ [Next]_vars => Kept'
  <2> SUFFICES ASSUME RunsTyped, Kept, [Next]_vars, Steady'
               PROVE  OnlyLinkedQueued' /\ Covered'
    OBVIOUS
  <2>1. Steady
    BY DEF Next, vars, Steady
  <2> QED BY <2>1, NextLinked, NextCovered DEF Steady
<1>3. Kept => SteadySentIsComplete
  BY DEF Covered, Steady, SteadySentIsComplete
<1>4. Spec => []RunsTyped
  BY InitTyped, NextTyped, PTL DEF Spec
<1> QED BY <1>1, <1>2, <1>3, <1>4, PTL DEF Spec

-----------------------------------------------------------------------------
(***************************************************************************)
(* While no slot crashed or lost its job, one of them at most runs the     *)
(* batch.                                                                  *)
(***************************************************************************)

\* A slot that runs has the job, and the owner of the job runs.
Alone ==
    /\ \A k \in Workers : run[k].pc # "idle" => job.state = "active" /\ job.owner = k
    /\ job.state = "active" => run[job.owner].pc # "idle"

OthersIdle(k) == \A q \in Workers \ {k} : run[q].pc = "idle"

LEMMA BatchAlone ==
    ASSUME RunsTyped, Alone, NEW k \in Workers, Batch(k)
    PROVE  Alone' /\ OthersIdle(k)
<1>0. /\ run \in [Workers -> Runs]
      /\ job \in [state : {"none", "waiting", "active", "failed"},
                  owner : Workers \cup {Nobody}, stalls : Nat]
      /\ job.state = "active" => job.owner \in Workers
  BY DEF RunsTyped, TypeOK, Runs
<1>1. CASE TakeJob(k)
  <2>1. \A q \in Workers : run[q].pc = "idle"
    BY <1>1 DEF Alone, TakeJob
  <2>2. run'[k].pc = "read" /\ \A q \in Workers \ {k} : run'[q] = run[q]
    BY <1>0, <1>1 DEF TakeJob, GoesTo, Runs
  <2>3. job'.state = "active" /\ job'.owner = k
    BY <1>0, <1>1 DEF TakeJob
  <2> QED BY <2>1, <2>2, <2>3 DEF Alone, OthersIdle
<1>2. CASE FinishJob(k)
  <2>1. job.state = "active" /\ job.owner = k /\ OthersIdle(k)
    BY <1>2 DEF Alone, FinishJob, OthersIdle
  <2>2. run' = [run EXCEPT ![k] = IdleRun]
    BY <1>2 DEF FinishJob
  <2>3. \A q \in Workers : run'[q].pc = "idle"
    BY <1>0, <2>1, <2>2 DEF OthersIdle, IdleRun
  <2>4. job'.state # "active"
    BY <1>0, <1>2, <2>1 DEF FinishJob, NoJob
  <2> QED BY <2>1, <2>3, <2>4 DEF Alone
<1>3. CASE run[k].pc # "idle" /\ run'[k].pc # "idle" /\ UNCHANGED job
           /\ \A q \in Workers \ {k} : run'[q] = run[q]
  BY <1>3 DEF Alone, OthersIdle
<1>4. ASSUME NEW p \in Points \ {"idle"}, GoesTo(k, p), run[k].pc # "idle", UNCHANGED job
      PROVE  Alone' /\ OthersIdle(k)
  BY <1>3, <1>4, MovedRun, OthersStay
<1>5. ASSUME NextContact(k), run[k].pc # "idle", UNCHANGED job
      PROVE  Alone' /\ OthersIdle(k)
  BY <1>3, <1>5, NextRun, OthersStay
<1>6. CASE ReadCampaign(k) \/ ReadPage(k) \/ ReadExisting(k) \/ CreateEmail(k)
  <2>1. run[k].pc # "idle" /\ UNCHANGED job
    BY <1>6 DEF ReadCampaign, ReadPage, ReadExisting, CreateEmail
  <2>2. run'[k].pc # "idle" /\ \A q \in Workers \ {k} : run'[q] = run[q]
    BY <1>0, <1>6 DEF ReadCampaign, ReadPage, ReadExisting, CreateEmail, GoesTo, DbThrows, Runs
  <2> QED BY <1>3, <2>1, <2>2
<1>7. CASE LinkEmail(k) \/ QueueEmail(k) \/ RecordFailure(k)
  <2>1. run[k].pc # "idle" /\ UNCHANGED job
    BY <1>7 DEF LinkEmail, QueueEmail, RecordFailure
  <2>2. GoesTo(k, "queue") \/ GoesTo(k, "record") \/ NextContact(k)
    BY <1>7 DEF LinkEmail, QueueEmail, RecordFailure
  <2> QED BY <1>4, <1>5, <2>1, <2>2 DEF Points
<1>8. CASE MarkRunning(k) \/ MarkSent(k) \/ AdvanceCursor(k)
  <2>1. run[k].pc # "idle" /\ UNCHANGED job
    BY <1>8 DEF MarkRunning, MarkSent, AdvanceCursor
  <2>2. \E p \in {"page", "throw", "return"} : GoesTo(k, p)
    BY <1>8 DEF MarkRunning, MarkSent, AdvanceCursor, DbThrows
  <2> QED BY <1>4, <2>1, <2>2 DEF Points
<1> QED BY <1>1, <1>2, <1>6, <1>7, <1>8 DEF Batch

LEMMA NextAlone ==
    ASSUME RunsTyped, crashes = 0 => Alone, [Next]_vars, crashes' = 0
    PROVE  crashes = 0 /\ Alone'
<1>0. crashes \in Nat /\ run \in [Workers -> Runs]
      /\ job \in [state : {"none", "waiting", "active", "failed"},
                  owner : Workers \cup {Nobody}, stalls : Nat]
  BY NumbersAssumption DEF RunsTyped, TypeOK, Runs
<1>1. CASE \E k \in Workers : Batch(k)
  <2>1. UNCHANGED crashes
    BY <1>1 DEF Batch, TakeJob, ReadCampaign, MarkRunning, ReadPage, MarkSent, ReadExisting,
       CreateEmail, LinkEmail, QueueEmail, RecordFailure, AdvanceCursor, FinishJob, outside
  <2> QED BY <1>1, <2>1, BatchAlone
<1>2. CASE \E k \in Workers : Crash(k)
  BY <1>0, <1>2 DEF Crash
<1>3. CASE RecoverStalled
  <2>1. UNCHANGED crashes /\ run[job.owner].pc = "idle" /\ job.state = "active"
    BY <1>0, <1>3 DEF RecoverStalled
  <2> QED BY <2>1 DEF Alone
<1>4. CASE AddBatch
  <2>1. UNCHANGED <<crashes, run>> /\ job' \in {job, [NoJob EXCEPT !.state = "waiting"]}
    BY <1>4 DEF AddBatch
  <2>2. job'.state = "active" => job' = job
    BY <1>0, <2>1 DEF NoJob
  <2>3. job.state = "active" => UNCHANGED job
    BY <1>4 DEF AddBatch
  <2> QED BY <2>1, <2>2, <2>3 DEF Alone
<1>5. CASE UNCHANGED <<crashes, run, job>>
  BY <1>5 DEF Alone
<1> QED
  BY <1>1, <1>2, <1>3, <1>4, <1>5 DEF Next, Step, Requests, Scheduler, ScheduleRead,
     ScheduleWrite, PauseCampaign, ResumeRead, ResumeWrite, DeleteCampaign, TickRead, QueueBatchRead,
     TimePasses, ContactChanges, Ask, WillWrite, vars, state, outside

-----------------------------------------------------------------------------
(***************************************************************************)
(* No email is left in no queue.                                           *)
(***************************************************************************)

Settled(c) == link[c] \in {0} \cup queued[c] \cup failed[c] \cup suppressed[c]

\* What a run knows of the contact in hand: an email that is not to be sent is SUPPRESSED,
\* the email to queue is the linked one, and without a queue that throws a failure is
\* that of a contact that has no email in no queue.
HandSound(r) ==
    /\ r.pc = "link" /\ ~r.send => r.email \in suppressed[Min(r.todo)]
    /\ r.pc = "queue" => link[Min(r.todo)] \in {0, r.email}
    /\ r.pc = "record" /\ "queue" \notin mix => Settled(Min(r.todo))

AllSettled ==
    /\ \A c \in Contacts :
          \/ Settled(c)
          \/ \E k \in Workers : run[k].pc \in {"queue", "record"} /\ InHand(k) = c
    /\ \A k \in Workers : HandSound(run[k])

\* Steps that leave emails alone and take a run from a point before the emails, or past
\* them, to another one.
LEMMA SettledByMove ==
    ASSUME RunsTyped, AllSettled, UNCHANGED <<link, queued, failed, suppressed, mix>>,
           NEW k \in Workers, run[k].pc \notin {"queue", "record"},
           NEW r, run' = [run EXCEPT ![k] = r], r.pc \notin {"link", "queue", "record"}
    PROVE  AllSettled'
<1>1. run'[k] = r /\ \A q \in Workers \ {k} : run'[q] = run[q]
  BY OthersStay
<1>2. \A q \in Workers : HandSound(run[q])'
  BY <1>1 DEF AllSettled, HandSound, Settled
<1>3. ASSUME NEW c \in Contacts
      PROVE  Settled(c)' \/ \E q \in Workers : run'[q].pc \in {"queue", "record"} /\ InHand(q)' = c
  <2>1. CASE Settled(c)
    BY <2>1 DEF Settled
  <2>2. CASE ~Settled(c)
    <3>1. PICK q \in Workers : run[q].pc \in {"queue", "record"} /\ InHand(q) = c
      BY <2>2 DEF AllSettled
    <3> QED BY <1>1, <3>1 DEF InHand
  <2> QED BY <2>1, <2>2
<1> QED BY <1>2, <1>3 DEF AllSettled

\* Steps of the only run, which may disturb the contact in hand.
LEMMA SettledByRun ==
    ASSUME RunsTyped, NEW k \in Workers, OthersIdle(k),
           NEW r, run' = [run EXCEPT ![k] = r],
           \A c \in Contacts : Settled(c)' \/ (r.pc \in {"queue", "record"} /\ Min(r.todo) = c),
           r.pc = "link" /\ ~r.send => r.email \in suppressed'[Min(r.todo)],
           r.pc = "queue" => link'[Min(r.todo)] \in {0, r.email},
           r.pc = "record" /\ "queue" \notin mix' => Settled(Min(r.todo))'
    PROVE  AllSettled'
<1>1. run'[k] = r /\ \A q \in Workers \ {k} : run'[q].pc = "idle"
  BY OthersStay DEF OthersIdle
<1>2. \A q \in Workers : HandSound(run[q])'
  BY <1>1 DEF HandSound, Settled
<1> QED BY <1>1, <1>2 DEF AllSettled, InHand

LEMMA BatchSettled ==
    ASSUME RunsTyped, AllSettled, NEW k \in Workers, OthersIdle(k), Batch(k), UNCHANGED mix,
           ~({"queue", "db"} \subseteq mix)
    PROVE  AllSettled'
<1>0. /\ run[k] \in Runs
      /\ run[k].pc \in {"link", "queue", "record"} => InHand(k) \in Contacts
      /\ link \in [Contacts -> Nat] /\ rows \in [Contacts -> Nat]
      /\ queued \in [Contacts -> SUBSET Nat] /\ failed \in [Contacts -> SUBSET Nat]
      /\ suppressed \in [Contacts -> SUBSET Nat]
  BY HandIsContact DEF RunsTyped, RunType, TypeOK
<1>1. /\ \A c \in Contacts : Settled(c) \/ (run[k].pc \in {"queue", "record"} /\ InHand(k) = c)
      /\ HandSound(run[k])
  <2>1. \A q \in Workers : run[q].pc \in {"queue", "record"} => q = k
    BY DEF OthersIdle
  <2> QED BY <2>1 DEF AllSettled
<1>2. ASSUME NEW p \in Points \ {"link", "queue", "record"}, GoesTo(k, p),
             run[k].pc \notin {"queue", "record"},
             UNCHANGED <<link, queued, failed, suppressed>>
      PROVE  AllSettled'
  BY <1>2, MovedRun, SettledByMove
<1>3. CASE ReadCampaign(k)
  <2>1. CASE \E p \in {"mark", "page"} : run' = [run EXCEPT ![k].pc = p, ![k].from = cursor]
    <3>1. PICK p \in {"mark", "page"} :
            run' = [run EXCEPT ![k] = [run[k] EXCEPT !.pc = p, !.from = cursor]]
      BY <2>1
    <3>2. [run[k] EXCEPT !.pc = p, !.from = cursor].pc = p
      BY <1>0 DEF Runs
    <3> QED BY <1>3, <3>1, <3>2, SettledByMove DEF ReadCampaign, book
  <2> QED BY <1>2, <1>3, <2>1 DEF ReadCampaign, DbThrows, book, Points
<1>4. CASE ReadPage(k)
  <2>1. CASE DbThrows(k)
    BY <1>2, <1>4, <2>1 DEF ReadPage, DbThrows, book, Points
  <2>2. CASE ~DbThrows(k)
    <3>1. PICK page \in SUBSET Contacts :
            run' = [run EXCEPT ![k].pc = IF page = {} THEN "empty" ELSE "existing",
                               ![k].page = page]
      BY <1>4, <2>2 DEF ReadPage, Page, Subscribed
    <3> DEFINE r == [run[k] EXCEPT !.pc = IF page = {} THEN "empty" ELSE "existing",
                                   !.page = page]
    <3>2. run' = [run EXCEPT ![k] = r]
      BY <3>1
    <3>3. r.pc \in {"empty", "existing"}
      BY <1>0 DEF Runs
    <3>4. run[k].pc = "page" /\ UNCHANGED <<link, queued, failed, suppressed>>
      BY <1>4 DEF ReadPage, book
    <3> HIDE DEF r
    <3> QED BY <3>2, <3>3, <3>4, SettledByMove
  <2> QED BY <2>1, <2>2
<1>5. CASE ReadExisting(k)
  <2>1. CASE run' = [run EXCEPT ![k].pc = "create",
                                ![k].todo = {c \in run[k].page : link[c] = 0}]
    <3> DEFINE r == [run[k] EXCEPT !.pc = "create", !.todo = {c \in run[k].page : link[c] = 0}]
    <3>1. run' = [run EXCEPT ![k] = r] /\ r.pc = "create"
      BY <1>0, <2>1 DEF Runs
    <3>2. run[k].pc = "existing" /\ UNCHANGED <<link, queued, failed, suppressed>>
      BY <1>5 DEF ReadExisting, book
    <3> HIDE DEF r
    <3> QED BY <3>1, <3>2, SettledByMove
  <2> QED BY <1>2, <1>5, <2>1 DEF ReadExisting, DbThrows, book, Points
<1>6. CASE TakeJob(k) \/ MarkRunning(k) \/ MarkSent(k) \/ AdvanceCursor(k)
  <2>1. \E p \in Points \ {"link", "queue", "record"} : GoesTo(k, p)
    BY <1>6 DEF TakeJob, MarkRunning, MarkSent, AdvanceCursor, DbThrows, Points
  <2>2. UNCHANGED <<link, queued, failed, suppressed>> /\ run[k].pc \notin {"queue", "record"}
    BY <1>6 DEF TakeJob, MarkRunning, MarkSent, AdvanceCursor, book
  <2> QED BY <1>2, <2>1, <2>2
<1>7. CASE FinishJob(k)
  BY <1>7, SettledByMove DEF FinishJob, IdleRun, book
<1>8. CASE CreateEmail(k)
  <2> DEFINE c == InHand(k)
             n == rows[c] + 1
  <2>0. c \in Contacts /\ n \in Nat /\ \A d \in Contacts : Settled(d)
    BY <1>0, <1>1, <1>8, HandIsContact DEF CreateEmail, RunsTyped
  <2>1. CASE GoesTo(k, "record") /\ UNCHANGED suppressed
    <3>1. PICK r : run' = [run EXCEPT ![k] = r] /\ r.pc = "record" /\ r.todo = run[k].todo
      BY <2>1, MovedRun DEF Points
    <3>2. \A d \in Contacts : Settled(d)'
      BY <1>8, <2>0, <2>1 DEF CreateEmail, Settled
    <3> QED BY <2>0, <3>1, <3>2, SettledByRun DEF InHand
  <2>2. ASSUME NEW send \in BOOLEAN,
               run' = [run EXCEPT ![k].pc = "link", ![k].email = n, ![k].send = send],
               suppressed' = IF send THEN suppressed
                             ELSE [suppressed EXCEPT ![c] = @ \cup {n}]
        PROVE  AllSettled'
    <3>1. /\ run' = [run EXCEPT ![k] = [run[k] EXCEPT !.pc = "link", !.email = n,
                                                      !.send = send]]
          /\ suppressed' = IF send THEN suppressed
                           ELSE [suppressed EXCEPT ![c] = @ \cup {n}]
      BY <2>2
    <3> HIDE DEF c, n
    <3> DEFINE r == [run[k] EXCEPT !.pc = "link", !.email = n, !.send = send]
    <3>2. r.pc = "link" /\ r.email = n /\ r.send = send /\ Min(r.todo) = c
      BY <1>0, <2>0 DEF Runs, InHand, c
    <3>3. ~send => n \in suppressed'[c]
      BY <1>0, <2>0, <3>1
    <3>4. \A d \in Contacts : suppressed[d] \subseteq suppressed'[d]
      BY <1>0, <3>1
    <3>5. \A d \in Contacts : Settled(d)'
      BY <1>8, <2>0, <3>4 DEF CreateEmail, Settled
    <3> QED BY <3>1, <3>2, <3>3, <3>5, SettledByRun
  <2> QED BY <1>8, <2>1, <2>2 DEF CreateEmail
<1>9. CASE LinkEmail(k)
  <2> DEFINE c == InHand(k)
  <2>0. c \in Contacts /\ run[k].pc = "link" /\ \A d \in Contacts : Settled(d)
    BY <1>0, <1>1, <1>9 DEF LinkEmail
  <2>1. CASE GoesTo(k, "record") /\ UNCHANGED link
    <3>1. PICK r : run' = [run EXCEPT ![k] = r] /\ r.pc = "record" /\ r.todo = run[k].todo
      BY <2>1, MovedRun DEF Points
    <3>2. \A d \in Contacts : Settled(d)'
      BY <1>9, <2>0, <2>1 DEF LinkEmail, Settled
    <3> QED BY <2>0, <3>1, <3>2, SettledByRun DEF InHand
  <2>2. CASE /\ link' = [link EXCEPT ![c] = run[k].email]
             /\ IF run[k].send THEN GoesTo(k, "queue") ELSE NextContact(k)
    <3>1. \A d \in Contacts \ {c} : Settled(d)'
      BY <1>0, <1>9, <2>0, <2>2 DEF LinkEmail, Settled
    <3>2. link'[c] = run[k].email
      BY <1>0, <2>0, <2>2
    <3>3. CASE run[k].send
      <4>1. PICK r : /\ run' = [run EXCEPT ![k] = r] /\ r.pc = "queue"
                     /\ r.todo = run[k].todo /\ r.email = run[k].email
        BY <2>2, <3>3, MovedRun DEF Points
      <4> QED BY <3>1, <3>2, <4>1, SettledByRun DEF InHand
    <3>4. CASE ~run[k].send
      <4>1. PICK r : run' = [run EXCEPT ![k] = r] /\ r.pc = "create"
        BY <2>2, <3>4, NextRun
      <4>2. run[k].email \in suppressed[c]
        BY <1>1, <2>0, <3>4 DEF HandSound, InHand
      <4>3. \A d \in Contacts : d = c => Settled(d)'
        BY <1>9, <3>2, <4>2 DEF LinkEmail, Settled
      <4> QED BY <3>1, <4>1, <4>3, SettledByRun
    <3> QED BY <3>3, <3>4
  <2> QED BY <1>9, <2>1, <2>2 DEF LinkEmail
<1>10. CASE QueueEmail(k)
  <2> DEFINE c == InHand(k)
  <2>0. /\ c \in Contacts /\ link[c] \in {0, run[k].email}
        /\ UNCHANGED <<link, failed, suppressed>>
    BY <1>0, <1>1, <1>10 DEF QueueEmail, HandSound, InHand
  <2>1. CASE queued' = [queued EXCEPT ![c] = @ \cup {run[k].email}]
    <3>1. \A d \in Contacts : Settled(d)'
      BY <1>0, <1>1, <1>10, <2>0, <2>1 DEF Settled
    <3>2. PICK r : /\ run' = [run EXCEPT ![k] = r]
                   /\ r.pc = "create" \/ (r.pc = "record" /\ r.todo = run[k].todo)
      BY <1>10, NextRun, MovedRun DEF QueueEmail, Points
    <3> QED BY <2>0, <3>1, <3>2, SettledByRun DEF InHand
  <2>2. CASE "queue" \in mix /\ GoesTo(k, "record") /\ UNCHANGED queued
    <3>1. PICK r : run' = [run EXCEPT ![k] = r] /\ r.pc = "record" /\ r.todo = run[k].todo
      BY <2>2, MovedRun DEF Points
    <3>2. \A d \in Contacts \ {c} : Settled(d)'
      BY <1>1, <2>0, <2>2 DEF Settled
    <3> QED BY <2>2, <3>1, <3>2, SettledByRun DEF InHand
  <2> QED BY <1>10, <2>1, <2>2 DEF QueueEmail
<1>11. CASE RecordFailure(k)
  <2> DEFINE c == InHand(k)
  <2>0. c \in Contacts /\ UNCHANGED <<queued, suppressed>>
    BY <1>0, <1>11 DEF RecordFailure
  <2>1. PICK r : run' = [run EXCEPT ![k] = r] /\ r.pc = "create"
    BY <1>11, NextRun DEF RecordFailure
  <2>2. \A d \in Contacts : Settled(d)'
    <3>1. CASE "db" \in mix /\ UNCHANGED <<link, failed>>
      BY <1>1, <1>11, <2>0, <3>1 DEF RecordFailure, HandSound, Settled, InHand
    <3>2. CASE \E n \in Nat : /\ link' = [link EXCEPT ![c] = n]
                              /\ failed' = [failed EXCEPT ![c] = @ \cup {n}]
      BY <1>0, <1>1, <2>0, <3>2 DEF Settled
    <3>3. (IF link[c] # 0 THEN link[c] ELSE IF rows[c] # 0 THEN rows[c] ELSE 1) \in Nat
      BY <1>0, <2>0
    <3> HIDE DEF c
    <3> QED BY <1>11, <3>1, <3>2, <3>3 DEF RecordFailure, c
  <2> QED BY <2>1, <2>2, SettledByRun
<1> QED
  BY <1>3, <1>4, <1>5, <1>6, <1>7, <1>8, <1>9, <1>10, <1>11 DEF Batch

\* An email of the campaign that was created is in the queue, FAILED or SUPPRESSED, however
\* its batch fails, as long as its slot lives.
THEOREM NoEmailIsForgotten == Spec => []LinkedIsSettled
<1> DEFINE May == crashes = 0 /\ ~({"queue", "db"} \subseteq mix)
           J == crashes = 0 => Alone
           K == May => AllSettled
<1>1. Init => J /\ K
  <2>1. ASSUME Init PROVE \A k \in Workers : run[k].pc = "idle"
    BY <2>1 DEF Init, IdleRun
  <2>2. Init => Alone
    BY <2>1 DEF Init, Alone, NoJob
  <2>3. Init => AllSettled
    BY <2>1 DEF Init, AllSettled, HandSound, Settled
  <2> QED BY <2>2, <2>3
<1>2. RunsTyped /\ J /\ K /\ [Next]_vars => J' /\ K'
  <2> SUFFICES ASSUME RunsTyped, J, K, [Next]_vars, crashes' = 0 PROVE J' /\ K'
    OBVIOUS
  <2>1. crashes = 0 /\ Alone' /\ UNCHANGED mix
    BY NextAlone DEF Next, vars
  <2>2. ASSUME ~({"queue", "db"} \subseteq mix) PROVE AllSettled'
    <3>1. AllSettled /\ Alone
      BY <2>1, <2>2
    <3>2. CASE \E k \in Workers : Batch(k)
      BY <2>1, <2>2, <3>1, <3>2, BatchAlone, BatchSettled
    <3>3. CASE \E k \in Workers : Crash(k)
      BY <2>1, <3>3, NumbersAssumption DEF Crash
    <3>4. CASE DeleteCampaign
      <4>1. \A c \in Contacts : Settled(c)'
        BY <3>4 DEF DeleteCampaign, Settled
      <4>2. \A k \in Workers : HandSound(run[k])'
        <5> TAKE k \in Workers
        <5>1. run[k].pc \in {"link", "queue", "record"} => Min(run[k].todo) \in Contacts
          BY HandIsContact DEF RunsTyped, RunType, InHand
        <5>2. UNCHANGED <<run, suppressed>> /\ link' = [c \in Contacts |-> 0]
          BY <3>4 DEF DeleteCampaign
        <5> QED BY <2>1, <3>1, <4>1, <5>1, <5>2 DEF AllSettled, HandSound
      <4> QED BY <4>1, <4>2 DEF AllSettled
    <3>5. CASE UNCHANGED <<run, link, queued, failed, suppressed>>
      BY <2>1, <3>1, <3>5 DEF AllSettled, HandSound, Settled, InHand
    <3> QED
      BY <3>2, <3>3, <3>4, <3>5 DEF Next, Step, Requests, Scheduler, ScheduleRead,
         ScheduleWrite, PauseCampaign, ResumeRead, ResumeWrite, TickRead, QueueBatchRead, AddBatch,
         RecoverStalled, TimePasses, ContactChanges, vars, state, book
  <2> QED BY <2>1, <2>2
<1>3. K => LinkedIsSettled
  BY DEF LinkedIsSettled, AllSettled, Settled
<1>4. Init => RunsTyped
  BY InitTyped
<1>5. RunsTyped /\ [Next]_vars => RunsTyped'
  BY NextTyped
<1> QED BY <1>1, <1>2, <1>3, <1>4, <1>5, PTL DEF Spec

-----------------------------------------------------------------------------
(***************************************************************************)
(* What is reported FAILED or SUPPRESSED was not queued.                   *)
(***************************************************************************)

\* Emails that are linked, FAILED or SUPPRESSED exist, so that a new one is none of them.
EmailsExist ==
    \A c \in Contacts :
        /\ link[c] <= rows[c]
        /\ \A n \in failed[c] \cup suppressed[c] : n <= rows[c]

NoneBoth == \A c \in Contacts : queued[c] \cap (failed[c] \cup suppressed[c]) = {}

\* What is left of a page has no email in the queue and, but for the contact in hand, no
\* linked one; the email in hand was not reported.
RunFresh(r) ==
    /\ r.pc \in Loop => \A c \in r.todo :
          /\ queued[c] = {}
          /\ link[c] = 0 \/ (r.pc \in {"queue", "record"} /\ c = Min(r.todo))
    /\ r.pc \in {"link", "queue"} => r.email <= rows[Min(r.todo)]
    /\ r.pc = "queue" \/ (r.pc = "link" /\ r.send) =>
          r.email \notin failed[Min(r.todo)] \cup suppressed[Min(r.todo)]

Fresh == EmailsExist /\ NoneBoth /\ \A k \in Workers : RunFresh(run[k])

\* Steps of the only run.
LEMMA FreshByRun ==
    ASSUME RunsTyped, NEW k \in Workers, OthersIdle(k),
           NEW r, run' = [run EXCEPT ![k] = r],
           EmailsExist', NoneBoth', RunFresh(r)'
    PROVE  Fresh'
<1>1. run'[k] = r /\ \A q \in Workers \ {k} : run'[q].pc = "idle"
  BY OthersStay DEF OthersIdle
<1>2. \A q \in Workers : RunFresh(run[q])'
  BY <1>1 DEF RunFresh, Loop
<1> QED BY <1>2 DEF Fresh

\* The same where the emails stay as they are.
LEMMA FreshByMove ==
    ASSUME RunsTyped, Fresh, NEW k \in Workers, OthersIdle(k),
           NEW r, run' = [run EXCEPT ![k] = r], UNCHANGED book, r.pc \notin Loop
    PROVE  Fresh'
<1>1. EmailsExist' /\ NoneBoth'
  BY DEF Fresh, EmailsExist, NoneBoth, book
<1>2. RunFresh(r)'
  BY DEF RunFresh, Loop
<1> QED BY <1>1, <1>2, FreshByRun

LEMMA BatchFresh ==
    ASSUME RunsTyped, OnlyLinkedQueued, Fresh, NEW k \in Workers, OthersIdle(k), Batch(k),
           "reply" \notin mix
    PROVE  Fresh'
<1>0. /\ run[k] \in Runs
      /\ run[k].pc \in {"link", "queue", "record"} =>
            InHand(k) \in Contacts /\ InHand(k) \in run[k].todo
      /\ link \in [Contacts -> Nat] /\ rows \in [Contacts -> Nat]
      /\ queued \in [Contacts -> SUBSET Nat] /\ failed \in [Contacts -> SUBSET Nat]
      /\ suppressed \in [Contacts -> SUBSET Nat]
      /\ run[k].todo \subseteq Contacts
  BY HandIsContact DEF RunsTyped, RunType, TypeOK, Runs
<1>1. EmailsExist /\ NoneBoth /\ RunFresh(run[k])
  BY DEF Fresh
<1>2. ASSUME NEW p \in Points \ Loop, GoesTo(k, p), UNCHANGED book
      PROVE  Fresh'
  BY <1>2, MovedRun, FreshByMove
<1>3. CASE ReadCampaign(k)
  <2>1. CASE \E p \in {"mark", "page"} : run' = [run EXCEPT ![k].pc = p, ![k].from = cursor]
    <3>1. PICK p \in {"mark", "page"} :
            run' = [run EXCEPT ![k] = [run[k] EXCEPT !.pc = p, !.from = cursor]]
      BY <2>1
    <3>2. [run[k] EXCEPT !.pc = p, !.from = cursor].pc = p
      BY <1>0 DEF Runs
    <3> QED BY <1>3, <3>1, <3>2, FreshByMove DEF ReadCampaign, Loop
  <2> QED BY <1>2, <1>3, <2>1 DEF ReadCampaign, DbThrows, Points, Loop
<1>4. CASE ReadPage(k)
  <2>1. CASE DbThrows(k)
    BY <1>2, <1>4, <2>1 DEF ReadPage, DbThrows, Points, Loop
  <2>2. CASE ~DbThrows(k)
    <3>1. PICK page \in SUBSET Contacts :
            run' = [run EXCEPT ![k].pc = IF page = {} THEN "empty" ELSE "existing",
                               ![k].page = page]
      BY <1>4, <2>2 DEF ReadPage, Page, Subscribed
    <3> DEFINE r == [run[k] EXCEPT !.pc = IF page = {} THEN "empty" ELSE "existing",
                                   !.page = page]
    <3>2. run' = [run EXCEPT ![k] = r]
      BY <3>1
    <3>3. r.pc \notin Loop
      BY <1>0 DEF Runs, Loop
    <3>4. UNCHANGED book
      BY <1>4 DEF ReadPage
    <3> HIDE DEF r
    <3> QED BY <3>2, <3>3, <3>4, FreshByMove
  <2> QED BY <2>1, <2>2
<1>5. CASE ReadExisting(k)
  <2>1. CASE run' = [run EXCEPT ![k].pc = "create",
                                ![k].todo = {c \in run[k].page : link[c] = 0}]
    <3> DEFINE next == [run[k] EXCEPT !.pc = "create",
                                      !.todo = {c \in run[k].page : link[c] = 0}]
    <3>0. /\ run' = [run EXCEPT ![k] = next] /\ next.pc = "create"
          /\ \A c \in next.todo : c \in Contacts /\ link[c] = 0
      BY <1>0, <2>1 DEF Runs
    <3> HIDE DEF next
    <3>1. PICK r : run' = [run EXCEPT ![k] = r] /\ r.pc = "create" /\ r = next
      BY <3>0
    <3>2. \A c \in r.todo : c \in Contacts /\ link[c] = 0
      BY <3>0, <3>1
    <3>3. UNCHANGED book
      BY <1>5 DEF ReadExisting
    <3>4. \A c \in r.todo : queued[c] = {}
      BY <3>2 DEF OnlyLinkedQueued
    <3>5. RunFresh(r)'
      BY <3>1, <3>2, <3>3, <3>4 DEF RunFresh, book
    <3>6. EmailsExist' /\ NoneBoth'
      BY <1>1, <3>3 DEF EmailsExist, NoneBoth, book
    <3> QED BY <3>1, <3>5, <3>6, FreshByRun
  <2> QED BY <1>2, <1>5, <2>1 DEF ReadExisting, DbThrows, Points, Loop
<1>6. CASE TakeJob(k) \/ MarkRunning(k) \/ MarkSent(k) \/ AdvanceCursor(k)
  <2>1. (\E p \in Points \ Loop : GoesTo(k, p)) /\ UNCHANGED book
    BY <1>6 DEF TakeJob, MarkRunning, MarkSent, AdvanceCursor, DbThrows, Points, Loop
  <2> QED BY <1>2, <2>1
<1>7. CASE FinishJob(k)
  BY <1>7, FreshByMove DEF FinishJob, IdleRun, Loop
<1> DEFINE c == InHand(k)
\* The contact in hand, where there is one.
<1>8. ASSUME run[k].pc \in Loop, run[k].todo # {}
      PROVE  /\ c \in Contacts /\ c \in run[k].todo /\ c = Min(run[k].todo)
             /\ queued[c] = {}
             /\ \A d \in run[k].todo \ {c} : queued[d] = {} /\ link[d] = 0
             /\ run[k].pc \in {"create", "link"} => link[c] = 0
  <2>1. c \in Contacts /\ c \in run[k].todo /\ c = Min(run[k].todo)
    BY <1>8, HandIsContact DEF RunsTyped, InHand
  <2> QED BY <1>1, <1>8, <2>1 DEF RunFresh
<1> HIDE DEF c
\* Going on to the next contact leaves fresh ones.
<1>9. ASSUME run[k].pc \in Loop, run[k].todo # {}, NextContact(k),
             \A d \in run[k].todo \ {c} : queued'[d] = queued[d] /\ link'[d] = link[d],
             EmailsExist', NoneBoth'
      PROVE  Fresh'
  <2>1. PICK r : run' = [run EXCEPT ![k] = r] /\ r.pc = "create" /\ r.todo = run[k].todo \ {c}
    BY <1>9, NextRun DEF c
  <2>2. RunFresh(r)'
    BY <1>8, <1>9, <2>1 DEF RunFresh
  <2> QED BY <1>9, <2>1, <2>2, FreshByRun
\* So does going on to record a failure.
<1>10. ASSUME run[k].pc \in Loop, run[k].todo # {}, GoesTo(k, "record"), UNCHANGED book
       PROVE  Fresh'
  <2>1. PICK r : run' = [run EXCEPT ![k] = r] /\ r.pc = "record" /\ r.todo = run[k].todo
    BY <1>10, MovedRun
  <2>2. RunFresh(r)'
    BY <1>8, <1>10, <2>1 DEF RunFresh, book
  <2>3. EmailsExist' /\ NoneBoth'
    BY <1>1, <1>10 DEF EmailsExist, NoneBoth, book
  <2> QED BY <2>1, <2>2, <2>3, FreshByRun
<1>11. CASE CreateEmail(k)
  <2> DEFINE n == rows[c] + 1
  <2>0. run[k].pc \in Loop /\ run[k].todo # {} /\ c \in Contacts /\ n \in Nat
    BY <1>0, <1>8, <1>11 DEF CreateEmail, Loop
  <2>1. ASSUME NEW send \in BOOLEAN,
               rows' = [rows EXCEPT ![c] = n],
               suppressed' = IF send THEN suppressed
                             ELSE [suppressed EXCEPT ![c] = @ \cup {n}],
               run' = [run EXCEPT ![k].pc = "link", ![k].email = n, ![k].send = send],
               UNCHANGED <<link, queued, failed>>
        PROVE  Fresh'
    <3> DEFINE next == [run[k] EXCEPT !.pc = "link", !.email = n, !.send = send]
    <3>0. /\ run' = [run EXCEPT ![k] = next] /\ next.pc = "link" /\ next.todo = run[k].todo
          /\ next.email = n /\ next.send = send
      BY <1>0, <2>1 DEF Runs
    <3> HIDE DEF next
    <3>1. PICK r : /\ run' = [run EXCEPT ![k] = r] /\ r.pc = "link" /\ r.todo = run[k].todo
                   /\ r.email = n /\ r.send = send
      BY <3>0
    <3>2. /\ \A d \in Contacts : rows'[d] \in Nat /\ rows[d] <= rows'[d]
          /\ rows'[c] = n
      BY <1>0, <2>0, <2>1
    <3>3. \A d \in Contacts : d # c => suppressed'[d] = suppressed[d]
      BY <1>0, <2>1
    <3>4. suppressed'[c] \subseteq suppressed[c] \cup {n}
      BY <1>0, <2>0, <2>1
    <3>5. send => suppressed' = suppressed
      BY <2>1
    <3>6. \A m \in failed[c] \cup suppressed[c] : m \in Nat /\ m <= rows[c]
      BY <1>0, <1>1, <2>0 DEF EmailsExist
    <3>7. n \notin failed[c] \cup suppressed[c]
      BY <1>0, <2>0, <3>6
    <3>8. \A d \in Contacts : link'[d] <= rows'[d]
      BY <1>0, <1>1, <2>1, <3>2 DEF EmailsExist
    <3>9. \A d \in Contacts : \A m \in failed'[d] \cup suppressed'[d] : m <= rows'[d]
      <4> SUFFICES ASSUME NEW d \in Contacts, NEW m \in failed'[d] \cup suppressed'[d]
                   PROVE  m <= rows'[d]
        OBVIOUS
      <4>1. CASE m \in failed[d] \cup suppressed[d]
        <5>1. m \in Nat /\ m <= rows[d] /\ rows[d] \in Nat
          BY <1>0, <1>1, <4>1 DEF EmailsExist
        <5> QED BY <3>2, <5>1
      <4>2. CASE m \notin failed[d] \cup suppressed[d]
        <5>1. d = c /\ m = n
          BY <2>1, <3>3, <3>4, <4>2
        <5> QED BY <2>0, <3>2, <5>1
      <4> QED BY <4>1, <4>2
    <3>10. EmailsExist'
      BY <3>8, <3>9 DEF EmailsExist
    <3>11. NoneBoth'
      <4> SUFFICES ASSUME NEW d \in Contacts
                   PROVE  queued'[d] \cap (failed'[d] \cup suppressed'[d]) = {}
        BY DEF NoneBoth
      <4>1. CASE d = c
        BY <1>8, <2>0, <2>1, <4>1
      <4>2. CASE d # c
        BY <1>1, <2>1, <3>3, <4>2 DEF NoneBoth
      <4> QED BY <4>1, <4>2
    <3>12. RunFresh(r)'
      <4>1. \A d \in r.todo : queued'[d] = {} /\ link'[d] = 0
        BY <1>8, <1>11, <2>0, <2>1, <3>1 DEF CreateEmail
      <4>2. Min(r.todo) = c
        BY <1>8, <2>0, <3>1
      <4>3. r.email <= rows'[c]
        BY <2>0, <3>1, <3>2
      <4>4. r.send => r.email \notin failed'[c] \cup suppressed'[c]
        BY <2>1, <3>1, <3>5, <3>7
      <4> QED BY <3>1, <4>1, <4>2, <4>3, <4>4 DEF RunFresh
    <3> QED BY <3>1, <3>10, <3>11, <3>12, FreshByRun
  <2>2. CASE GoesTo(k, "record") /\ UNCHANGED <<rows, suppressed>>
    BY <1>10, <1>11, <2>0, <2>2 DEF CreateEmail, book
  <2> QED BY <1>11, <2>1, <2>2 DEF CreateEmail, c
<1>12. CASE LinkEmail(k)
  <2>0. run[k].pc \in Loop /\ run[k].todo # {} /\ c \in Contacts /\ run[k].email \in Nat
    BY <1>0, <1>12 DEF LinkEmail, Loop, Runs, c
  <2>1. CASE GoesTo(k, "record") /\ UNCHANGED link
    BY <1>10, <1>12, <2>0, <2>1 DEF LinkEmail, book
  <2>2. CASE /\ link' = [link EXCEPT ![c] = run[k].email]
             /\ IF run[k].send THEN GoesTo(k, "queue") ELSE NextContact(k)
    <3>1. /\ UNCHANGED <<rows, queued, failed, suppressed>>
          /\ link'[c] = run[k].email /\ \A d \in Contacts : d # c => link'[d] = link[d]
      BY <1>0, <1>12, <2>0, <2>2 DEF LinkEmail
    <3>2. /\ run[k].email <= rows[c]
          /\ run[k].send => run[k].email \notin failed[c] \cup suppressed[c]
      BY <1>1, <1>8, <1>12, <2>0 DEF LinkEmail, RunFresh
    <3>3. EmailsExist' /\ NoneBoth'
      BY <1>1, <3>1, <3>2 DEF EmailsExist, NoneBoth
    <3>4. CASE run[k].send
      <4>1. PICK r : /\ run' = [run EXCEPT ![k] = r] /\ r.pc = "queue"
                     /\ r.todo = run[k].todo /\ r.email = run[k].email
        BY <2>2, <3>4, MovedRun
      <4>2. \A d \in r.todo : queued'[d] = {} /\ (link'[d] = 0 \/ d = Min(r.todo))
        BY <1>0, <1>8, <2>0, <3>1, <4>1
      <4>3. Min(r.todo) = c
        BY <1>8, <2>0, <4>1
      <4>4. RunFresh(r)'
        BY <3>1, <3>2, <3>4, <4>1, <4>2, <4>3 DEF RunFresh
      <4> QED BY <3>3, <4>1, <4>4, FreshByRun
    <3>5. CASE ~run[k].send
      <4>1. \A d \in run[k].todo \ {c} : queued'[d] = queued[d] /\ link'[d] = link[d]
        BY <1>0, <3>1
      <4> QED BY <1>9, <2>0, <2>2, <3>3, <3>5, <4>1
    <3> QED BY <3>4, <3>5
  <2> QED BY <1>12, <2>1, <2>2 DEF LinkEmail, c
<1>13. CASE QueueEmail(k)
  <2>0. /\ run[k].pc \in Loop /\ run[k].todo # {} /\ c \in Contacts
        /\ run[k].email \notin failed[c] \cup suppressed[c]
    BY <1>0, <1>1, <1>13 DEF QueueEmail, Loop, RunFresh, InHand, c
  <2>1. CASE GoesTo(k, "record") /\ UNCHANGED queued
    BY <1>10, <1>13, <2>0, <2>1 DEF QueueEmail, book
  <2>2. CASE queued' = [queued EXCEPT ![c] = @ \cup {run[k].email}] /\ NextContact(k)
    <3>1. /\ UNCHANGED <<link, rows, failed, suppressed>>
          /\ queued'[c] = {run[k].email}
          /\ \A d \in Contacts : d # c => queued'[d] = queued[d]
      BY <1>0, <1>8, <1>13, <2>0, <2>2 DEF QueueEmail
    <3>2. EmailsExist' /\ NoneBoth'
      BY <1>1, <2>0, <3>1 DEF EmailsExist, NoneBoth
    <3>3. \A d \in run[k].todo \ {c} : queued'[d] = queued[d] /\ link'[d] = link[d]
      BY <1>0, <3>1
    <3> QED BY <1>9, <2>0, <2>2, <3>2, <3>3
  <2> QED BY <1>13, <2>1, <2>2 DEF QueueEmail, c
<1>14. CASE RecordFailure(k)
  <2> DEFINE n == IF link[c] # 0 THEN link[c] ELSE IF rows[c] # 0 THEN rows[c] ELSE 1
  <2>0. run[k].pc \in Loop /\ run[k].todo # {} /\ c \in Contacts /\ NextContact(k)
        /\ UNCHANGED <<queued, suppressed>>
    BY <1>0, <1>14 DEF RecordFailure, Loop, c
  <2>1. CASE UNCHANGED <<link, rows, failed>>
    <3>1. EmailsExist' /\ NoneBoth'
      BY <1>1, <2>0, <2>1 DEF EmailsExist, NoneBoth
    <3> QED BY <1>9, <2>0, <2>1, <3>1
  <2>2. CASE /\ link' = [link EXCEPT ![c] = n]
             /\ rows' = [rows EXCEPT ![c] = IF @ = 0 THEN 1 ELSE @]
             /\ failed' = [failed EXCEPT ![c] = @ \cup {n}]
    <3>1. link[c] \in Nat /\ rows[c] \in Nat /\ link[c] <= rows[c]
      BY <1>0, <1>1, <2>0 DEF EmailsExist
    <3>2. n \in Nat /\ n <= rows'[c] /\ rows'[c] \in Nat /\ rows[c] <= rows'[c]
      BY <1>0, <2>0, <2>2, <3>1
    <3> HIDE DEF n
    <3>3. /\ link'[c] = n /\ failed'[c] = failed[c] \cup {n}
          /\ \A d \in Contacts : d # c =>
                link'[d] = link[d] /\ rows'[d] = rows[d] /\ failed'[d] = failed[d]
      BY <1>0, <2>0, <2>2
    <3>4. \A m \in failed[c] \cup suppressed[c] : m \in Nat /\ m <= rows'[c]
      BY <1>0, <1>1, <2>0, <3>1, <3>2 DEF EmailsExist
    <3>5. EmailsExist'
      BY <1>1, <2>0, <3>2, <3>3, <3>4 DEF EmailsExist
    <3>6. NoneBoth'
      BY <1>1, <1>8, <2>0, <3>3 DEF NoneBoth
    <3>7. \A d \in run[k].todo \ {c} : queued'[d] = queued[d] /\ link'[d] = link[d]
      BY <1>0, <2>0, <3>3
    <3> QED BY <1>9, <2>0, <3>5, <3>6, <3>7
  <2> QED BY <1>14, <2>1, <2>2 DEF RecordFailure, c
<1> QED
  BY <1>3, <1>4, <1>5, <1>6, <1>7, <1>11, <1>12, <1>13, <1>14 DEF Batch

\* Who is reported FAILED or SUPPRESSED gets no mail of the campaign all the same, as long as
\* no slot is lost and the queue's replies arrive.
THEOREM ReportsAreTrue == Spec => []FailedIsNotQueued
<1> DEFINE May == crashes = 0 /\ mix \cap {"reply", "campaign"} = {}
           J == crashes = 0 => Alone
           K == "campaign" \notin mix => OnlyLinkedQueued
           L == May => Fresh
<1>1. Init => J /\ K /\ L
  <2>1. ASSUME Init PROVE \A k \in Workers : run[k].pc = "idle"
    BY <2>1 DEF Init, IdleRun
  <2>2. Init => Alone
    BY <2>1 DEF Init, Alone, NoJob
  <2>3. Init => OnlyLinkedQueued
    BY DEF Init, OnlyLinkedQueued, HoldsLink, IdleRun
  <2>4. Init => Fresh
    BY <2>1 DEF Init, Fresh, EmailsExist, NoneBoth, RunFresh, Loop
  <2> QED BY <2>2, <2>3, <2>4
<1>2. RunsTyped /\ J /\ K /\ L /\ [Next]_vars => J' /\ K' /\ L'
  <2> SUFFICES ASSUME RunsTyped, J, K, L, [Next]_vars PROVE J' /\ K' /\ L'
    OBVIOUS
  <2>0. UNCHANGED mix
    BY DEF Next, vars
  <2>1. K'
    BY <2>0, NextLinked
  <2>2. crashes' = 0 => crashes = 0 /\ Alone'
    BY NextAlone
  <2>3. ASSUME May' PROVE Fresh'
    <3>1. Fresh /\ Alone /\ OnlyLinkedQueued /\ crashes = 0
      BY <2>0, <2>2, <2>3
    <3>2. CASE \E k \in Workers : Batch(k)
      BY <2>0, <2>3, <3>1, <3>2, BatchAlone, BatchFresh
    <3>3. CASE \E k \in Workers : Crash(k)
      BY <2>3, <3>1, <3>3 DEF Crash
    <3>4. CASE UNCHANGED <<run, book>>
      BY <3>1, <3>4 DEF Fresh, EmailsExist, NoneBoth, RunFresh, book
    <3> QED
      BY <2>0, <2>3, <3>2, <3>3, <3>4 DEF Next, Step, Requests, Scheduler, ScheduleRead,
         ScheduleWrite, PauseCampaign, ResumeRead, ResumeWrite, DeleteCampaign, TickRead,
         QueueBatchRead, AddBatch, RecoverStalled, TimePasses, ContactChanges, vars, state
  <2> QED BY <2>1, <2>2, <2>3
<1>3. L => FailedIsNotQueued
  BY DEF FailedIsNotQueued, Fresh, NoneBoth
<1>4. Init => RunsTyped
  BY InitTyped
<1>5. RunsTyped /\ [Next]_vars => RunsTyped'
  BY NextTyped
<1> QED BY <1>1, <1>2, <1>3, <1>4, <1>5, PTL DEF Spec

=============================================================================
