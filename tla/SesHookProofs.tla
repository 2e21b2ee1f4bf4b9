--------------------------- MODULE SesHookProofs ---------------------------
(***************************************************************************)
(* Proofs about SesHook, for any set of notifications of any kinds.        *)
(*                                                                         *)
(* Each property speaks of what a hook has recorded, or of the status that *)
(* some hook wrote.  It is inductive once one adds what holds at every     *)
(* point that a hook passes on its way to emailEvent.create.               *)
(***************************************************************************)
EXTENDS SesHook, TLAPS

\* The statuses, and the status of each kind of notification.
LEMMA StatusesAre ==
    Statuses = {"SCHEDULED", "CANCELLED", "RENDERING_FAILURE", "QUEUED", "SENT", "REJECTED",
                "DELIVERY_DELAYED", "DELIVERED", "BOUNCED", "OPENED", "CLICKED", "COMPLAINED",
                "FAILED", "SUPPRESSED"}
BY DEF Statuses, Rank

LEMMA RankType == Rank \in [Statuses -> 1..14]
BY StatusesAre DEF Rank

LEMMA StatusOfKind ==
    ASSUME NEW k \in AllKinds
    PROVE  /\ StatusOf[k] \in {"SENT", "REJECTED", "RENDERING_FAILURE", "DELIVERY_DELAYED",
                               "DELIVERED", "BOUNCED", "OPENED", "CLICKED", "COMPLAINED"}
           /\ k \in {"Delivery", "Hard Bounce", "Complaint"} => StatusOf[k] \in Counted
BY DEF StatusOf, AllKinds, Counted

\* What a hook writes is a status, and never SUPPRESSED.
LEMMA NewType ==
    ASSUME TypeOK, NEW h \in Hooks
    PROVE  /\ New(h) \in Statuses \ {"SUPPRESSED"}
           /\ Bad(h) \/ kind[h] = "Delivery" => New(h) \in Counted
<1>1. kind[h] \in AllKinds
  BY KindsAssumption DEF TypeOK
<1> QED BY <1>1, StatusOfKind, StatusesAre DEF New, Bad

-----------------------------------------------------------------------------
LEMMA InitType == Init => TypeOK
<1> SUFFICES ASSUME Init PROVE TypeOK
  OBVIOUS
<1>1. daily \in [Counted -> Nat] /\ total \in [Counted -> Nat] /\ tally \in [Counted -> Nat]
  BY DEF Init, Zero
<1>2. status \in Statuses /\ reports \in SUBSET Statuses
  BY StatusesAre DEF Init
<1>3. stalls \in [Hooks -> 0..MaxStalled] /\ rows \in [Hooks -> Nat]
      /\ emitted \in [Hooks -> Nat] /\ left \in Nat
  BY DEF Init, MaxStalled
<1>4. pc \in [Hooks -> Points] /\ \A h \in Hooks : pc[h] = "sns"
  BY DEF Init, Points
<1> QED BY <1>1, <1>2, <1>3, <1>4 DEF Init, TypeOK

\* A counter stays one when a status is counted.
LEMMA PlusType ==
    ASSUME NEW counter \in [Counted -> Nat], NEW s \in Counted
    PROVE  /\ Plus(counter, s) \in [Counted -> Nat]
           /\ Plus(counter, s)[s] > 0
           /\ \A t \in Counted : Plus(counter, s)[t] >= counter[t]
BY DEF Plus

\* What a step of a hook writes to a counter has its type.
LEMMA CounterTypes ==
    ASSUME TypeOK, NEW h \in Hooks
    PROVE  /\ CountDaily(h) => daily' \in [Counted -> Nat]
           /\ CountTotal(h) => total' \in [Counted -> Nat]
           /\ CountTally(h) => tally' \in [Counted -> Nat]
           /\ CountLeft(h) => left' \in Nat
           /\ RecordEvent(h) => rows' \in [Hooks -> Nat]
           /\ EmitWebhook(h) => emitted' \in [Hooks -> Nat]
           /\ Crash(h) => stalls' \in [Hooks -> 0..MaxStalled]
<1>1. /\ daily \in [Counted -> Nat] /\ total \in [Counted -> Nat] /\ tally \in [Counted -> Nat]
      /\ left \in Nat /\ rows \in [Hooks -> Nat] /\ emitted \in [Hooks -> Nat]
      /\ stalls \in [Hooks -> 0..MaxStalled]
  BY DEF TypeOK
<1>2. CountDaily(h) => daily' = daily \/ (New(h) \in Counted /\ daily' = Plus(daily, New(h)))
  BY DEF CountDaily, Counts
<1>3. CountTotal(h) => total' = total \/ (New(h) \in Counted /\ total' = Plus(total, New(h)))
  BY NewType DEF CountTotal
<1>4. CountTally(h) => tally' = tally \/ (New(h) \in Counted /\ tally' = Plus(tally, New(h)))
  BY DEF CountTally
<1>5. CountLeft(h) => left' = left \/ left' = left + 1
  BY DEF CountLeft
<1>6. RecordEvent(h) => rows' = rows \/ rows' = [rows EXCEPT ![h] = @ + 1]
  BY DEF RecordEvent
<1>7. EmitWebhook(h) => emitted' = emitted \/ emitted' = [emitted EXCEPT ![h] = @ + 1]
  BY DEF EmitWebhook
<1>8. Crash(h) => \/ stalls' = stalls
                  \/ stalls[h] < MaxStalled /\ stalls' = [stalls EXCEPT ![h] = @ + 1]
  BY DEF Crash
<1>9. CountDaily(h) => daily' \in [Counted -> Nat]
  BY <1>1, <1>2, PlusType
<1>10. CountTotal(h) => total' \in [Counted -> Nat]
  BY <1>1, <1>3, PlusType
<1>11. CountTally(h) => tally' \in [Counted -> Nat]
  BY <1>1, <1>4, PlusType
<1>12. Crash(h) => stalls' \in [Hooks -> 0..MaxStalled]
  BY <1>1, <1>8 DEF MaxStalled
<1> QED BY <1>1, <1>5, <1>6, <1>7, <1>9, <1>10, <1>11, <1>12

LEMMA HookType ==
    ASSUME TypeOK, NEW h \in Hooks, Hook(h) \/ Crash(h)
    PROVE  TypeOK'
<1> USE DEF TypeOK, GoesTo, Throws, counters, Points, MaxStalled, Bad
<1>1. CASE Receive(h)
  BY <1>1 DEF Receive
<1>2. CASE ReadEmail(h)
  BY <1>2 DEF ReadEmail
<1>3. CASE CheckExisting(h)
  BY <1>3 DEF CheckExisting
<1>4. CASE RaiseStatus(h)
  BY <1>4, NewType DEF RaiseStatus
<1>5. CASE AddSuppression(h)
  BY <1>5 DEF AddSuppression
<1>6. CASE CountDaily(h)
  <2>1. daily' \in [Counted -> Nat]
    BY <1>6, CounterTypes
  <2> QED BY <1>6, <2>1 DEF CountDaily
<1>7. CASE CountTotal(h)
  <2>1. total' \in [Counted -> Nat]
    BY <1>7, CounterTypes
  <2>2. pc' \in [Hooks -> Points]
    BY <1>7 DEF CountTotal
  <2>3. pc'[h] \in {"contact", "leave", "left"} => campaign /\ Bad(h)
    BY <1>7 DEF CountTotal
  <2>4. \A g \in Hooks \ {h} : pc'[g] = pc[g]
    BY <1>7 DEF CountTotal
  <2> QED BY <1>7, <2>1, <2>2, <2>3, <2>4 DEF CountTotal
<1>8. CASE ReadContact(h)
  BY <1>8 DEF ReadContact
<1>9. CASE Unsubscribe(h)
  BY <1>9 DEF Unsubscribe
<1>10. CASE CountLeft(h)
  <2>1. left' \in Nat
    BY <1>10, CounterTypes
  <2> QED BY <1>10, <2>1 DEF CountLeft
<1>11. CASE CountTally(h)
  <2>1. tally' \in [Counted -> Nat]
    BY <1>11, CounterTypes
  <2> QED BY <1>11, <2>1 DEF CountTally
<1>12. CASE RecordEvent(h)
  <2>1. rows' \in [Hooks -> Nat]
    BY <1>12, CounterTypes
  <2> QED BY <1>12, <2>1 DEF RecordEvent
<1>13. CASE EmitWebhook(h)
  <2>1. emitted' \in [Hooks -> Nat]
    BY <1>13, CounterTypes
  <2> QED BY <1>13, <2>1 DEF EmitWebhook
<1>14. CASE Crash(h)
  <2>1. stalls' \in [Hooks -> 0..MaxStalled]
    BY <1>14, CounterTypes
  <2> QED BY <1>14, <2>1 DEF Crash
<1> QED
  BY <1>1, <1>2, <1>3, <1>4, <1>5, <1>6, <1>7, <1>8, <1>9, <1>10, <1>11, <1>12, <1>13, <1>14
  DEF Hook

LEMMA NextType == TypeOK /\ [Next]_vars => TypeOK'
<1> SUFFICES ASSUME TypeOK, [Next]_vars PROVE TypeOK'
  OBVIOUS
<1>1. ASSUME NEW h \in Hooks, Hook(h) \/ Crash(h) PROVE TypeOK'
  BY <1>1, HookType
<1>2. CASE MarkFailed
  BY <1>2, StatusesAre DEF MarkFailed, TypeOK, counters, Bad
<1>3. CASE UNCHANGED vars
  BY <1>3 DEF vars, counters, TypeOK, Bad
<1> QED BY <1>1, <1>2, <1>3 DEF Next

\* The variables have their types; only the contact of a campaign that bounced or
\* complained is being unsubscribed.
THEOREM TypeCorrect == Spec => []TypeOK
<1>1. Init => TypeOK
  BY InitType
<1>2. TypeOK /\ [Next]_vars => TypeOK'
  BY NextType
<1> QED BY <1>1, <1>2, PTL DEF Spec

-----------------------------------------------------------------------------
\* LatestIsHighest, and that no hook reports SUPPRESSED, the one status above the
\* FAILED that the worker writes.
Highest == LatestIsHighest /\ "SUPPRESSED" \notin reports

LEMMA NextHighest ==
    ASSUME TypeOK, Highest, [Next]_vars
    PROVE  Highest'
<1> USE DEF Highest, LatestIsHighest
<1>1. CASE UNCHANGED <<status, reports>>
  BY <1>1
<1>2. ASSUME NEW h \in Hooks, RaiseStatus(h) PROVE Highest'
  <2>1. CASE UNCHANGED <<status, reports>>
    BY <1>1, <2>1
  <2>2. CASE /\ status' = IF Rank[New(h)] > Rank[status] THEN New(h) ELSE status
             /\ reports' = reports \cup {New(h)}
    BY <2>2, NewType, RankType DEF TypeOK
  <2> QED BY <1>2, <2>1, <2>2 DEF RaiseStatus
<1>3. CASE MarkFailed
  <2>1. \A s \in reports : Rank[s] <= 13
    BY StatusesAre DEF TypeOK, Rank
  <2>2. Rank["FAILED"] = 13
    BY DEF Rank
  <2> QED BY <1>3, <2>1, <2>2 DEF MarkFailed
<1>4. ASSUME NEW h \in Hooks, Hook(h) \/ Crash(h), ~RaiseStatus(h)
      PROVE  UNCHANGED <<status, reports>>
  BY <1>4 DEF Hook, Crash, Receive, ReadEmail, CheckExisting, AddSuppression, CountDaily,
              CountTotal, ReadContact, Unsubscribe, CountLeft, CountTally, RecordEvent,
              EmitWebhook
<1> QED BY <1>1, <1>2, <1>3, <1>4 DEF Next, Hook, vars

\* In whatever order concurrent notifications are handled, repeated or lost, the
\* email shows the highest status that was reported.
THEOREM HighestShows == Spec => []LatestIsHighest
<1>1. Init => Highest
  <2>1. Init => \A s \in reports : s = status /\ Rank[s] \in 1..14
    BY RankType, StatusesAre DEF Init
  <2> QED BY <2>1 DEF Init, Highest, LatestIsHighest
<1>2. TypeOK /\ Highest /\ [Next]_vars => Highest'
  BY NextHighest
<1>3. Highest => LatestIsHighest
  BY DEF Highest
<1> QED BY <1>1, <1>2, <1>3, TypeCorrect, PTL DEF Spec

-----------------------------------------------------------------------------
\* What EventIsCounted says of a hook that has passed a point, before it records
\* its event, and that a hook knows only of rows that are there.
AfterDaily == {"total", "contact", "leave", "left", "tally", "record", "emit"}
AfterTotal == AfterDaily \ {"total"}
AfterTally == {"record", "emit"}
Past(h, points) == rows[h] > 0 \/ pc[h] \in points
LinkClicked(s) == \E g \in Hooks : kind[g] = "Unsubscribe Click" /\ s = New(g)

CountedSoFar(h) ==
    /\ Past(h, AfterDaily) /\ New(h) \in Counted => daily[New(h)] > 0
    /\ Past(h, AfterTotal) /\ (Bad(h) \/ kind[h] = "Delivery") => total[New(h)] > 0
    /\ Past(h, AfterTally) /\ campaign /\ New(h) \in Counted =>
            tally[New(h)] > 0 \/ LinkClicked(New(h))
    /\ known[h] => HasRow(New(h))

EventsCounted == \A h \in Hooks : CountedSoFar(h)

\* Counters and rows only grow, and a notification stays what it is.
LEMMA OnlyGrow ==
    ASSUME TypeOK, NEW h \in Hooks, Hook(h) \/ Crash(h)
    PROVE  /\ UNCHANGED <<kind, campaign>>
           /\ \A s \in Counted : /\ daily'[s] \in Nat /\ daily'[s] >= daily[s]
                                /\ total'[s] \in Nat /\ total'[s] >= total[s]
                                /\ tally'[s] \in Nat /\ tally'[s] >= tally[s]
           /\ \A g \in Hooks : rows'[g] \in Nat /\ rows'[g] >= rows[g]
           /\ \A g \in Hooks \ {h} : UNCHANGED <<pc[g], known[g], rows[g]>>
<1> USE DEF counters, Throws, GoesTo
<1>1. TypeOK'
  BY HookType
<1>2. \/ UNCHANGED <<daily, total, tally, rows>>
      \/ CountDaily(h) \/ CountTotal(h) \/ CountTally(h) \/ RecordEvent(h)
  BY DEF Hook, Crash, Receive, ReadEmail, CheckExisting, RaiseStatus, AddSuppression,
         ReadContact, Unsubscribe, CountLeft, EmitWebhook
<1>3. UNCHANGED <<kind, campaign>>
  BY DEF Hook, Crash, Receive, ReadEmail, CheckExisting, RaiseStatus, AddSuppression, CountDaily,
         CountTotal, ReadContact, Unsubscribe, CountLeft, CountTally, RecordEvent, EmitWebhook
<1>4. ASSUME NEW g \in Hooks \ {h} PROVE UNCHANGED <<pc[g], known[g], rows[g]>>
  BY DEF Hook, Crash, Receive, ReadEmail, CheckExisting, RaiseStatus, AddSuppression, CountDaily,
         CountTotal, ReadContact, Unsubscribe, CountLeft, CountTally, RecordEvent, EmitWebhook,
         TypeOK
<1>5. CountDaily(h) \/ daily' = daily
  BY <1>2 DEF CountTotal, CountTally, RecordEvent
<1>6. CountTotal(h) \/ total' = total
  BY <1>2 DEF CountDaily, CountTally, RecordEvent
<1>7. CountTally(h) \/ tally' = tally
  BY <1>2 DEF CountDaily, CountTotal, RecordEvent
<1>8. RecordEvent(h) \/ rows' = rows
  BY <1>2 DEF CountDaily, CountTotal, CountTally
<1>9. daily' = daily \/ (New(h) \in Counted /\ daily' = Plus(daily, New(h)))
  BY <1>5 DEF CountDaily, Counts
<1>10. total' = total \/ (New(h) \in Counted /\ total' = Plus(total, New(h)))
  BY <1>6, NewType DEF CountTotal
<1>11. tally' = tally \/ (New(h) \in Counted /\ tally' = Plus(tally, New(h)))
  BY <1>7 DEF CountTally
<1>12. rows' = rows \/ rows' = [rows EXCEPT ![h] = @ + 1]
  BY <1>8 DEF RecordEvent
<1>13. /\ daily \in [Counted -> Nat] /\ total \in [Counted -> Nat]
       /\ tally \in [Counted -> Nat] /\ rows \in [Hooks -> Nat]
  BY DEF TypeOK
<1>14. \A s \in Counted : /\ daily'[s] \in Nat /\ daily'[s] >= daily[s]
                         /\ total'[s] \in Nat /\ total'[s] >= total[s]
                         /\ tally'[s] \in Nat /\ tally'[s] >= tally[s]
  BY <1>9, <1>10, <1>11, <1>13, PlusType
<1>15. \A g \in Hooks : rows'[g] \in Nat /\ rows'[g] >= rows[g]
  BY <1>12, <1>13
<1> QED BY <1>3, <1>4, <1>14, <1>15

\* A hook that has passed no new point keeps what it had, whoever took the step.
LEMMA Carried ==
    ASSUME TypeOK, NEW h \in Hooks, Hook(h) \/ Crash(h), NEW g \in Hooks, CountedSoFar(g),
           Past(g, AfterDaily)' => Past(g, AfterDaily),
           Past(g, AfterTotal)' => Past(g, AfterTotal),
           Past(g, AfterTally)' => Past(g, AfterTally),
           known'[g] => known[g]
    PROVE  CountedSoFar(g)'
<1>1. /\ \A f \in Hooks : New(f)' = New(f) /\ kind'[f] = kind[f]
      /\ Bad(g)' <=> Bad(g)
      /\ campaign' = campaign
      /\ \A s : LinkClicked(s)' <=> LinkClicked(s)
  BY OnlyGrow DEF New, Bad, LinkClicked
<1>2. New(g) \in Counted =>
          /\ daily[New(g)] > 0 => daily'[New(g)] > 0
          /\ total[New(g)] > 0 => total'[New(g)] > 0
          /\ tally[New(g)] > 0 => tally'[New(g)] > 0
  BY OnlyGrow DEF TypeOK
<1>3. \A f \in Hooks : rows[f] > 0 => rows'[f] > 0
  BY OnlyGrow DEF TypeOK
<1>4. Bad(g) \/ kind[g] = "Delivery" => New(g) \in Counted
  BY NewType
<1>5. known'[g] => HasRow(New(g))'
  BY <1>1, <1>3 DEF CountedSoFar, HasRow
<1> QED BY <1>1, <1>2, <1>4, <1>5 DEF CountedSoFar

\* A hook that is past a counter, or found a row of one that is, was counted.
LEMMA NextCounted ==
    ASSUME TypeOK, EventsCounted, NEW h \in Hooks, Hook(h) \/ Crash(h)
    PROVE  EventsCounted'
<1> USE DEF GoesTo, Throws, Past, AfterDaily, AfterTotal, AfterTally
<1>1. \A g \in Hooks : CountedSoFar(g)
  BY DEF EventsCounted
<1>2. ASSUME NEW g \in Hooks \ {h} PROVE CountedSoFar(g)'
  BY <1>1, <1>2, OnlyGrow, Carried
<1> SUFFICES CountedSoFar(h)'
  BY <1>2, OnlyGrow DEF EventsCounted
<1>3. pc \in [Hooks -> Points] /\ known \in [Hooks -> BOOLEAN] /\ rows \in [Hooks -> Nat]
  BY DEF TypeOK
<1>4. /\ New(h)' = New(h) /\ (Bad(h)' <=> Bad(h)) /\ kind'[h] = kind[h]
      /\ (campaign' <=> campaign)
      /\ \A s : LinkClicked(s)' <=> LinkClicked(s)
  BY OnlyGrow DEF New, Bad, LinkClicked
<1>5. ASSUME rows' = rows, known' = known,
             \/ pc'[h] \notin AfterDaily
             \/ /\ pc[h] \in {"contact", "leave", "left"}
                /\ pc'[h] \in {"leave", "left", "tally"}
      PROVE  CountedSoFar(h)'
  <2>1. /\ Past(h, AfterDaily)' => Past(h, AfterDaily)
        /\ Past(h, AfterTotal)' => Past(h, AfterTotal)
        /\ Past(h, AfterTally)' => Past(h, AfterTally)
    BY <1>5
  <2> QED BY <1>1, <1>5, <2>1, Carried
<1>6. CASE Receive(h) \/ ReadEmail(h) \/ RaiseStatus(h) \/ AddSuppression(h) \/ EmitWebhook(h)
  <2>1. rows' = rows /\ known' = known /\ pc'[h] \notin AfterDaily
    BY <1>3, <1>6 DEF Receive, ReadEmail, RaiseStatus, AddSuppression, EmitWebhook
  <2> QED BY <1>5, <2>1
<1>7. CASE ReadContact(h) \/ Unsubscribe(h) \/ CountLeft(h) \/ Crash(h)
  <2>1. rows' = rows /\ known' = known
    BY <1>7 DEF ReadContact, Unsubscribe, CountLeft, Crash
  <2>2. \/ pc'[h] \notin AfterDaily
        \/ /\ pc[h] \in {"contact", "leave", "left"}
           /\ pc'[h] \in {"leave", "left", "tally"}
    BY <1>3, <1>7 DEF ReadContact, Unsubscribe, CountLeft, Crash
  <2> QED BY <1>5, <2>1, <2>2
<1>8. CASE CheckExisting(h)
  <2>1. rows' = rows /\ pc'[h] \in {"raise", "lost"} /\ daily' = daily /\ total' = total
        /\ tally' = tally
    BY <1>3, <1>8 DEF CheckExisting, counters
  <2>2. known'[h] => known[h] \/ HasRow(New(h))
    BY <1>3, <1>8 DEF CheckExisting
  <2>3. known'[h] => HasRow(New(h))'
    BY <1>1, <2>1, <2>2, OnlyGrow DEF CountedSoFar, HasRow, New
  <2> QED BY <1>1, <1>4, <2>1, <2>3 DEF CountedSoFar
<1>9. CASE CountDaily(h)
  <2>1. known' = known /\ rows' = rows /\ total' = total /\ tally' = tally
    BY <1>9 DEF CountDaily
  <2>2. pc'[h] \in {"total", "lost"} /\ (pc'[h] = "total" =>
            daily' = IF Counts(h) THEN Plus(daily, New(h)) ELSE daily)
    BY <1>3, <1>9 DEF CountDaily
  <2>3. ASSUME pc'[h] = "total", New(h) \in Counted PROVE daily'[New(h)] > 0
    <3>1. CASE Counts(h)
      BY <2>2, <2>3, <3>1, PlusType DEF TypeOK
    <3>2. CASE ~Counts(h)
      <4>1. known[h]
        BY <2>3, <3>2 DEF Counts
      <4>2. PICK g \in Hooks : New(g) = New(h) /\ rows[g] > 0
        BY <1>1, <4>1 DEF CountedSoFar, HasRow
      <4> QED BY <1>1, <2>2, <2>3, <3>2, <4>2 DEF CountedSoFar
    <3> QED BY <3>1, <3>2
  <2>4. New(h) \in Counted /\ daily[New(h)] > 0 => daily'[New(h)] > 0
    BY OnlyGrow DEF TypeOK
  <2>5. known'[h] => HasRow(New(h))'
    BY <1>1, <2>1, OnlyGrow DEF CountedSoFar, HasRow, New
  <2> QED BY <1>1, <1>4, <2>1, <2>2, <2>3, <2>4, <2>5 DEF CountedSoFar
<1>10. CASE CountTotal(h)
  <2>1. known' = known /\ rows' = rows /\ daily' = daily /\ tally' = tally /\ pc[h] = "total"
    BY <1>10 DEF CountTotal
  <2>2. \/ pc'[h] = "lost"
        \/ /\ pc'[h] \in {"record", "contact", "tally"}
           /\ pc'[h] = "record" => ~campaign \/ kind[h] = "Unsubscribe Click"
           /\ total' = IF Bad(h) \/ kind[h] = "Delivery" THEN Plus(total, New(h)) ELSE total
    BY <1>3, <1>10 DEF CountTotal
  <2>3. pc'[h] # "lost" /\ (Bad(h) \/ kind[h] = "Delivery") => total'[New(h)] > 0
    BY <2>2, NewType, PlusType DEF TypeOK
  <2>4. (Bad(h) \/ kind[h] = "Delivery") /\ total[New(h)] > 0 => total'[New(h)] > 0
    BY OnlyGrow, NewType DEF TypeOK
  <2>5. pc'[h] = "record" /\ campaign => LinkClicked(New(h))
    BY <2>2 DEF LinkClicked
  <2>6. known'[h] => HasRow(New(h))'
    BY <1>1, <2>1, OnlyGrow DEF CountedSoFar, HasRow, New
  <2> QED BY <1>1, <1>4, <2>1, <2>2, <2>3, <2>4, <2>5, <2>6 DEF CountedSoFar
<1>11. CASE CountTally(h)
  <2>1. known' = known /\ rows' = rows /\ daily' = daily /\ total' = total /\ pc[h] = "tally"
    BY <1>11 DEF CountTally
  <2>2. \/ pc'[h] = "lost"
        \/ /\ pc'[h] = "record"
           /\ tally' = IF ~known[h] /\ New(h) \in Counted THEN Plus(tally, New(h)) ELSE tally
    BY <1>3, <1>11 DEF CountTally
  <2>3. ASSUME pc'[h] = "record", campaign, New(h) \in Counted
        PROVE  tally'[New(h)] > 0 \/ LinkClicked(New(h))
    <3>1. CASE ~known[h]
      BY <2>2, <2>3, <3>1, PlusType DEF TypeOK
    <3>2. CASE known[h]
      <4>1. PICK g \in Hooks : New(g) = New(h) /\ rows[g] > 0
        BY <1>1, <3>2 DEF CountedSoFar, HasRow
      <4> QED BY <1>1, <2>2, <2>3, <3>2, <4>1 DEF CountedSoFar
    <3> QED BY <3>1, <3>2
  <2>4. New(h) \in Counted /\ tally[New(h)] > 0 => tally'[New(h)] > 0
    BY OnlyGrow DEF TypeOK
  <2>5. known'[h] => HasRow(New(h))'
    BY <1>1, <2>1, OnlyGrow DEF CountedSoFar, HasRow, New
  <2> QED BY <1>1, <1>4, <2>1, <2>2, <2>3, <2>4, <2>5 DEF CountedSoFar
<1>12. CASE RecordEvent(h)
  <2>1. known' = known /\ daily' = daily /\ total' = total /\ tally' = tally /\ pc[h] = "record"
    BY <1>12 DEF RecordEvent, counters
  <2>2. known'[h] => HasRow(New(h))'
    <3>1. \A g \in Hooks : rows[g] > 0 => rows'[g] > 0
      BY OnlyGrow DEF TypeOK
    <3> QED BY <1>1, <2>1, <3>1, OnlyGrow DEF CountedSoFar, HasRow, New
  <2> QED BY <1>1, <1>4, <2>1, <2>2 DEF CountedSoFar
<1> QED BY <1>6, <1>7, <1>8, <1>9, <1>10, <1>11, <1>12 DEF Hook

\* A recorded event was counted: every counter that it belongs to is above zero,
\* whatever failed, crashed or ran at the same time.
THEOREM RecordedIsCounted == Spec => []EventIsCounted
<1>1. Init => EventsCounted
  <2> SUFFICES ASSUME Init, NEW h \in Hooks PROVE CountedSoFar(h)
    BY DEF EventsCounted
  <2>1. pc[h] = "sns" /\ rows[h] = 0 /\ ~known[h]
    BY DEF Init
  <2> QED BY <2>1 DEF CountedSoFar, Past, AfterDaily, AfterTotal, AfterTally
<1>2. TypeOK /\ EventsCounted /\ [Next]_vars => EventsCounted'
  <2> SUFFICES ASSUME TypeOK, EventsCounted, [Next]_vars PROVE EventsCounted'
    OBVIOUS
  <2>1. CASE MarkFailed \/ UNCHANGED vars
    <3>1. UNCHANGED <<kind, campaign, pc, known, counters, rows>>
      BY <2>1 DEF MarkFailed, vars
    <3> QED BY <3>1 DEF counters, EventsCounted, CountedSoFar, Past, HasRow, New, Bad, LinkClicked
  <2> QED BY <2>1, NextCounted DEF Next
<1>3. EventsCounted => EventIsCounted
  BY DEF EventsCounted, CountedSoFar, Past, EventIsCounted, LinkClicked
<1> QED BY <1>1, <1>2, <1>3, TypeCorrect, PTL DEF Spec

-----------------------------------------------------------------------------
\* A hook that is past a write about a bad address finds it done; only the error of
\* a rejected suppression is swallowed.
Dropped ==
    \A h \in Hooks : Bad(h) =>
        /\ Past(h, AfterDaily \cup {"daily"}) => suppressed \/ "db" \in Faults
        /\ Past(h, {"left", "tally", "record", "emit"}) /\ campaign => ~subscribed

\* When a hard bounce or a complaint is recorded, the address is suppressed, unless
\* a database error was swallowed, and the campaign's contact is unsubscribed,
\* through any crashes and failures (parseSesHook).
THEOREM RecordedIsDropped == Spec => []BadAddressIsDropped
<1>1. Init => Dropped
  BY DEF Init, Dropped, Past, AfterDaily
<1>2. TypeOK /\ Dropped /\ [Next]_vars => Dropped'
  <2> SUFFICES ASSUME TypeOK, Dropped, [Next]_vars PROVE Dropped'
    OBVIOUS
  <2>1. CASE MarkFailed \/ UNCHANGED vars
    <3>1. UNCHANGED <<kind, campaign, pc, rows, suppressed, subscribed>>
      BY <2>1 DEF MarkFailed, vars
    <3> QED BY <3>1 DEF Dropped, Past, Bad
  <2>2. ASSUME NEW h \in Hooks, Hook(h) \/ Crash(h) PROVE Dropped'
    <3>1. /\ \A g \in Hooks : Bad(g)' <=> Bad(g)
          /\ campaign' = campaign
          /\ \A g \in Hooks \ {h} : UNCHANGED <<pc[g], rows[g]>>
      BY <2>2, OnlyGrow DEF Bad
    <3>2. (suppressed => suppressed') /\ (subscribed' => subscribed)
      <4>1. \/ UNCHANGED <<suppressed, subscribed>>
            \/ AddSuppression(h) \/ Unsubscribe(h)
        BY <2>2 DEF Hook, Crash, Receive, ReadEmail, CheckExisting, RaiseStatus, CountDaily,
             CountTotal, ReadContact, CountLeft, CountTally, RecordEvent, EmitWebhook
      <4>2. suppressed \in BOOLEAN /\ subscribed \in BOOLEAN
        BY DEF TypeOK
      <4>3. AddSuppression(h) => (suppressed => suppressed') /\ subscribed' = subscribed
        <5>1. AddSuppression(h) => \/ suppressed' = (suppressed \/ Bad(h))
                                   \/ suppressed' = suppressed
          BY DEF AddSuppression
        <5>2. suppressed' = (suppressed \/ Bad(h)) => (suppressed => suppressed')
          BY <4>2, Zenon
        <5> QED BY <5>1, <5>2 DEF AddSuppression
      <4>4. Unsubscribe(h) => suppressed' = suppressed /\ (subscribed' => subscribed)
        BY <4>2 DEF Unsubscribe
      <4> QED BY <4>1, <4>3, <4>4
    <3>3. Bad(h) => /\ Past(h, AfterDaily \cup {"daily"})' => suppressed' \/ "db" \in Faults
                    /\ Past(h, {"left", "tally", "record", "emit"})' /\ campaign => ~subscribed'
      <4> USE DEF Dropped, Past, AfterDaily, GoesTo, Throws, TypeOK
      <4>1. CASE Receive(h) \/ ReadEmail(h) \/ CheckExisting(h) \/ RaiseStatus(h)
        BY <4>1 DEF Receive, ReadEmail, CheckExisting, RaiseStatus
      <4>2. CASE AddSuppression(h) \/ CountDaily(h)
        BY <4>2 DEF AddSuppression, CountDaily
      <4>3. CASE CountTotal(h)
        BY <4>3 DEF CountTotal, Bad
      <4>4. CASE ReadContact(h) \/ Unsubscribe(h) \/ CountLeft(h)
        BY <4>4 DEF ReadContact, Unsubscribe, CountLeft
      <4>5. CASE CountTally(h) \/ RecordEvent(h) \/ EmitWebhook(h)
        BY <4>5 DEF CountTally, RecordEvent, EmitWebhook
      <4>6. CASE Crash(h)
        BY <4>6 DEF Crash
      <4> QED BY <2>2, <4>1, <4>2, <4>3, <4>4, <4>5, <4>6 DEF Hook
    <3> QED BY <3>1, <3>2, <3>3 DEF Dropped, Past
  <2> QED BY <2>1, <2>2 DEF Next
<1>3. Dropped => BadAddressIsDropped
  BY DEF Dropped, Past, BadAddressIsDropped
<1> QED BY <1>1, <1>2, <1>3, TypeCorrect, PTL DEF Spec

=============================================================================
