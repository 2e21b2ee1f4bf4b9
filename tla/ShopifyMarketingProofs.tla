----------------------- MODULE ShopifyMarketingProofs -----------------------
(***************************************************************************)
(* Theorems about ShopifyMarketing, and the tokens under it, for any       *)
(* handlers, mixes, visitors, products, customers and bounds.              *)
(***************************************************************************)
EXTENDS ShopifyMarketing, Integers, FiniteSetTheorems, TLAPS

(***************************************************************************)
(* What the handlers do to their points.                                   *)
(***************************************************************************)
Client == ClientPoints \cup {"wait"}
Mailing == {"contact", "campaign", "record"}
Running == {"build", "judge"} \cup Mailing
Refreshing == {"refresh", "exchange", "save"}
Goals == {"idle", "customer", "rows"}
Points == {"idle", "wait", "contact", "campaign"} \cup ClientPoints \cup OwnPoints

TokenTypes ==
    /\ at \in [Handlers -> Points]
    /\ goal \in [Handlers -> Goals] /\ copy \in [Handlers -> 0..MaxIssued]
    /\ lock \in [Processes -> Handlers \cup {"free"}]
    /\ token \in 0..MaxIssued /\ issued \in 0..MaxIssued

LEMMA HomeType == ASSUME NEW h \in Handlers PROVE Home(h) \in Processes
BY DEF Home, Processes

LEMMA ThrowTypes ==
    ASSUME TokenTypes, NEW h \in Handlers, Throws(h)
    PROVE  at' \in [Handlers -> Points] /\ goal' \in [Handlers -> Goals]
           /\ copy' \in [Handlers -> 0..MaxIssued]
           /\ lock' \in [Processes -> Handlers \cup {"free"}]
<1>1. at' \in [Handlers -> Points]
  BY DEF TokenTypes, Throws, End, Points
<1>2. goal' \in [Handlers -> Goals] /\ copy' \in [Handlers -> 0..MaxIssued]
  BY TokensAssumption DEF TokenTypes, Throws, End, Goals
<1>3. lock' \in [Processes -> Handlers \cup {"free"}]
  BY HomeType DEF TokenTypes, Throws, Released
<1> QED BY <1>1, <1>2, <1>3

LEMMA IssueTypes ==
    ASSUME TokenTypes, NEW h \in Handlers, NEW p \in Points, Issues(h, p)
    PROVE  at' \in [Handlers -> Points] /\ goal' \in [Handlers -> Goals]
           /\ copy' \in [Handlers -> 0..MaxIssued] /\ issued' \in 0..MaxIssued
           /\ lock' \in [Processes -> Handlers \cup {"free"}]
BY TokensAssumption DEF TokenTypes, Issues, GoesTo

LEMMA TokenStepTypes ==
    ASSUME TokenTypes, TokenStep
    PROVE  TokenTypes'
<1> USE DEF Client, Points, ClientPoints, Goals
<1>1. ASSUME NEW h \in Handlers, AskClient(h) \/ Install(h) PROVE TokenTypes'
  BY <1>1 DEF AskClient, Install, Begins, GoesTo, store, TokenTypes
<1>2. ASSUME NEW h \in Handlers, ReadStore(h) \/ ReadLegacy(h) PROVE TokenTypes'
  BY <1>2, ThrowTypes DEF ReadStore, ReadLegacy, GoesTo, store, TokenTypes
<1>3. ASSUME NEW h \in Handlers, CycleLegacy(h) \/ Exchange(h) \/ ExchangeCode(h)
      PROVE  TokenTypes'
  BY <1>3, ThrowTypes, IssueTypes DEF CycleLegacy, Exchange, ExchangeCode, store, TokenTypes
<1>4. ASSUME NEW h \in Handlers, Ensure(h) PROVE TokenTypes'
  <2>1. CASE Throws(h)
    BY <1>4, <2>1, ThrowTypes DEF Ensure, store, TokenTypes
  <2>2. CASE ~Throws(h)
    <3>1. at' \in [Handlers -> Points] /\ UNCHANGED <<copy, goal, store, issued>>
      <4>1. goal[h] \in Points
        BY DEF TokenTypes, OwnPoints
      <4> QED BY <1>4, <2>2, <4>1 DEF Ensure, GoesTo, store, TokenTypes
    <3>2. lock' \in [Processes -> Handlers \cup {"free"}]
      BY <1>4, <2>2, HomeType DEF Ensure, TokenTypes
    <3> QED BY <3>1, <3>2 DEF store, TokenTypes
  <2> QED BY <2>1, <2>2
<1>5. ASSUME NEW h \in Handlers, ReadRefresh(h) \/ SaveLegacy(h) \/ Reread(h)
      PROVE  TokenTypes'
  <2>1. goal[h] \in Points
    BY DEF TokenTypes, OwnPoints
  <2>2. CASE ReadRefresh(h)
    BY <2>2, ThrowTypes DEF ReadRefresh, GoesTo, store, TokenTypes
  <2>3. CASE SaveLegacy(h)
    BY <2>3 DEF SaveLegacy, Persist, GoesTo, TokenTypes
  <2>4. CASE Reread(h)
    BY <2>1, <2>4 DEF Reread, GoesTo, store, TokenTypes
  <2> QED BY <1>5, <2>2, <2>3, <2>4
<1>6. ASSUME NEW h \in Handlers, SaveRefresh(h) PROVE TokenTypes'
  BY <1>6 DEF SaveRefresh, Persist, Released, TokenTypes
<1>7. ASSUME NEW h \in Handlers, SaveInstall(h) PROVE TokenTypes'
  BY <1>7, TokensAssumption DEF SaveInstall, End, TokenTypes
<1>8. ASSUME NEW h \in Handlers, CallFails(h) PROVE TokenTypes'
  BY <1>8, ThrowTypes DEF CallFails, store, TokenTypes
<1>9. ASSUME NEW q \in Processes, ProcessStops(q) PROVE TokenTypes'
  BY <1>9, TokensAssumption DEF ProcessStops, End, store, TokenTypes
<1>10. ASSUME Disconnect \/ TokenAges PROVE TokenTypes'
  BY <1>10 DEF Disconnect, TokenAges, handler, TokenTypes
<1> QED
  BY <1>1, <1>2, <1>3, <1>4, <1>5, <1>6, <1>7, <1>8, <1>9, <1>10
  DEF TokenStep, Connection, ClientStep

\* A handler among its calls to get a client stays there, goes to where it wanted it
\* for, or ends; the others stay, or end with their process.
Goes(h) ==
    \/ at'[h] = at[h] /\ goal'[h] = goal[h]
    \/ at[h] = "idle" /\ at'[h] \in Client /\ goal'[h] = "idle"
    \/ at[h] \in Client /\ at'[h] \in Client /\ goal'[h] = goal[h]
    \/ at[h] \in Client /\ at'[h] = goal[h] /\ goal'[h] = goal[h]
    \/ at'[h] = "idle"

LEMMA ThrowGoes ==
    ASSUME TokenTypes, NEW h \in Handlers, Throws(h), NEW g \in Handlers
    PROVE  Goes(g)
BY DEF TokenTypes, Throws, End, Goes

LEMMA TokenStepGoes ==
    ASSUME TokenTypes, TokenStep, NEW g \in Handlers
    PROVE  Goes(g)
<1> USE DEF Client, ClientPoints
<1>1. ASSUME NEW h \in Handlers, AskClient(h) \/ Install(h) PROVE Goes(g)
  BY <1>1 DEF AskClient, Install, Begins, GoesTo, TokenTypes, Goes
<1>2. ASSUME NEW h \in Handlers, ReadStore(h) \/ ReadLegacy(h) PROVE Goes(g)
  BY <1>2, ThrowGoes DEF ReadStore, ReadLegacy, GoesTo, TokenTypes, Goes
<1>3. ASSUME NEW h \in Handlers, CycleLegacy(h) \/ Exchange(h) \/ ExchangeCode(h)
      PROVE  Goes(g)
  BY <1>3, ThrowGoes DEF CycleLegacy, Exchange, ExchangeCode, Issues, GoesTo, TokenTypes, Goes
<1>4. ASSUME NEW h \in Handlers, Ensure(h) PROVE Goes(g)
  <2>1. CASE Throws(h)
    BY <2>1, ThrowGoes
  <2>2. CASE ~Throws(h)
    BY <1>4, <2>2 DEF Ensure, GoesTo, TokenTypes, Goes
  <2> QED BY <2>1, <2>2
<1>5. ASSUME NEW h \in Handlers, ReadRefresh(h) \/ SaveLegacy(h) \/ Reread(h)
      PROVE  Goes(g)
  BY <1>5, ThrowGoes DEF ReadRefresh, SaveLegacy, Reread, GoesTo, TokenTypes, Goes
<1>6. ASSUME NEW h \in Handlers, SaveRefresh(h) PROVE Goes(g)
  BY <1>6 DEF SaveRefresh, FailWith, TokenTypes, Goes
<1>7. ASSUME NEW h \in Handlers, SaveInstall(h) PROVE Goes(g)
  BY <1>7 DEF SaveInstall, End, TokenTypes, Goes
<1>8. ASSUME NEW h \in Handlers, CallFails(h) PROVE Goes(g)
  BY <1>8, ThrowGoes DEF CallFails
<1>9. ASSUME NEW q \in Processes, ProcessStops(q) PROVE Goes(g)
  BY <1>9 DEF ProcessStops, End, TokenTypes, Goes
<1>10. ASSUME Disconnect \/ TokenAges PROVE Goes(g)
  BY <1>10 DEF Disconnect, TokenAges, handler, Goes
<1> QED
  BY <1>1, <1>2, <1>3, <1>4, <1>5, <1>6, <1>7, <1>8, <1>9, <1>10
  DEF TokenStep, Connection, ClientStep

\* The steps of the handlers' own work leave store, lock and token sets alone, and
\* every handler that is among its calls to get a client.
Keeps(g) ==
    \/ at'[g] = at[g] /\ goal'[g] = goal[g] /\ copy'[g] = copy[g]
    \/ /\ at[g] \notin Client /\ at'[g] \in {"client", "idle", "contact", "campaign"} \cup OwnPoints
       /\ goal'[g] \in Goals /\ copy'[g] \in 0..MaxIssued

Untouched ==
    /\ \A g \in Handlers : Keeps(g)
    /\ at' \in [Handlers -> Points] /\ goal' \in [Handlers -> Goals]
    /\ copy' \in [Handlers -> 0..MaxIssued]
    /\ UNCHANGED <<mix, token, issued, lock, crossed>>

LEMMA BeginsKeeps ==
    ASSUME TokenTypes, NEW h \in Handlers, NEW k, NEW p \in {"client"} \cup OwnPoints,
           NEW t \in Goals, Begins(h, k, p, t), UNCHANGED Free
    PROVE  Untouched
BY DEF TokenTypes, Begins, GoesTo, Free, store, Untouched, Keeps, Client, ClientPoints, OwnPoints,
       Points

LEMMA MovesKeeps ==
    ASSUME TokenTypes, NEW h \in Handlers, NEW p \in {"contact", "campaign"} \cup OwnPoints,
           at[h] \notin Client, Moves(h, p), UNCHANGED <<store, issued, lock, crossed>>
    PROVE  Untouched
BY DEF TokenTypes, Moves, GoesTo, store, Untouched, Keeps, Client, ClientPoints, OwnPoints, Points

LEMMA EndKeeps ==
    ASSUME TokenTypes, NEW h \in Handlers, at[h] \notin Client, End({h}),
           UNCHANGED <<store, issued, lock, crossed>>
    PROVE  Untouched
BY TokensAssumption DEF TokenTypes, End, store, Untouched, Keeps, Goals, Points

LEMMA OwnStepKeeps ==
    ASSUME TokenTypes, OwnStep
    PROVE  Untouched
<1>1. ASSUME NEW h \in Handlers,
             CustomerWebhook(h) \/ SyncCustomers(h) \/ Redact(h) \/ Event(h) \/ Evaluate(h)
      PROVE  Untouched
  BY <1>1, BeginsKeeps
  DEF CustomerWebhook, SyncCustomers, Redact, Event, Evaluate, Goals, OwnPoints
<1>2. ASSUME NEW h \in Handlers, HandlerStep(h) PROVE Untouched
  <2> USE DEF Client, ClientPoints, OwnPoints, Counts
  <2>1. CASE UpsertCustomer(h)
    BY <2>1, MovesKeeps DEF UpsertCustomer
  <2>2. CASE FindCustomer(h)
    BY <2>2, MovesKeeps, EndKeeps DEF FindCustomer, Quit
  <2>3. CASE Spread(h)
    BY <2>3, EndKeeps DEF Spread
  <2>4. CASE SyncRow(h)
    BY <2>4, MovesKeeps, EndKeeps DEF SyncRow
  <2>5. CASE RedactCustomer(h)
    BY <2>5, MovesKeeps DEF RedactCustomer
  <2>6. CASE RedactProfiles(h)
    BY <2>6, MovesKeeps DEF RedactProfiles
  <2>7. CASE RedactActions(h)
    BY <2>7, EndKeeps DEF RedactActions, Quit
  <2>8. CASE ReadProfile(h)
    BY <2>8, MovesKeeps DEF ReadProfile
  <2>9. CASE LookUpCustomer(h)
    BY <2>9, MovesKeeps DEF LookUpCustomer
  <2>10. CASE UpsertProfile(h)
    BY <2>10, EndKeeps DEF UpsertProfile
  <2>11. CASE BuildCandidate(h)
    BY <2>11, MovesKeeps DEF BuildCandidate
  <2>12. CASE Judge(h)
    BY <2>12, MovesKeeps, EndKeeps DEF Judge
  <2>13. CASE SubscribeRecipient(h)
    BY <2>13, MovesKeeps DEF SubscribeRecipient
  <2>14. CASE ScheduleCampaign(h)
    BY <2>14, MovesKeeps DEF ScheduleCampaign
  <2>15. CASE RecordSent(h)
    BY <2>15, MovesKeeps DEF RecordSent
  <2> QED
    BY <1>2, <2>1, <2>2, <2>3, <2>4, <2>5, <2>6, <2>7, <2>8, <2>9, <2>10, <2>11, <2>12, <2>13,
       <2>14, <2>15 DEF HandlerStep
<1>3. ASSUME NEW h \in Handlers, RecordFailed(h) PROVE Untouched
  BY <1>3, MovesKeeps DEF RecordFailed, Client, ClientPoints, OwnPoints
<1>4. ASSUME NEW h \in Handlers, HandlerFails(h) PROVE Untouched
  BY <1>4, EndKeeps DEF HandlerFails, Client, ClientPoints, OwnPoints
<1>5. ASSUME UNCHANGED tokenVars PROVE Untouched
  BY <1>5 DEF tokenVars, handler, store, Untouched, Keeps, TokenTypes
<1> QED
  BY <1>1, <1>2, <1>3, <1>4, <1>5
  DEF OwnStep, Asks, Unsubscribe, CooldownEnds, WeekEnds

-----------------------------------------------------------------------------
(***************************************************************************)
(* The tokens.                                                             *)
(***************************************************************************)

\* Who refreshes holds the lock of its process, and only such handlers do.
LockOK ==
    /\ \A h \in Handlers : at[h] \in Refreshing => lock[Home(h)] = h
    /\ \A h \in Handlers : at[h] = "wait" => lock[Home(h)] # "free"
    /\ \A q \in Processes : lock[q] # "free" => at[lock[q]] \in Refreshing /\ Home(lock[q]) = q

LEMMA GoesLocked ==
    ASSUME TokenTypes, LockOK, NEW h \in Handlers, NEW p, GoesTo(h, p), UNCHANGED <<mix, lock>>,
           at[h] \in Refreshing <=> p \in Refreshing, p = "wait" => lock[Home(h)] # "free"
    PROVE  LockOK'
<1>1. \A g \in Handlers : Home(g)' = Home(g) /\ Home(g) \in Processes
  BY HomeType DEF Home
<1>2. \A g \in Handlers : at'[g] = IF g = h THEN p ELSE at[g]
  BY DEF GoesTo, TokenTypes
<1> QED BY <1>1, <1>2 DEF LockOK, TokenTypes

LEMMA ThrowsLocked ==
    ASSUME TokenTypes, LockOK, NEW h \in Handlers, Throws(h)
    PROVE  LockOK'
<1>1. \A g \in Handlers : Home(g)' = Home(g) /\ Home(g) \in Processes
  BY HomeType DEF Home, Throws, End
<1>2. \A g \in Handlers : at'[g] = IF g \in FailWith(h) THEN "idle" ELSE at[g]
  BY DEF Throws, End
<1>3. \A q \in Processes : lock'[q] = IF Holds(h) /\ q = Home(h) THEN "free" ELSE lock[q]
  BY <1>1 DEF Throws, Released, TokenTypes
<1> QED BY <1>1, <1>2, <1>3, TokensAssumption DEF LockOK, TokenTypes, FailWith, Holds, Refreshing

LEMMA TokenStepLocked ==
    ASSUME TokenTypes, LockOK, TokenStep
    PROVE  LockOK'
<1> USE DEF Refreshing, ClientPoints
<1>1. ASSUME NEW h \in Handlers, AskClient(h) \/ Install(h) PROVE LockOK'
  BY <1>1, GoesLocked DEF AskClient, Install, Begins
<1>2. ASSUME NEW h \in Handlers, ReadStore(h) \/ ReadLegacy(h) PROVE LockOK'
  BY <1>2, ThrowsLocked, GoesLocked DEF ReadStore, ReadLegacy
<1>3. ASSUME NEW h \in Handlers, CycleLegacy(h) \/ Exchange(h) \/ ExchangeCode(h) PROVE LockOK'
  BY <1>3, ThrowsLocked, GoesLocked DEF CycleLegacy, Exchange, ExchangeCode, Issues
<1>4. ASSUME NEW h \in Handlers, Ensure(h) PROVE LockOK'
  <2>1. CASE Throws(h)
    BY <2>1, ThrowsLocked
  <2>2. CASE ~(MustRefresh /\ lock[Home(h)] = "free") /\ ~Throws(h)
    <3>1. goal[h] \notin Refreshing \cup {"wait"}
      BY DEF TokenTypes, Goals
    <3>2. at[h] = "ensure" /\ UNCHANGED <<mix, lock>>
      BY <1>4, <2>2 DEF Ensure
    <3>3. GoesTo(h, goal[h]) \/ (GoesTo(h, "wait") /\ lock[Home(h)] # "free")
      BY <1>4, <2>2 DEF Ensure
    <3> QED BY <3>1, <3>2, <3>3, GoesLocked
  <2>3. CASE MustRefresh /\ lock[Home(h)] = "free" /\ ~Throws(h)
    <3>1. /\ at[h] = "ensure" /\ lock[Home(h)] = "free" /\ UNCHANGED mix
          /\ lock' = [lock EXCEPT ![Home(h)] = h] /\ GoesTo(h, "refresh")
      BY <1>4, <2>3 DEF Ensure
    <3>2. \A g \in Handlers : Home(g)' = Home(g) /\ Home(g) \in Processes
      BY <3>1, HomeType DEF Home
    <3>3. \A g \in Handlers : at'[g] = IF g = h THEN "refresh" ELSE at[g]
      BY <3>1 DEF GoesTo, TokenTypes
    <3>4. \A q \in Processes : lock'[q] = IF q = Home(h) THEN h ELSE lock[q]
      BY <3>1, <3>2 DEF TokenTypes
    <3> QED BY <3>1, <3>2, <3>3, <3>4, TokensAssumption DEF LockOK, TokenTypes
  <2> QED BY <2>1, <2>2, <2>3
<1>5. ASSUME NEW h \in Handlers, ReadRefresh(h) \/ SaveLegacy(h) PROVE LockOK'
  BY <1>5, ThrowsLocked, GoesLocked DEF ReadRefresh, SaveLegacy
<1>6. ASSUME NEW h \in Handlers, Reread(h) PROVE LockOK'
  <2>1. goal[h] \notin Refreshing \cup {"wait"}
    BY DEF TokenTypes, Goals
  <2> QED BY <1>6, <2>1, GoesLocked DEF Reread
<1>7. ASSUME NEW h \in Handlers, SaveRefresh(h) PROVE LockOK'
  <2>1. \A g \in Handlers : Home(g)' = Home(g) /\ Home(g) \in Processes
    BY <1>7, HomeType DEF Home, SaveRefresh
  <2>2. \A g \in Handlers : at'[g] = IF g \in FailWith(h) THEN "reread" ELSE at[g]
    BY <1>7 DEF SaveRefresh
  <2>3. Holds(h)
    BY <1>7 DEF SaveRefresh, LockOK, Holds
  <2>4. \A q \in Processes : lock'[q] = IF q = Home(h) THEN "free" ELSE lock[q]
    BY <1>7, <2>1, <2>3 DEF SaveRefresh, Released, TokenTypes
  <2> QED BY <2>1, <2>2, <2>3, <2>4, TokensAssumption DEF LockOK, TokenTypes, FailWith, Holds
<1>8. ASSUME NEW h \in Handlers, SaveInstall(h) PROVE LockOK'
  <2>1. \A g \in Handlers : Home(g)' = Home(g) /\ Home(g) \in Processes
    BY <1>8, HomeType DEF Home, SaveInstall, End
  <2>2. \A g \in Handlers : at'[g] = IF g = h THEN "idle" ELSE at[g]
    BY <1>8 DEF SaveInstall, End
  <2>3. lock' = lock /\ at[h] = "saveInstall"
    BY <1>8 DEF SaveInstall
  <2> QED BY <2>1, <2>2, <2>3 DEF LockOK, TokenTypes
<1>9. ASSUME NEW h \in Handlers, CallFails(h) PROVE LockOK'
  BY <1>9, ThrowsLocked DEF CallFails
<1>10. ASSUME NEW q \in Processes, ProcessStops(q) PROVE LockOK'
  <2>1. \A g \in Handlers : Home(g)' = Home(g) /\ Home(g) \in Processes
    BY <1>10, HomeType DEF Home, ProcessStops, End
  <2>2. \A g \in Handlers : at'[g] = IF Home(g) = q THEN "idle" ELSE at[g]
    BY <1>10 DEF ProcessStops, End, At
  <2>3. \A p \in Processes : lock'[p] = IF p = q THEN "free" ELSE lock[p]
    BY <1>10 DEF ProcessStops, TokenTypes
  <2> QED BY <2>1, <2>2, <2>3, TokensAssumption DEF LockOK, TokenTypes
<1>11. ASSUME Disconnect \/ TokenAges PROVE LockOK'
  BY <1>11 DEF Disconnect, TokenAges, handler, LockOK, Home
<1> QED
  BY <1>1, <1>2, <1>3, <1>4, <1>5, <1>6, <1>7, <1>8, <1>9, <1>10, <1>11
  DEF TokenStep, Connection, ClientStep

LEMMA OwnStepLocked ==
    ASSUME TokenTypes, LockOK, Untouched
    PROVE  LockOK'
<1>1. \A g \in Handlers : Home(g)' = Home(g) /\ Home(g) \in Processes
  BY HomeType DEF Home, Untouched
<1>2. \A g \in Handlers : \/ at'[g] = at[g]
                          \/ at[g] \notin Client /\ at'[g] \notin Refreshing \cup {"wait"}
  BY DEF Untouched, Keeps, Refreshing, OwnPoints
<1> QED BY <1>1, <1>2 DEF LockOK, TokenTypes, Untouched, Refreshing, Client, ClientPoints

\* Unless exchanges crossed or an answer was lost, at most one handler has a token set
\* to save, and it is the newest; when none has, the row does.
OneUnsaved ==
    ~crossed =>
        /\ \A g, h \in Handlers : Unsaved(g) /\ Unsaved(h) => g = h
        /\ \A h \in Handlers : Unsaved(h) => copy[h] = issued
        /\ Settled => token = issued

LEMMA SameUnsaved ==
    ASSUME OneUnsaved, UNCHANGED <<token, issued>>, crossed => crossed',
           \A g \in Handlers : (Unsaved(g)' <=> Unsaved(g)) /\ (Unsaved(g) => copy'[g] = copy[g])
    PROVE  OneUnsaved'
BY DEF OneUnsaved, Settled

LEMMA ThrowsUnsaved ==
    ASSUME TokenTypes, OneUnsaved, NEW h \in Handlers, Throws(h), ~Unsaved(h),
           UNCHANGED <<token, issued>>, crossed => crossed'
    PROVE  OneUnsaved'
<1>1. \A g \in Handlers : at'[g] = IF g \in FailWith(h) THEN "idle" ELSE at[g]
  BY DEF Throws, End
<1>2. \A g \in Handlers : copy'[g] = IF g \in FailWith(h) THEN 0 ELSE copy[g]
  BY DEF Throws, End
<1>3. \A g \in Handlers : (Unsaved(g)' <=> Unsaved(g)) /\ (Unsaved(g) => copy'[g] = copy[g])
  BY <1>1, <1>2 DEF Unsaved, FailWith
<1> QED BY <1>3, SameUnsaved

LEMMA GoesUnsaved ==
    ASSUME TokenTypes, OneUnsaved, NEW h \in Handlers, NEW p, GoesTo(h, p), ~Unsaved(h),
           p \notin {"save", "saveSwap", "saveInstall"},
           UNCHANGED <<token, issued>>, crossed => crossed',
           \A g \in Handlers \ {h} : copy'[g] = copy[g]
    PROVE  OneUnsaved'
<1>1. \A g \in Handlers : at'[g] = IF g = h THEN p ELSE at[g]
  BY DEF GoesTo, TokenTypes
<1>2. \A g \in Handlers : (Unsaved(g)' <=> Unsaved(g)) /\ (Unsaved(g) => copy'[g] = copy[g])
  BY <1>1 DEF Unsaved
<1> QED BY <1>2, SameUnsaved

\* The one that exchanges is then the only one that has a token set to save: a refresh
\* of its process is not under way, for it holds the lock.
LEMMA IssuesUnsaved ==
    ASSUME TokenTypes, LockOK, OneUnsaved, NEW h \in Handlers,
           NEW p \in {"save", "saveSwap", "saveInstall"}, Issues(h, p), ~Unsaved(h)
    PROVE  OneUnsaved'
<1> SUFFICES ASSUME ~crossed' PROVE OneUnsaved'
  BY DEF OneUnsaved
<1>1. ~crossed /\ \A g \in Handlers : ~Crosses(g, h)
  BY DEF Issues
<1>2. \A g \in Handlers : ~Unsaved(g)
  BY <1>1 DEF Crosses, LockOK, Refreshing, Unsaved
<1>3. \A g \in Handlers : at'[g] = IF g = h THEN p ELSE at[g]
  BY DEF Issues, GoesTo, TokenTypes
<1>4. copy'[h] = issued'
  BY DEF Issues, TokenTypes
<1>5. \A g \in Handlers : Unsaved(g)' <=> g = h
  BY <1>2, <1>3 DEF Unsaved
<1> QED BY <1>4, <1>5 DEF OneUnsaved, Settled

\* The only one saves the newest.
LEMMA SavesUnsaved ==
    ASSUME TokenTypes, OneUnsaved, NEW h \in Handlers, Unsaved(h), token' = copy[h],
           UNCHANGED <<issued, crossed>>,
           \A g \in Handlers : \/ at'[g] \in {"idle", "reread", "ensure"}
                               \/ g # h /\ at'[g] = at[g]
    PROVE  OneUnsaved'
<1> SUFFICES ASSUME ~crossed' PROVE OneUnsaved'
  BY DEF OneUnsaved
<1>1. token' = issued' /\ \A g \in Handlers : Unsaved(g) => g = h
  BY DEF OneUnsaved
<1>2. \A g \in Handlers : Unsaved(g)' => Unsaved(g) /\ g # h
  BY DEF Unsaved
<1> QED BY <1>1, <1>2 DEF OneUnsaved

LEMMA TokenStepUnsaved ==
    ASSUME TokenTypes, LockOK, OneUnsaved, TokenStep
    PROVE  OneUnsaved'
<1> USE DEF store
<1>1. ASSUME NEW h \in Handlers, AskClient(h) \/ Install(h) PROVE OneUnsaved'
  BY <1>1, GoesUnsaved DEF AskClient, Install, Begins, Unsaved
<1>2. ASSUME NEW h \in Handlers, ReadStore(h) \/ ReadLegacy(h) PROVE OneUnsaved'
  BY <1>2, ThrowsUnsaved, GoesUnsaved DEF ReadStore, ReadLegacy, Unsaved
<1>3. ASSUME NEW h \in Handlers, CycleLegacy(h) \/ Exchange(h) \/ ExchangeCode(h)
      PROVE  OneUnsaved'
  BY <1>3, ThrowsUnsaved, IssuesUnsaved DEF CycleLegacy, Exchange, ExchangeCode, Unsaved
<1>4. ASSUME NEW h \in Handlers, Ensure(h) PROVE OneUnsaved'
  <2>1. CASE Throws(h)
    BY <1>4, <2>1, ThrowsUnsaved DEF Ensure, Unsaved
  <2>2. CASE ~Throws(h)
    <3>1. goal[h] \notin {"save", "saveSwap", "saveInstall"}
      BY DEF TokenTypes, Goals
    <3> QED BY <1>4, <2>2, <3>1, GoesUnsaved DEF Ensure, Unsaved
  <2> QED BY <2>1, <2>2
<1>5. ASSUME NEW h \in Handlers, ReadRefresh(h) PROVE OneUnsaved'
  <2>1. CASE Throws(h)
    BY <1>5, <2>1, ThrowsUnsaved DEF ReadRefresh, Unsaved
  <2>2. CASE ~Throws(h)
    <3>1. \A g \in Handlers \ {h} : copy'[g] = copy[g]
      BY <1>5, <2>2 DEF ReadRefresh, TokenTypes
    <3> QED BY <1>5, <2>2, <3>1, GoesUnsaved DEF ReadRefresh, Unsaved
  <2> QED BY <2>1, <2>2
<1>6. ASSUME NEW h \in Handlers, SaveLegacy(h) PROVE OneUnsaved'
  BY <1>6, SavesUnsaved DEF SaveLegacy, Persist, GoesTo, TokenTypes, Unsaved
<1>7. ASSUME NEW h \in Handlers, SaveRefresh(h) PROVE OneUnsaved'
  BY <1>7, SavesUnsaved DEF SaveRefresh, Persist, FailWith, TokenTypes, Unsaved
<1>8. ASSUME NEW h \in Handlers, SaveInstall(h) PROVE OneUnsaved'
  BY <1>8, SavesUnsaved DEF SaveInstall, End, TokenTypes, Unsaved
<1>9. ASSUME NEW h \in Handlers, Reread(h) PROVE OneUnsaved'
  <2>1. goal[h] \notin {"save", "saveSwap", "saveInstall"}
    BY DEF TokenTypes, Goals
  <2> QED BY <1>9, <2>1, GoesUnsaved DEF Reread, Unsaved
<1>10. ASSUME NEW h \in Handlers, CallFails(h) PROVE OneUnsaved'
  <2>1. CASE Unsaved(h)
    BY <1>10, <2>1 DEF CallFails, OneUnsaved
  <2>2. CASE ~Unsaved(h)
    BY <1>10, <2>2, ThrowsUnsaved DEF CallFails
  <2> QED BY <2>1, <2>2
<1>11. ASSUME NEW q \in Processes, ProcessStops(q) PROVE OneUnsaved'
  <2> SUFFICES ASSUME ~crossed' PROVE OneUnsaved'
    BY DEF OneUnsaved
  <2>1. ~crossed /\ \A g \in At(q) : ~Unsaved(g)
    BY <1>11 DEF ProcessStops
  <2>2. \A g \in Handlers : /\ at'[g] = IF g \in At(q) THEN "idle" ELSE at[g]
                            /\ copy'[g] = IF g \in At(q) THEN 0 ELSE copy[g]
    BY <1>11 DEF ProcessStops, End
  <2>3. \A g \in Handlers : (Unsaved(g)' <=> Unsaved(g)) /\ (Unsaved(g) => copy'[g] = copy[g])
    BY <2>1, <2>2 DEF Unsaved
  <2>4. UNCHANGED <<token, issued>>
    BY <1>11 DEF ProcessStops
  <2> QED BY <2>1, <2>3, <2>4, SameUnsaved
<1>12. ASSUME Disconnect \/ TokenAges PROVE OneUnsaved'
  BY <1>12 DEF Disconnect, TokenAges, handler, OneUnsaved, Settled, Unsaved
<1> QED
  BY <1>1, <1>2, <1>3, <1>4, <1>5, <1>6, <1>7, <1>8, <1>9, <1>10, <1>11, <1>12
  DEF TokenStep, Connection, ClientStep

LEMMA OwnStepUnsaved ==
    ASSUME TokenTypes, OneUnsaved, Untouched
    PROVE  OneUnsaved'
<1>1. \A g \in Handlers : (Unsaved(g)' <=> Unsaved(g)) /\ (Unsaved(g) => copy'[g] = copy[g])
  BY DEF Untouched, Keeps, Unsaved, Client, ClientPoints, OwnPoints
<1> QED BY <1>1, SameUnsaved DEF Untouched

TokensInv == TokenTypes /\ LockOK /\ OneUnsaved

LEMMA InitTokens == Init => TokensInv
<1> SUFFICES ASSUME Init PROVE TokensInv
  OBVIOUS
<1>1. TokenTypes
  BY TokensAssumption DEF Init, TokenInit, TokenTypes, Points, Goals, Processes
<1>2. LockOK
  BY HomeType DEF Init, TokenInit, LockOK, Refreshing, Processes
<1>3. OneUnsaved
  BY DEF Init, TokenInit, OneUnsaved, Unsaved
<1> QED BY <1>1, <1>2, <1>3 DEF TokensInv

LEMMA StutterTokens == ASSUME TokensInv, UNCHANGED tokenVars PROVE TokensInv'
BY DEF tokenVars, handler, store, TokensInv, TokenTypes, LockOK, OneUnsaved, Home, Settled, Unsaved

LEMMA NextTokens == TokensInv /\ [Next]_vars => TokensInv'
<1> SUFFICES ASSUME TokensInv, [Next]_vars PROVE TokensInv'
  OBVIOUS
<1>1. CASE TokenStep
  BY <1>1, TokenStepTypes, TokenStepLocked, TokenStepUnsaved DEF TokensInv
<1>2. CASE OwnStep
  <2>1. Untouched
    BY <1>2, OwnStepKeeps DEF TokensInv
  <2>2. TokenTypes'
    BY <2>1 DEF TokensInv, TokenTypes, Untouched
  <2> QED BY <2>1, <2>2, OwnStepLocked, OwnStepUnsaved DEF TokensInv
<1>3. CASE UNCHANGED vars
  BY <1>3, StutterTokens DEF vars
<1> QED BY <1>1, <1>2, <1>3 DEF Next

\* While no exchange of two processes, or of a refresh and an install or a legacy swap,
\* crossed and every answer was saved, the row holds Shopify's newest token set whenever
\* nobody is between an exchange and its save, however many handlers and processes there
\* are and wherever they stop.
THEOREM NewestIsStored == Spec => []TokenIsCurrent
<1>1. TokensInv => TokenIsCurrent
  BY DEF TokensInv, OneUnsaved, TokenIsCurrent
<1> QED BY <1>1, InitTokens, NextTokens, PTL DEF Spec

\* However many handlers and processes there are, whatever fails and wherever they stop,
\* a promise in refreshLocks is that of a refresh under way in its process, and who waits
\* waits for one.
THEOREM PromisesRun == Spec => []RefreshesRun
<1>1. TokensInv => RefreshesRun
  BY DEF TokensInv, LockOK, Refreshing, RefreshesRun
<1> QED BY <1>1, InitTokens, NextTokens, PTL DEF Spec

-----------------------------------------------------------------------------
(***************************************************************************)
(* What the handlers hold, and the rows.                                   *)
(***************************************************************************)
Change == [of : Customers, consent : {"yes", "no"}]
Erasure == [of : Customers]
Visit == [of : Visitors, id : Customers \cup {"none"}]
Snapshot == [of : Visitors, id : Customers \cup {"none"}, link : Customers \cup {"none"},
             consent : Consent, own : BOOLEAN]
Mail == [of : {"mail"}, visitor : Visitors, product : Products, to : Customers,
         campaign : 0..MaxMails]

HandOK(h) ==
    /\ hand[h].of = "mail" => at[h] \in Mailing
    /\ at[h] \in {"customer", "find", "spread"} \/ (at[h] \in Client /\ goal[h] = "customer")
          => hand[h] \in Change
    /\ at[h] \in {"redact", "unlink", "forget"} => hand[h] \in Erasure
    /\ at[h] = "profile" => hand[h] \in Visit
    /\ at[h] \in {"lookup", "upsert"} => hand[h] \in Snapshot
    /\ at[h] = "lookup" => hand[h].id # "none" /\ hand[h].own
    /\ at[h] \in Mailing => hand[h] \in Mail
    /\ at[h] = "record" => hand[h].campaign \in 1..scheduled
HandTypes == DOMAIN hand = Handlers /\ \A h \in Handlers : HandOK(h)

EngineTypes ==
    /\ todo \in [Handlers -> SUBSET Interests]
    /\ cands \in [Handlers -> SUBSET (Visitors \X Products \X Customers)]
    /\ \A h \in Handlers : todo[h] # {} => at[h] = "build"
    /\ \A h \in Handlers : cands[h] # {} => at[h] \in Running

RowTypes ==
    /\ customer \in [Customers -> {"none", "yes", "no"}]
    /\ profile \in [Visitors -> [link : Customers \cup {"none"}, consent : Consent]]
    /\ subs \subseteq Customers
    /\ actions \cup cooling \subseteq Action
    /\ mails \in [Interests -> Int] /\ weekly \in [Visitors -> Int]
    /\ scheduled \in 0..MaxMails

OwnTypes == HandTypes /\ EngineTypes /\ RowTypes

\* One handler moves.
Only(h, p) ==
    /\ \A g \in Handlers : at'[g] = IF g = h THEN p ELSE at[g]
    /\ \A g \in Handlers \ {h} : goal'[g] = goal[g]

LEMMA BeginsOnly ==
    ASSUME TokenTypes, NEW h \in Handlers, NEW k, NEW p, NEW t, Begins(h, k, p, t)
    PROVE  Only(h, p) /\ at[h] = "idle" /\ goal'[h] = t
BY DEF TokenTypes, Begins, GoesTo, Only

LEMMA MovesOnly ==
    ASSUME TokenTypes, NEW h \in Handlers, NEW p, Moves(h, p)
    PROVE  Only(h, p)
BY DEF TokenTypes, Moves, GoesTo, Only

LEMMA EndOnly ==
    ASSUME TokenTypes, NEW h \in Handlers, End({h})
    PROVE  Only(h, "idle")
BY DEF End, Only

OnlyHand(h) == DOMAIN hand' = Handlers /\ \A g \in Handlers \ {h} : hand'[g] = hand[g]

LEMMA TakesOnly ==
    ASSUME HandTypes, NEW h \in Handlers, NEW x, Takes(h, x)
    PROVE  OnlyHand(h) /\ hand'[h] = x
BY DEF HandTypes, Takes, OnlyHand

LEMMA KeepsHand ==
    ASSUME HandTypes, NEW h \in Handlers, UNCHANGED hand
    PROVE  OnlyHand(h) /\ hand'[h] = hand[h]
BY DEF HandTypes, OnlyHand

LEMMA OneHand ==
    ASSUME OwnTypes, NEW h \in Handlers, NEW p, Only(h, p), OnlyHand(h), HandOK(h)',
           scheduled' \in {scheduled, scheduled + 1}
    PROVE  HandTypes'
<1>1. ASSUME NEW g \in Handlers \ {h} PROVE HandOK(g)'
  BY DEF OwnTypes, HandTypes, RowTypes, HandOK, Only, OnlyHand
<1> QED BY <1>1 DEF HandTypes, OnlyHand

\* A handler that leaves the engine's points alone.
LEMMA OneRun ==
    ASSUME EngineTypes, NEW h \in Handlers, NEW p, Only(h, p), UNCHANGED <<todo, cands>>,
           at[h] \notin Running \/ (at[h] # "build" /\ p \in Running)
    PROVE  EngineTypes'
BY DEF EngineTypes, Only, Running, Mailing

LEMMA AskTypes ==
    ASSUME TokenTypes, OwnTypes, NEW h \in Handlers,
           CustomerWebhook(h) \/ SyncCustomers(h) \/ Redact(h) \/ Event(h) \/ Evaluate(h)
    PROVE  OwnTypes'
<1> USE DEF consents, engine, sent, Client, ClientPoints, Mailing, Running
<1>1. CASE CustomerWebhook(h)
  <2>1. Only(h, "client") /\ at[h] = "idle"
    BY <1>1, BeginsOnly DEF CustomerWebhook
  <2>2. PICK c \in Customers, b \in {"yes", "no"} : Takes(h, [of |-> c, consent |-> b])
    BY <1>1 DEF CustomerWebhook
  <2>3. OnlyHand(h) /\ hand'[h] = [of |-> c, consent |-> b]
    BY <2>2, TakesOnly DEF OwnTypes
  <2>4. HandOK(h)'
    BY <2>1, <2>3, MarketingAssumption DEF HandOK, Only, Change
  <2>5. HandTypes'
    BY <1>1, <2>1, <2>3, <2>4, OneHand DEF CustomerWebhook
  <2> QED BY <1>1, <2>1, <2>5, OneRun DEF CustomerWebhook, OwnTypes, RowTypes
<1>2. CASE SyncCustomers(h)
  <2>1. Only(h, "client") /\ at[h] = "idle" /\ goal'[h] = "rows"
    BY <1>2, BeginsOnly DEF SyncCustomers
  <2>2. HandTypes'
    BY <1>2, <2>1 DEF OwnTypes, HandTypes, HandOK, Only, SyncCustomers
  <2> QED BY <1>2, <2>1, <2>2, OneRun DEF SyncCustomers, OwnTypes, RowTypes
<1>3. CASE Redact(h)
  <2>1. Only(h, "redact") /\ at[h] = "idle"
    BY <1>3, BeginsOnly DEF Redact
  <2>2. PICK c \in Customers : Takes(h, [of |-> c])
    BY <1>3 DEF Redact
  <2>3. OnlyHand(h) /\ hand'[h] = [of |-> c]
    BY <2>2, TakesOnly DEF OwnTypes
  <2>4. HandOK(h)'
    BY <2>1, <2>3, MarketingAssumption DEF HandOK, Only, Erasure
  <2>5. HandTypes'
    BY <1>3, <2>1, <2>3, <2>4, OneHand DEF Redact
  <2> QED BY <1>3, <2>1, <2>5, OneRun DEF Redact, OwnTypes, RowTypes
<1>4. CASE Event(h)
  <2>1. Only(h, "profile") /\ at[h] = "idle"
    BY <1>4, BeginsOnly DEF Event
  <2>2. PICK v \in Visitors, c \in Customers \cup {"none"} : Takes(h, [of |-> v, id |-> c])
    BY <1>4 DEF Event
  <2>3. OnlyHand(h) /\ hand'[h] = [of |-> v, id |-> c]
    BY <2>2, TakesOnly DEF OwnTypes
  <2>4. HandOK(h)'
    BY <2>1, <2>3, MarketingAssumption DEF HandOK, Only, Visit
  <2>5. HandTypes'
    BY <1>4, <2>1, <2>3, <2>4, OneHand DEF Event
  <2> QED BY <1>4, <2>1, <2>5, OneRun DEF Event, OwnTypes, RowTypes
<1>5. CASE Evaluate(h)
  <2>1. Only(h, "build") /\ at[h] = "idle"
    BY <1>5, BeginsOnly DEF Evaluate
  <2>2. HandTypes'
    BY <1>5, <2>1 DEF OwnTypes, HandTypes, HandOK, Only, Evaluate
  <2>3. PICK I \in SUBSET Interests : todo' = [todo EXCEPT ![h] = I]
    BY <1>5 DEF Evaluate
  <2>4. EngineTypes'
    BY <1>5, <2>1, <2>3 DEF Evaluate, EngineTypes, OwnTypes, Only
  <2> QED BY <1>5, <2>2, <2>4 DEF Evaluate, OwnTypes, RowTypes
<1> QED BY <1>1, <1>2, <1>3, <1>4, <1>5

LEMMA CustomerStepTypes ==
    ASSUME TokenTypes, OwnTypes, NEW h \in Handlers,
           \/ UpsertCustomer(h) \/ FindCustomer(h) \/ Spread(h) \/ SyncRow(h)
           \/ RedactCustomer(h) \/ RedactProfiles(h) \/ RedactActions(h)
    PROVE  OwnTypes'
<1> USE DEF engine, sent, Client, ClientPoints, Mailing, Running, Counts
<1>0. HandOK(h)
  BY DEF OwnTypes, HandTypes
<1>1. CASE UpsertCustomer(h)
  <2>1. Only(h, "find") /\ OnlyHand(h) /\ hand'[h] = hand[h] /\ at[h] = "customer"
    BY <1>1, MovesOnly, KeepsHand DEF UpsertCustomer, OwnTypes
  <2>2. hand[h] \in Change
    BY <1>0, <2>1 DEF HandOK
  <2>3. HandOK(h)'
    BY <2>1, <2>2, MarketingAssumption DEF HandOK, Only, Change
  <2>4. HandTypes'
    BY <1>1, <2>1, <2>3, OneHand DEF UpsertCustomer
  <2>5. RowTypes'
    BY <1>1, <2>2 DEF UpsertCustomer, WriteCustomer, Change, OwnTypes, RowTypes
  <2> QED BY <1>1, <2>1, <2>4, <2>5, OneRun DEF UpsertCustomer, OwnTypes
<1>2. CASE FindCustomer(h) /\ customer[hand[h].of] = "none"
  <2>1. Only(h, "idle") /\ OnlyHand(h) /\ hand'[h] = Nothing /\ at[h] = "find"
    BY <1>2, EndOnly, TakesOnly DEF FindCustomer, Quit, OwnTypes
  <2>2. HandOK(h)'
    BY <2>1 DEF HandOK, Only, Nothing
  <2>3. HandTypes'
    BY <1>2, <2>1, <2>2, OneHand DEF FindCustomer
  <2> QED BY <1>2, <2>1, <2>3, OneRun DEF FindCustomer, OwnTypes, RowTypes
<1>3. CASE FindCustomer(h) /\ customer[hand[h].of] # "none"
  <2>1. Only(h, "spread") /\ OnlyHand(h) /\ at[h] = "find"
        /\ hand'[h] = [hand[h] EXCEPT !.consent = customer[hand[h].of]]
    BY <1>3, MovesOnly DEF FindCustomer, OwnTypes, HandTypes, OnlyHand
  <2>2. hand[h] \in Change
    BY <1>0, <2>1 DEF HandOK
  <2>3. hand'[h] \in Change
    BY <1>3, <2>1, <2>2 DEF Change, OwnTypes, RowTypes
  <2>4. HandOK(h)'
    BY <2>1, <2>3, MarketingAssumption DEF HandOK, Only, Change
  <2>5. HandTypes'
    BY <1>3, <2>1, <2>4, OneHand DEF FindCustomer
  <2> QED BY <1>3, <2>1, <2>5, OneRun DEF FindCustomer, OwnTypes, RowTypes
<1>4. CASE Spread(h)
  <2>1. Only(h, "idle") /\ OnlyHand(h) /\ hand'[h] = Nothing /\ at[h] = "spread"
    BY <1>4, EndOnly, TakesOnly DEF Spread, OwnTypes
  <2>2. HandOK(h)'
    BY <2>1 DEF HandOK, Only, Nothing
  <2>3. HandTypes'
    BY <1>4, <2>1, <2>2, OneHand DEF Spread
  <2>4. hand[h] \in Change
    BY <1>0, <2>1 DEF HandOK
  <2>5. RowTypes'
    BY <1>4, <2>4 DEF Spread, Change, OwnTypes, RowTypes, Consent
  <2> QED BY <1>4, <2>1, <2>3, <2>5, OneRun DEF Spread, OwnTypes
<1>5. CASE SyncRow(h)
  <2>1. (Only(h, "rows") \/ Only(h, "idle")) /\ OnlyHand(h) /\ hand'[h] = hand[h] /\ at[h] = "rows"
    BY <1>5, MovesOnly, EndOnly, KeepsHand DEF SyncRow, OwnTypes
  <2>2. HandOK(h)'
    BY <1>0, <2>1 DEF HandOK, Only
  <2>3. HandTypes'
    BY <1>5, <2>1, <2>2, OneHand DEF SyncRow
  <2>4. RowTypes'
    BY <1>5 DEF SyncRow, WriteCustomer, OwnTypes, RowTypes
  <2> QED BY <1>5, <2>1, <2>3, <2>4, OneRun DEF SyncRow, OwnTypes
<1>6. CASE RedactCustomer(h)
  <2>1. Only(h, "unlink") /\ OnlyHand(h) /\ hand'[h] = hand[h] /\ at[h] = "redact"
    BY <1>6, MovesOnly, KeepsHand DEF RedactCustomer, OwnTypes
  <2>2. HandOK(h)'
    BY <1>0, <2>1 DEF HandOK, Only
  <2>3. HandTypes'
    BY <1>6, <2>1, <2>2, OneHand DEF RedactCustomer
  <2>4. RowTypes'
    BY <1>6 DEF RedactCustomer, WriteCustomer, OwnTypes, RowTypes
  <2> QED BY <1>6, <2>1, <2>3, <2>4, OneRun DEF RedactCustomer, OwnTypes
<1>7. CASE RedactProfiles(h)
  <2>1. Only(h, "forget") /\ OnlyHand(h) /\ hand'[h] = hand[h] /\ at[h] = "unlink"
    BY <1>7, MovesOnly, KeepsHand DEF RedactProfiles, OwnTypes
  <2>2. HandOK(h)'
    BY <1>0, <2>1 DEF HandOK, Only
  <2>3. HandTypes'
    BY <1>7, <2>1, <2>2, OneHand DEF RedactProfiles
  <2>4. RowTypes'
    BY <1>7 DEF RedactProfiles, NoProfile, OwnTypes, RowTypes, Consent
  <2> QED BY <1>7, <2>1, <2>3, <2>4, OneRun DEF RedactProfiles, OwnTypes
<1>8. CASE RedactActions(h)
  <2>1. Only(h, "idle") /\ OnlyHand(h) /\ hand'[h] = Nothing /\ at[h] = "forget"
    BY <1>8, EndOnly, TakesOnly DEF RedactActions, Quit, OwnTypes
  <2>2. HandOK(h)'
    BY <2>1 DEF HandOK, Only, Nothing
  <2>3. HandTypes'
    BY <1>8, <2>1, <2>2, OneHand DEF RedactActions
  <2>4. RowTypes'
    BY <1>8 DEF RedactActions, OwnTypes, RowTypes
  <2> QED BY <1>8, <2>1, <2>3, <2>4, OneRun DEF RedactActions, OwnTypes
<1> QED BY <1>1, <1>2, <1>3, <1>4, <1>5, <1>6, <1>7, <1>8

LEMMA VisitStepTypes ==
    ASSUME TokenTypes, OwnTypes, NEW h \in Handlers,
           ReadProfile(h) \/ LookUpCustomer(h) \/ UpsertProfile(h)
    PROVE  OwnTypes'
<1> USE DEF consents, engine, sent, Client, ClientPoints, Mailing, Running, Counts
<1>0. HandOK(h)
  BY DEF OwnTypes, HandTypes
<1>1. CASE ReadProfile(h)
  <2> DEFINE p == IF hand[h].id = "none" THEN "upsert" ELSE "lookup"
             x == [of |-> hand[h].of, id |-> hand[h].id, link |-> profile[hand[h].of].link,
                   consent |-> profile[hand[h].of].consent, own |-> TRUE]
  <2>1. Only(h, p) /\ OnlyHand(h) /\ hand'[h] = x /\ at[h] = "profile"
    BY <1>1, MovesOnly, TakesOnly DEF ReadProfile, OwnTypes
  <2>2. hand[h] \in Visit
    BY <1>0, <2>1 DEF HandOK
  <2>3. x \in Snapshot /\ x.id = hand[h].id /\ x.own /\ x.of # "mail"
    BY <2>2, MarketingAssumption DEF Visit, Snapshot, OwnTypes, RowTypes
  <2> HIDE DEF x
  <2>4. HandOK(h)'
    BY <2>1, <2>3 DEF HandOK, Only
  <2>5. HandTypes'
    BY <1>1, <2>1, <2>4, OneHand DEF ReadProfile
  <2> QED BY <1>1, <2>1, <2>5, OneRun DEF ReadProfile, OwnTypes, RowTypes
<1>2. CASE LookUpCustomer(h)
  <2>1. hand[h] \in Snapshot /\ hand[h].id \in Customers /\ at[h] = "lookup"
    BY <1>0, <1>2 DEF LookUpCustomer, HandOK, Snapshot
  <2>2. customer[hand[h].id] \in {"none", "yes", "no"}
    BY <2>1 DEF OwnTypes, RowTypes
  <2>3. Only(h, "upsert") /\ OnlyHand(h) /\ hand'[h] \in Snapshot
    <3>1. Only(h, "upsert") /\ OnlyHand(h)
      BY <1>2, MovesOnly DEF LookUpCustomer, OwnTypes, HandTypes, OnlyHand
    <3>2. hand'[h] \in Snapshot
      BY <1>2, <2>1, <2>2 DEF LookUpCustomer, Snapshot, OwnTypes, HandTypes, Consent
    <3> QED BY <3>1, <3>2
  <2>4. HandOK(h)'
    BY <2>3, MarketingAssumption DEF HandOK, Only, Snapshot
  <2>5. HandTypes'
    BY <1>2, <2>3, <2>4, OneHand DEF LookUpCustomer
  <2> QED BY <1>2, <2>1, <2>3, <2>5, OneRun DEF LookUpCustomer, OwnTypes, RowTypes
<1>3. CASE UpsertProfile(h)
  <2>1. Only(h, "idle") /\ OnlyHand(h) /\ hand'[h] = Nothing /\ at[h] = "upsert"
    BY <1>3, EndOnly, TakesOnly DEF UpsertProfile, OwnTypes
  <2>2. HandOK(h)'
    BY <2>1 DEF HandOK, Only, Nothing
  <2>3. HandTypes'
    BY <1>3, <2>1, <2>2, OneHand DEF UpsertProfile
  <2>4. hand[h] \in Snapshot
    BY <1>0, <2>1 DEF HandOK
  <2>5. RowTypes'
    BY <1>3, <2>4 DEF UpsertProfile, Snapshot, OwnTypes, RowTypes, Consent
  <2> QED BY <1>3, <2>1, <2>3, <2>5, OneRun DEF UpsertProfile, OwnTypes
<1> QED BY <1>1, <1>2, <1>3

LEMMA EngineStepTypes ==
    ASSUME TokenTypes, OwnTypes, NEW h \in Handlers,
           \/ BuildCandidate(h) \/ Judge(h) \/ SubscribeRecipient(h) \/ ScheduleCampaign(h)
           \/ RecordSent(h) \/ RecordFailed(h)
    PROVE  OwnTypes'
<1> USE DEF consents, engine, sent, Client, ClientPoints, Mailing, Running, Counts
<1>0. HandOK(h) /\ scheduled \in Nat
  BY DEF OwnTypes, HandTypes, RowTypes
<1>1. CASE BuildCandidate(h)
  <2>1. PICK i \in todo[h] :
            /\ todo' = [todo EXCEPT ![h] = @ \ {i}]
            /\ \/ /\ Allowed(i[1], i[2])
                  /\ cands' = [cands EXCEPT ![h] = @ \cup {<<i[1], i[2], profile[i[1]].link>>}]
               \/ UNCHANGED cands
            /\ Moves(h, IF todo[h] = {i} THEN "judge" ELSE "build")
    BY <1>1 DEF BuildCandidate
  <2> DEFINE p == IF todo[h] = {i} THEN "judge" ELSE "build"
  <2>2. Only(h, p) /\ OnlyHand(h) /\ hand'[h] = hand[h] /\ at[h] = "build"
    BY <1>1, <2>1, MovesOnly, KeepsHand DEF BuildCandidate, OwnTypes
  <2>3. HandOK(h)'
    BY <1>0, <2>2 DEF HandOK, Only
  <2>4. HandTypes'
    BY <1>1, <2>2, <2>3, OneHand DEF BuildCandidate
  <2>5. i[1] \in Visitors /\ i[2] \in Products
    BY DEF OwnTypes, EngineTypes, Interests
  <2>6. Allowed(i[1], i[2]) => profile[i[1]].link \in Customers
    BY <2>5 DEF OwnTypes, RowTypes, Allowed
  <2>7. cands' \in [Handlers -> SUBSET (Visitors \X Products \X Customers)]
        /\ \A g \in Handlers \ {h} : cands'[g] = cands[g]
    BY <2>1, <2>5, <2>6 DEF OwnTypes, EngineTypes
  <2>8. todo' \in [Handlers -> SUBSET Interests] /\ todo'[h] = todo[h] \ {i}
        /\ \A g \in Handlers \ {h} : todo'[g] = todo[g]
    BY <2>1 DEF OwnTypes, EngineTypes
  <2>9. EngineTypes'
    BY <2>2, <2>7, <2>8 DEF OwnTypes, EngineTypes, Only
  <2> QED BY <1>1, <2>4, <2>9 DEF BuildCandidate, OwnTypes, RowTypes
<1>2. CASE Judge(h) /\ cands[h] = {}
  <2>1. Only(h, "idle") /\ OnlyHand(h) /\ hand'[h] = hand[h] /\ at[h] = "judge"
    BY <1>2, EndOnly, KeepsHand DEF Judge, OwnTypes
  <2>2. HandOK(h)'
    BY <1>0, <2>1 DEF HandOK, Only
  <2>3. HandTypes'
    BY <1>2, <2>1, <2>2, OneHand DEF Judge
  <2>4. EngineTypes'
    BY <1>2, <2>1 DEF Judge, OwnTypes, EngineTypes, Only
  <2> QED BY <1>2, <2>3, <2>4 DEF Judge, OwnTypes, RowTypes
<1>3. CASE Judge(h) /\ cands[h] # {}
  <2>1. PICK x \in cands[h] :
            /\ cands' = [cands EXCEPT ![h] = @ \ {x}]
            /\ \/ Takes(h, [of |-> "mail", visitor |-> x[1], product |-> x[2], to |-> x[3],
                              campaign |-> 0])
                  /\ Moves(h, "contact")
               \/ Moves(h, "judge") /\ UNCHANGED hand
    BY <1>3 DEF Judge
  <2>2. x[1] \in Visitors /\ x[2] \in Products /\ x[3] \in Customers
    BY DEF OwnTypes, EngineTypes
  <2>3. at[h] = "judge" /\ UNCHANGED <<todo, scheduled>>
    BY <1>3 DEF Judge
  <2>4. cands' \in [Handlers -> SUBSET (Visitors \X Products \X Customers)]
        /\ \A g \in Handlers \ {h} : cands'[g] = cands[g]
    BY <2>1 DEF OwnTypes, EngineTypes
  <2>5. CASE Moves(h, "judge") /\ UNCHANGED hand
    <3>1. Only(h, "judge") /\ OnlyHand(h) /\ hand'[h] = hand[h]
      BY <2>5, MovesOnly, KeepsHand DEF OwnTypes
    <3>2. HandOK(h)'
      BY <1>0, <2>3, <3>1 DEF HandOK, Only
    <3>3. HandTypes'
      BY <2>3, <3>1, <3>2, OneHand
    <3>4. EngineTypes'
      BY <2>3, <2>4, <3>1 DEF OwnTypes, EngineTypes, Only
    <3> QED BY <1>3, <3>3, <3>4 DEF Judge, OwnTypes, RowTypes
  <2>6. CASE Moves(h, "contact") /\ Takes(h, [of |-> "mail", visitor |-> x[1], product |-> x[2],
                                               to |-> x[3], campaign |-> 0])
    <3>1. Only(h, "contact") /\ OnlyHand(h)
          /\ hand'[h] = [of |-> "mail", visitor |-> x[1], product |-> x[2], to |-> x[3],
                         campaign |-> 0]
      BY <2>6, MovesOnly, TakesOnly DEF OwnTypes
    <3>2. hand'[h] \in Mail
      BY <2>2, <3>1, MarketingAssumption DEF Mail
    <3>3. HandOK(h)'
      BY <3>1, <3>2 DEF HandOK, Only
    <3>4. HandTypes'
      BY <2>3, <3>1, <3>3, OneHand
    <3>5. EngineTypes'
      BY <2>3, <2>4, <3>1 DEF OwnTypes, EngineTypes, Only
    <3> QED BY <1>3, <3>4, <3>5 DEF Judge, OwnTypes, RowTypes
  <2> QED BY <2>1, <2>5, <2>6
<1>4. CASE SubscribeRecipient(h)
  <2>1. at[h] = "contact" /\ hand[h] \in Mail
    BY <1>0, <1>4 DEF SubscribeRecipient, HandOK
  <2>2. \/ Only(h, "campaign") /\ OnlyHand(h) /\ hand'[h] = hand[h]
        \/ Only(h, "judge") /\ OnlyHand(h) /\ hand'[h] = Nothing
    BY <1>4, MovesOnly, KeepsHand, TakesOnly DEF SubscribeRecipient, OwnTypes
  <2>3. HandOK(h)'
    BY <1>0, <2>1, <2>2 DEF HandOK, Only, Nothing
  <2>4. HandTypes'
    BY <1>4, <2>2, <2>3, OneHand DEF SubscribeRecipient
  <2>5. EngineTypes'
    BY <1>4, <2>1, <2>2 DEF SubscribeRecipient, OwnTypes, EngineTypes, Only
  <2>6. RowTypes'
    BY <1>4, <2>1 DEF SubscribeRecipient, Mail, OwnTypes, RowTypes
  <2> QED BY <2>4, <2>5, <2>6 DEF OwnTypes
<1>5. CASE ScheduleCampaign(h) /\ subs = {}
  <2>1. Only(h, "judge") /\ OnlyHand(h) /\ hand'[h] = Nothing /\ at[h] = "campaign"
    BY <1>5, MovesOnly, TakesOnly DEF ScheduleCampaign, OwnTypes
  <2>2. HandOK(h)'
    BY <2>1 DEF HandOK, Only, Nothing
  <2>3. HandTypes'
    BY <1>5, <2>1, <2>2, OneHand DEF ScheduleCampaign
  <2>4. EngineTypes'
    BY <1>5, <2>1 DEF ScheduleCampaign, OwnTypes, EngineTypes, Only
  <2> QED BY <1>5, <2>3, <2>4 DEF ScheduleCampaign, OwnTypes, RowTypes
<1>6. CASE ScheduleCampaign(h) /\ subs # {}
  <2>1. at[h] = "campaign" /\ hand[h] \in Mail
    BY <1>0, <1>6 DEF ScheduleCampaign, HandOK
  <2>2. scheduled' = scheduled + 1 /\ scheduled' \in 1..MaxMails
    BY <1>0, <1>6, MarketingAssumption DEF ScheduleCampaign
  <2>3. Only(h, "record") /\ OnlyHand(h)
    BY <1>6, MovesOnly DEF ScheduleCampaign, OwnTypes, HandTypes, OnlyHand
  <2>4. hand'[h] = [hand[h] EXCEPT !.campaign = scheduled']
    BY <1>6, <2>2 DEF ScheduleCampaign, OwnTypes, HandTypes
  <2>5. hand'[h] \in Mail /\ hand'[h].campaign = scheduled'
    BY <2>1, <2>2, <2>4 DEF Mail
  <2>6. HandOK(h)'
    BY <2>2, <2>3, <2>5 DEF HandOK, Only
  <2>7. HandTypes'
    BY <2>2, <2>3, <2>6, OneHand
  <2>8. EngineTypes'
    BY <1>6, <2>1, <2>3 DEF ScheduleCampaign, OwnTypes, EngineTypes, Only
  <2>9. mails' \in [Interests -> Int] /\ weekly' \in [Visitors -> Int]
    <3>1. <<hand[h].visitor, hand[h].product>> \in Interests /\ hand[h].visitor \in Visitors
      BY <2>1 DEF Mail, Interests
    <3>2. /\ mails' = [mails EXCEPT ![<<hand[h].visitor, hand[h].product>>] = @ + 1]
          /\ weekly' = [weekly EXCEPT ![hand[h].visitor] = @ + 1]
      BY <1>6 DEF ScheduleCampaign
    <3> QED BY <3>1, <3>2 DEF OwnTypes, RowTypes
  <2> QED BY <1>6, <2>2, <2>7, <2>8, <2>9 DEF ScheduleCampaign, OwnTypes, RowTypes
<1>7. CASE RecordSent(h) \/ RecordFailed(h)
  <2>1. Only(h, "judge") /\ OnlyHand(h) /\ hand'[h] = Nothing /\ at[h] = "record"
    BY <1>7, MovesOnly, TakesOnly DEF RecordSent, RecordFailed, OwnTypes
  <2>2. HandOK(h)'
    BY <2>1 DEF HandOK, Only, Nothing
  <2>3. HandTypes'
    BY <1>7, <2>1, <2>2, OneHand DEF RecordSent, RecordFailed
  <2>4. EngineTypes'
    BY <1>7, <2>1 DEF RecordSent, RecordFailed, OwnTypes, EngineTypes, Only
  <2>5. hand[h] \in Mail /\ hand[h].campaign \in 1..scheduled
    BY <1>0, <2>1 DEF HandOK
  <2>6. Row(hand[h]) \in Action
    <3>1. hand[h].campaign \in 1..MaxMails
      BY <1>0, <2>5, MarketingAssumption DEF OwnTypes, RowTypes
    <3> QED BY <2>5, <3>1 DEF Mail, Row, Action
  <2> QED BY <1>7, <2>3, <2>4, <2>6 DEF RecordSent, RecordFailed, OwnTypes, RowTypes
<1> QED BY <1>1, <1>2, <1>3, <1>4, <1>5, <1>6, <1>7 DEF ScheduleCampaign

\* Handlers that end before their time leave nothing; the others stay, or move among
\* their calls to get a client.
Retreat == (\A g \in Handlers : Goes(g)) /\ Left(Ending)

LEMMA FailsRetreat ==
    ASSUME TokenTypes, NEW h \in Handlers, HandlerFails(h)
    PROVE  Retreat
<1>1. \A g \in Handlers : Goes(g)
  BY DEF HandlerFails, End, Goes
<1>2. Ending = {h}
  BY DEF HandlerFails, End, Ending, OwnPoints
<1> QED BY <1>1, <1>2 DEF HandlerFails, Retreat

LEMMA TokenStepRetreat ==
    ASSUME TokenTypes, TokenStep
    PROVE  Retreat
BY TokenStepGoes DEF TokenStep, Retreat

LEMMA RetreatTypes ==
    ASSUME TokenTypes, OwnTypes, Retreat
    PROVE  OwnTypes'
<1>1. \A g \in Handlers : hand'[g] = IF g \in Ending THEN Nothing ELSE hand[g]
  BY DEF Retreat, Left
<1>2. \A g \in Ending : at'[g] = "idle"
  BY DEF Ending
<1>3. ASSUME NEW g \in Handlers PROVE HandOK(g)'
  <2>1. CASE g \in Ending
    BY <1>1, <1>2, <2>1 DEF HandOK, Nothing, Client, ClientPoints, Mailing
  <2>2. CASE g \notin Ending
    <3>1. hand'[g] = hand[g] /\ HandOK(g) /\ goal[g] \in Goals /\ scheduled' = scheduled
      BY <1>1, <2>2 DEF OwnTypes, HandTypes, TokenTypes, Retreat, Left
    <3>2. CASE at'[g] = at[g] /\ goal'[g] = goal[g]
      BY <3>1, <3>2 DEF HandOK
    <3>3. CASE at[g] \in {"idle"} \cup Client /\ at'[g] \in Client
               /\ (goal'[g] = "idle" \/ (at[g] \in Client /\ goal'[g] = goal[g]))
      BY <3>1, <3>3 DEF HandOK, Client, ClientPoints, Mailing
    <3>4. CASE at[g] \in Client /\ at'[g] = goal[g] /\ goal[g] # "idle"
      BY <3>1, <3>4 DEF HandOK, Client, ClientPoints, Mailing, Goals
    <3>5. CASE at'[g] = "idle" /\ at[g] = "idle"
      BY <3>1, <3>5 DEF HandOK, Client, ClientPoints, Mailing
    <3>6. at'[g] = "idle" => at[g] = "idle"
      BY <2>2 DEF Ending
    <3>7. Goes(g)
      BY DEF Retreat
    <3> QED BY <3>2, <3>3, <3>4, <3>5, <3>6, <3>7 DEF Goes
  <2> QED BY <2>1, <2>2
<1>4. DOMAIN hand' = Handlers
  BY DEF Retreat, Left
<1>5. EngineTypes'
  <2>1. \A g \in Handlers : /\ todo'[g] = IF g \in Ending THEN {} ELSE todo[g]
                            /\ cands'[g] = IF g \in Ending THEN {} ELSE cands[g]
    BY DEF Retreat, Left
  <2>2. todo' \in [Handlers -> SUBSET Interests]
        /\ cands' \in [Handlers -> SUBSET (Visitors \X Products \X Customers)]
    BY DEF Retreat, Left, OwnTypes, EngineTypes
  <2>3. ASSUME NEW g \in Handlers \ Ending, at[g] \in Running PROVE at'[g] = at[g]
    BY <2>3 DEF Retreat, Goes, Ending, Running, Mailing, Client, ClientPoints
  <2>4. ASSUME NEW g \in Handlers \ Ending, todo[g] # {} PROVE at'[g] = "build"
    BY <2>3, <2>4 DEF OwnTypes, EngineTypes, Running
  <2>5. ASSUME NEW g \in Handlers \ Ending, cands[g] # {} PROVE at'[g] \in Running
    BY <2>3, <2>5 DEF OwnTypes, EngineTypes
  <2> QED BY <2>1, <2>2, <2>4, <2>5 DEF EngineTypes
<1>6. RowTypes'
  BY DEF Retreat, Left, OwnTypes, RowTypes
<1> QED BY <1>3, <1>4, <1>5, <1>6 DEF OwnTypes, HandTypes

\* Steps at which no handler moves.
Outside ==
    \/ \E c \in Customers : Unsubscribe(c)
    \/ \E x \in cooling : CooldownEnds(x)
    \/ \E x \in actions : WeekEnds(x)
    \/ UNCHANGED vars

LEMMA OutsideKeeps ==
    ASSUME Outside
    PROVE  UNCHANGED <<at, goal, hand, todo, cands, scheduled, customer, profile, late, stale, moved>>
BY DEF Outside, Unsubscribe, CooldownEnds, WeekEnds, tokenVars, handler, consents, engine, vars,
       ownVars, sent

LEMMA OutsideTypes == ASSUME OwnTypes, Outside PROVE OwnTypes'
<1>1. HandTypes' /\ EngineTypes'
  BY OutsideKeeps DEF OwnTypes, HandTypes, HandOK, EngineTypes
<1>2. RowTypes'
  <2>1. ASSUME NEW c \in Customers, Unsubscribe(c) PROVE RowTypes'
    BY <2>1 DEF Unsubscribe, OwnTypes, RowTypes, consents, engine
  <2>2. ASSUME NEW x \in cooling, CooldownEnds(x) PROVE RowTypes'
    <3>1. x.visitor \in Visitors /\ x.product \in Products
      BY DEF OwnTypes, RowTypes, Action
    <3> QED BY <2>2, <3>1 DEF CooldownEnds, OwnTypes, RowTypes, consents, engine, Interests
  <2>3. ASSUME NEW x \in actions, WeekEnds(x) PROVE RowTypes'
    <3>1. x.visitor \in Visitors
      BY DEF OwnTypes, RowTypes, Action
    <3> QED BY <2>3, <3>1 DEF WeekEnds, OwnTypes, RowTypes, consents, engine
  <2>4. ASSUME UNCHANGED vars PROVE RowTypes'
    BY <2>4 DEF vars, ownVars, consents, engine, sent, OwnTypes, RowTypes
  <2> QED BY <2>1, <2>2, <2>3, <2>4 DEF Outside
<1> QED BY <1>1, <1>2 DEF OwnTypes

Typed == TokensInv /\ OwnTypes

\* The steps, as the invariants take them apart.
LEMMA StepCases ==
    ASSUME TokenTypes, [Next]_vars
    PROVE  \/ Retreat
           \/ Outside
           \/ \E h \in Handlers :
                 \/ CustomerWebhook(h) \/ SyncCustomers(h) \/ Redact(h) \/ Event(h) \/ Evaluate(h)
                 \/ HandlerStep(h) \/ RecordFailed(h)
<1>1. CASE TokenStep
  BY <1>1, TokenStepRetreat
<1>2. ASSUME NEW h \in Handlers, HandlerFails(h) PROVE Retreat
  BY <1>2, FailsRetreat
<1> QED BY <1>1, <1>2 DEF Next, OwnStep, Asks, Outside

LEMMA InitTyped == Init => Typed
<1> SUFFICES ASSUME Init PROVE Typed
  OBVIOUS
<1>1. HandTypes
  BY DEF Init, TokenInit, HandTypes, HandOK, Nothing, Client, ClientPoints, Mailing
<1>2. EngineTypes
  BY DEF Init, EngineTypes
<1>3. customer \in [Customers -> {"none", "yes", "no"}]
      /\ profile \in [Visitors -> [link : Customers \cup {"none"}, consent : Consent]]
  BY DEF Init, NoProfile, Consent
<1>4. RowTypes
  BY <1>3, MarketingAssumption DEF Init, RowTypes
<1> QED BY <1>1, <1>2, <1>4, InitTokens DEF Typed, OwnTypes

LEMMA NextTyped == Typed /\ [Next]_vars => Typed'
<1> SUFFICES ASSUME Typed, [Next]_vars PROVE Typed'
  OBVIOUS
<1>1. TokenTypes /\ OwnTypes
  BY DEF Typed, TokensInv
<1>2. OwnTypes'
  BY <1>1, StepCases, RetreatTypes, OutsideTypes, AskTypes, CustomerStepTypes, VisitStepTypes,
     EngineStepTypes DEF HandlerStep
<1> QED BY <1>2, NextTokens DEF Typed

LEMMA AlwaysTyped == Spec => []Typed
BY InitTyped, NextTyped, PTL DEF Spec

\* Rows, profiles, actions and candidates have their types, and who waits for a refresh
\* of its process waits for another handler's.
THEOREM TypesHold == Spec => []TypeOK
<1>1. ASSUME Typed PROVE TypeOK
  <2>1. ASSUME NEW h \in Handlers, at[h] = "wait" PROVE lock[Home(h)] \in Handlers \ {h}
    BY <1>1, <2>1, HomeType DEF Typed, TokensInv, TokenTypes, LockOK, Refreshing
  <2> QED BY <1>1, <2>1 DEF Typed, TokensInv, TokenTypes, OwnTypes, EngineTypes, RowTypes, TypeOK,
             Points
<1> QED BY <1>1, AlwaysTyped, PTL

-----------------------------------------------------------------------------
(***************************************************************************)
(* Consent.                                                                *)
(***************************************************************************)

\* Whose change of c is still to reach the profiles.
Unlinking(c) == \E h \in Handlers : at[h] = "unlink" /\ hand[h].of = c
Spreading(c) == \E h \in Handlers : at[h] \in {"find", "spread"} /\ hand[h].of = c

\* A profile has its customer's consent, or a handler will bring it: the redaction that
\* deleted the customer, or a webhook that finds a customer.
Matches(v, c) == profile[v].consent = IF customer[c] = "none" THEN "null" ELSE customer[c]
Follows(v, c) ==
    profile[v].link = c =>
        Matches(v, c) \/ Unlinking(c) \/ (customer[c] # "none" /\ Spreading(c))

\* What a handler read still holds, unless it is late.
CopyHolds(h) ==
    h \notin late =>
        /\ at[h] = "spread" => customer[hand[h].of] = hand[h].consent
        /\ at[h] = "lookup" \/ (at[h] = "upsert" /\ hand[h].id = "none") =>
              /\ profile[hand[h].of].link = hand[h].link
              /\ profile[hand[h].of].consent = hand[h].consent
              /\ hand[h].own
        /\ at[h] = "upsert" /\ hand[h].id # "none" /\ hand[h].own =>
              IF customer[hand[h].id] = "none"
              THEN hand[h].consent = "null" /\ profile[hand[h].of].consent = "null"
              ELSE hand[h].consent = customer[hand[h].id]

Followed ==
    /\ \A v \in Visitors \ stale : \A c \in Customers : Follows(v, c)
    /\ \A h \in Handlers : CopyHolds(h)

\* Points at which what a handler holds matters to profiles.
CopyPoints == {"find", "spread", "unlink", "lookup", "upsert"}

LEMMA OthersBring ==
    ASSUME NEW h \in Handlers, NEW p, Only(h, p), OnlyHand(h), NEW c, at[h] \notin CopyPoints
    PROVE  (Unlinking(c) => Unlinking(c)') /\ (Spreading(c) => Spreading(c)')
BY DEF Only, OnlyHand, Unlinking, Spreading, CopyPoints

\* A step of a handler that has nothing to do with profiles.
LEMMA ApartFollowed ==
    ASSUME Followed, NEW h \in Handlers, NEW p, Only(h, p), OnlyHand(h), at[h] \notin CopyPoints,
           p \notin CopyPoints, UNCHANGED <<customer, profile, stale>>, late \ {h} \subseteq late'
    PROVE  Followed'
<1>1. \A v \in Visitors \ stale : \A c \in Customers : Follows(v, c)'
  BY OthersBring DEF Followed, Follows, Matches
<1>2. ASSUME NEW g \in Handlers PROVE CopyHolds(g)'
  BY DEF Followed, CopyHolds, Only, OnlyHand, CopyPoints
<1> QED BY <1>1, <1>2 DEF Followed

LEMMA AskFollowed ==
    ASSUME Typed, Followed, NEW h \in Handlers,
           CustomerWebhook(h) \/ SyncCustomers(h) \/ Redact(h) \/ Event(h) \/ Evaluate(h)
    PROVE  Followed'
<1>1. \E p : Only(h, p) /\ p \notin CopyPoints /\ at[h] = "idle"
  BY BeginsOnly DEF Typed, TokensInv, CustomerWebhook, SyncCustomers, Redact, Event, Evaluate,
     CopyPoints
<1>2. OnlyHand(h)
  BY TakesOnly, KeepsHand DEF Typed, OwnTypes, CustomerWebhook, SyncCustomers, Redact, Event,
     Evaluate
<1>3. UNCHANGED <<customer, profile, stale, late>>
  BY DEF CustomerWebhook, SyncCustomers, Redact, Event, Evaluate, consents
<1> QED BY <1>1, <1>2, <1>3, ApartFollowed DEF CopyPoints

LEMMA EngineFollowed ==
    ASSUME Typed, Followed, NEW h \in Handlers,
           \/ BuildCandidate(h) \/ Judge(h) \/ SubscribeRecipient(h) \/ ScheduleCampaign(h)
           \/ RecordSent(h) \/ RecordFailed(h)
    PROVE  Followed'
<1>1. \E p : Only(h, p) /\ p \notin CopyPoints
  <2>1. \/ End({h})
        \/ Moves(h, "build") \/ Moves(h, "judge") \/ Moves(h, "contact") \/ Moves(h, "campaign")
        \/ Moves(h, "record")
    BY DEF BuildCandidate, Judge, SubscribeRecipient, ScheduleCampaign, RecordSent, RecordFailed
  <2> QED BY <2>1, MovesOnly, EndOnly DEF Typed, TokensInv, CopyPoints
<1>2. at[h] \notin CopyPoints
  BY DEF BuildCandidate, Judge, SubscribeRecipient, ScheduleCampaign, RecordSent, RecordFailed,
     CopyPoints
<1>3. OnlyHand(h)
  BY TakesOnly, KeepsHand DEF Typed, OwnTypes, HandTypes, OnlyHand, BuildCandidate, Judge,
     SubscribeRecipient, ScheduleCampaign, RecordSent, RecordFailed
<1>4. UNCHANGED <<customer, profile, stale, late>>
  BY DEF BuildCandidate, Judge, SubscribeRecipient, ScheduleCampaign, RecordSent, RecordFailed,
     consents
<1> QED BY <1>1, <1>2, <1>3, <1>4, ApartFollowed

\* A row is written: whoever holds a copy of it is late, unless nothing changed.
LEMMA WriteCopies ==
    ASSUME Typed, Followed, NEW h \in Handlers, NEW p, Only(h, p), OnlyHand(h),
           p \notin {"spread", "lookup", "upsert"}, NEW c \in Customers, NEW b,
           WriteCustomer(h, c, b), UNCHANGED profile, NEW g \in Handlers
    PROVE  CopyHolds(g)'
<1>1. \A d \in Customers : customer'[d] = IF d = c THEN b ELSE customer[d]
  BY DEF WriteCustomer, Typed, OwnTypes, RowTypes
<1>2. CASE g = h
  BY <1>2 DEF CopyHolds, Only
<1>3. CASE g # h
  <2>1. at'[g] = at[g] /\ hand'[g] = hand[g] /\ CopyHolds(g) /\ HandOK(g)
    BY <1>3 DEF Only, OnlyHand, Followed, Typed, OwnTypes, HandTypes
  <2>2. g \notin late' => g \notin late /\ (b = customer[c] \/ ~HoldsCustomer(g, c))
    BY <1>3 DEF WriteCustomer
  <2>3. at[g] = "spread" => hand[g].of \in Customers
    BY <2>1 DEF HandOK, Change
  <2>4. at[g] = "upsert" => hand[g].id \in Customers \cup {"none"}
    BY <2>1 DEF HandOK, Snapshot
  <2> QED BY <1>1, <2>1, <2>2, <2>3, <2>4 DEF CopyHolds, HoldsCustomer
<1> QED BY <1>2, <1>3

\* Profiles are written: whoever holds a copy of one that changed is late.
LEMMA WriteProfiles ==
    ASSUME Typed, Followed, NEW g \in Handlers, at'[g] = at[g], hand'[g] = hand[g],
           UNCHANGED customer, g \notin late' => g \notin late,
           g \notin late' /\ at[g] \in {"lookup", "upsert"} =>
                profile'[hand[g].of] = profile[hand[g].of]
    PROVE  CopyHolds(g)'
BY DEF Followed, CopyHolds

LEMMA CustomerStepFollowed ==
    ASSUME Typed, Followed, NEW h \in Handlers,
           \/ UpsertCustomer(h) \/ FindCustomer(h) \/ Spread(h) \/ SyncRow(h)
           \/ RedactCustomer(h) \/ RedactProfiles(h) \/ RedactActions(h)
    PROVE  Followed'
<1> USE DEF Counts
<1>0. TokenTypes /\ HandTypes /\ HandOK(h)
  BY DEF Typed, TokensInv, OwnTypes, HandTypes
<1>1. CASE UpsertCustomer(h)
  <2> DEFINE d == hand[h].of
  <2>1. Only(h, "find") /\ OnlyHand(h) /\ hand'[h] = hand[h] /\ at[h] = "customer"
    BY <1>0, <1>1, MovesOnly, KeepsHand DEF UpsertCustomer
  <2>2. d \in Customers /\ hand[h].consent \in {"yes", "no"}
    BY <1>0, <2>1 DEF HandOK, Change
  <2>3. WriteCustomer(h, d, hand[h].consent) /\ UNCHANGED <<profile, stale>>
    BY <1>1 DEF UpsertCustomer
  <2>4. \A g \in Handlers : CopyHolds(g)'
    BY <2>1, <2>2, <2>3, WriteCopies
  <2>5. \A c \in Customers : customer'[c] = IF c = d THEN hand[h].consent ELSE customer[c]
    BY <2>3 DEF WriteCustomer, Typed, OwnTypes, RowTypes
  <2>6. ASSUME NEW v \in Visitors \ stale, NEW c \in Customers PROVE Follows(v, c)'
    <3>1. CASE c = d
      <4>1. Spreading(c)'
        BY <2>1, <3>1 DEF Spreading, Only
      <4> QED BY <2>2, <2>5, <3>1, <4>1 DEF Follows
    <3>2. CASE c # d
      BY <2>1, <2>3, <2>5, <3>2, OthersBring DEF Followed, Follows, Matches, CopyPoints
    <3> QED BY <3>1, <3>2
  <2> QED BY <2>3, <2>4, <2>6 DEF Followed
<1>2. CASE FindCustomer(h) /\ customer[hand[h].of] = "none"
  <2> DEFINE d == hand[h].of
  <2>1. Only(h, "idle") /\ OnlyHand(h) /\ at[h] = "find" /\ UNCHANGED <<customer, profile, stale>>
    BY <1>0, <1>2, EndOnly, TakesOnly DEF FindCustomer, Quit
  <2>2. late' = late \ {h}
    BY <1>2 DEF FindCustomer, Quit
  <2>3. ASSUME NEW c \in Customers
        PROVE  (Unlinking(c) => Unlinking(c)') /\ (Spreading(c) /\ c # d => Spreading(c)')
    BY <2>1 DEF Unlinking, Spreading, Only, OnlyHand
  <2>4. ASSUME NEW v \in Visitors \ stale, NEW c \in Customers PROVE Follows(v, c)'
    BY <1>2, <2>1, <2>3 DEF Followed, Follows, Matches
  <2>5. ASSUME NEW g \in Handlers PROVE CopyHolds(g)'
    BY <2>1, <2>2 DEF Followed, CopyHolds, Only, OnlyHand
  <2> QED BY <2>1, <2>4, <2>5 DEF Followed
<1>3. CASE FindCustomer(h) /\ customer[hand[h].of] # "none"
  <2> DEFINE d == hand[h].of
  <2>1. Only(h, "spread") /\ OnlyHand(h) /\ at[h] = "find"
        /\ UNCHANGED <<customer, profile, stale, late>>
        /\ hand'[h] = [hand[h] EXCEPT !.consent = customer[d]]
    BY <1>0, <1>3, MovesOnly DEF FindCustomer, HandTypes, OnlyHand
  <2>2. hand[h] \in Change
    BY <1>0, <2>1 DEF HandOK
  <2>3. hand'[h].of = d /\ hand'[h].consent = customer[d]
    BY <2>1, <2>2 DEF Change
  <2>4. ASSUME NEW c \in Customers
        PROVE  (Unlinking(c) => Unlinking(c)') /\ (Spreading(c) => Spreading(c)')
    BY <2>1, <2>3 DEF Unlinking, Spreading, Only, OnlyHand
  <2>5. ASSUME NEW v \in Visitors \ stale, NEW c \in Customers PROVE Follows(v, c)'
    BY <2>1, <2>4 DEF Followed, Follows, Matches
  <2>6. ASSUME NEW g \in Handlers PROVE CopyHolds(g)'
    <3>1. CASE g = h
      BY <2>1, <2>3, <3>1 DEF CopyHolds, Only
    <3>2. CASE g # h
      BY <2>1, <3>2 DEF Followed, CopyHolds, Only, OnlyHand
    <3> QED BY <3>1, <3>2
  <2> QED BY <2>1, <2>5, <2>6 DEF Followed
<1>4. CASE Spread(h)
  <2> DEFINE d == hand[h].of
             b == hand[h].consent
             changed == {v \in Linked(d) : profile[v].consent # b}
  <2>1. Only(h, "idle") /\ OnlyHand(h) /\ at[h] = "spread" /\ UNCHANGED customer
    BY <1>0, <1>4, EndOnly, TakesOnly DEF Spread
  <2>2. d \in Customers /\ b \in {"yes", "no"}
    BY <1>0, <2>1 DEF HandOK, Change
  <2>3. \A v \in Visitors :
           /\ profile'[v].link = profile[v].link
           /\ profile'[v].consent = IF profile[v].link = d THEN b ELSE profile[v].consent
           /\ v \notin changed => profile'[v] = profile[v]
    BY <1>4, <2>2 DEF Spread, Linked, Typed, OwnTypes, RowTypes
  <2>4. stale' = IF h \in late THEN stale \cup Linked(d) ELSE stale \ Linked(d)
    BY <1>4 DEF Spread
  <2>5. late' = (late \ {h}) \cup {g \in Handlers : HoldsProfile(g, changed)}
    BY <1>4 DEF Spread
  <2>6. h \notin late => customer[d] = b
    BY <2>1 DEF Followed, CopyHolds
  <2>7. ASSUME NEW c \in Customers
        PROVE  (Unlinking(c) => Unlinking(c)') /\ (Spreading(c) /\ c # d => Spreading(c)')
    BY <2>1 DEF Unlinking, Spreading, Only, OnlyHand
  <2>8. ASSUME NEW v \in Visitors \ stale', NEW c \in Customers, profile'[v].link = c
        PROVE  Follows(v, c)'
    <3>1. CASE c = d
      <4>1. h \notin late /\ profile'[v].consent = b
        BY <2>3, <2>4, <2>8, <3>1 DEF Linked
      <4> QED BY <2>1, <2>2, <2>6, <3>1, <4>1 DEF Follows, Matches
    <3>2. CASE c # d
      <4>1. v \notin stale /\ profile'[v].consent = profile[v].consent /\ profile[v].link = c
        BY <2>3, <2>4, <2>8, <3>2 DEF Linked
      <4> QED BY <2>1, <2>7, <3>2, <4>1 DEF Followed, Follows, Matches
    <3> QED BY <3>1, <3>2
  <2>9. ASSUME NEW g \in Handlers PROVE CopyHolds(g)'
    <3>1. CASE g = h
      BY <2>1, <3>1 DEF CopyHolds, Only
    <3>2. CASE g # h
      <4>1. at'[g] = at[g] /\ hand'[g] = hand[g] /\ HandOK(g)
        BY <2>1, <3>2 DEF Only, OnlyHand, Typed, OwnTypes, HandTypes
      <4>2. at[g] \in {"lookup", "upsert"} => hand[g].of \in Visitors
        BY <4>1 DEF HandOK, Snapshot
      <4>3. g \notin late' /\ at[g] \in {"lookup", "upsert"} => hand[g].of \notin changed
        BY <2>5 DEF HoldsProfile
      <4>4. g \notin late' => g \notin late
        BY <2>5, <3>2
      <4> QED BY <2>1, <2>3, <4>1, <4>2, <4>3, <4>4, WriteProfiles
    <3> QED BY <3>1, <3>2
  <2> QED BY <2>8, <2>9 DEF Followed, Follows
<1>5. CASE SyncRow(h)
  <2>1. PICK c \in Customers, b \in {"yes", "no"} :
           /\ WriteCustomer(h, c, b)
           /\ stale' = IF b = customer[c] THEN stale ELSE stale \cup Linked(c)
    BY <1>5 DEF SyncRow
  <2>2. \E p : Only(h, p) /\ p \notin CopyPoints
    BY <1>0, <1>5, MovesOnly, EndOnly DEF SyncRow, CopyPoints
  <2>3. OnlyHand(h) /\ at[h] = "rows" /\ UNCHANGED profile
    BY <1>0, <1>5, KeepsHand DEF SyncRow
  <2>4. \A g \in Handlers : CopyHolds(g)'
    BY <2>1, <2>2, <2>3, WriteCopies DEF CopyPoints
  <2>5. \A d \in Customers : customer'[d] = IF d = c THEN b ELSE customer[d]
    BY <2>1 DEF WriteCustomer, Typed, OwnTypes, RowTypes
  <2>6. ASSUME NEW v \in Visitors \ stale', NEW d \in Customers PROVE Follows(v, d)'
    <3>1. v \notin stale /\ (d # c \/ b = customer[c] \/ profile[v].link # c)
      BY <2>1 DEF Linked
    <3>2. Unlinking(d) => Unlinking(d)'
      BY <2>2, <2>3, OthersBring DEF CopyPoints
    <3>3. Spreading(d) => Spreading(d)'
      BY <2>2, <2>3, OthersBring DEF CopyPoints
    <3> QED BY <2>3, <2>5, <3>1, <3>2, <3>3 DEF Followed, Follows, Matches
  <2> QED BY <2>4, <2>6 DEF Followed
<1>6. CASE RedactCustomer(h)
  <2> DEFINE d == hand[h].of
  <2>1. Only(h, "unlink") /\ OnlyHand(h) /\ hand'[h] = hand[h] /\ at[h] = "redact"
    BY <1>0, <1>6, MovesOnly, KeepsHand DEF RedactCustomer
  <2>2. d \in Customers
    BY <1>0, <2>1 DEF HandOK, Erasure
  <2>3. WriteCustomer(h, d, "none") /\ UNCHANGED <<profile, stale>>
    BY <1>6 DEF RedactCustomer
  <2>4. \A g \in Handlers : CopyHolds(g)'
    BY <2>1, <2>2, <2>3, WriteCopies
  <2>5. \A c \in Customers : customer'[c] = IF c = d THEN "none" ELSE customer[c]
    BY <2>3 DEF WriteCustomer, Typed, OwnTypes, RowTypes
  <2>6. ASSUME NEW v \in Visitors \ stale, NEW c \in Customers PROVE Follows(v, c)'
    <3>1. CASE c = d
      <4>1. Unlinking(c)'
        BY <2>1, <3>1 DEF Unlinking, Only
      <4> QED BY <4>1 DEF Follows
    <3>2. CASE c # d
      BY <2>1, <2>3, <2>5, <3>2, OthersBring DEF Followed, Follows, Matches, CopyPoints
    <3> QED BY <3>1, <3>2
  <2> QED BY <2>3, <2>4, <2>6 DEF Followed
<1>7. CASE RedactProfiles(h)
  <2> DEFINE d == hand[h].of
  <2>1. Only(h, "forget") /\ OnlyHand(h) /\ at[h] = "unlink" /\ UNCHANGED customer
    BY <1>0, <1>7, MovesOnly, KeepsHand DEF RedactProfiles
  <2>2. \A v \in Visitors : profile'[v] = IF profile[v].link = d THEN NoProfile ELSE profile[v]
    BY <1>7 DEF RedactProfiles, Linked
  <2>3. stale' = stale \ Linked(d)
        /\ late' = late \cup {g \in Handlers : HoldsProfile(g, Linked(d))}
    BY <1>7 DEF RedactProfiles
  <2>4. ASSUME NEW c \in Customers
        PROVE  (Unlinking(c) /\ c # d => Unlinking(c)') /\ (Spreading(c) => Spreading(c)')
    BY <2>1 DEF Unlinking, Spreading, Only, OnlyHand
  <2>5. ASSUME NEW v \in Visitors \ stale', NEW c \in Customers, profile'[v].link = c
        PROVE  Follows(v, c)'
    <3>1. profile[v].link # d
      BY <2>2, <2>5, MarketingAssumption DEF NoProfile
    <3>2. profile'[v] = profile[v] /\ v \notin stale /\ c # d
      BY <2>2, <2>3, <2>5, <3>1 DEF Linked
    <3> QED BY <2>1, <2>4, <3>2 DEF Followed, Follows, Matches
  <2>6. ASSUME NEW g \in Handlers PROVE CopyHolds(g)'
    <3>1. CASE g = h
      BY <2>1, <3>1 DEF CopyHolds, Only
    <3>2. CASE g # h
      <4>1. at'[g] = at[g] /\ hand'[g] = hand[g] /\ HandOK(g)
        BY <2>1, <3>2 DEF Only, OnlyHand, Typed, OwnTypes, HandTypes
      <4>2. at[g] \in {"lookup", "upsert"} => hand[g].of \in Visitors
        BY <4>1 DEF HandOK, Snapshot
      <4>3. g \notin late' /\ at[g] \in {"lookup", "upsert"} => hand[g].of \notin Linked(d)
        BY <2>3 DEF HoldsProfile
      <4>4. g \notin late' => g \notin late
        BY <2>3
      <4> QED BY <2>1, <2>2, <4>1, <4>2, <4>3, <4>4, WriteProfiles DEF Linked
    <3> QED BY <3>1, <3>2
  <2> QED BY <2>5, <2>6 DEF Followed, Follows
<1>8. CASE RedactActions(h)
  <2>1. Only(h, "idle") /\ OnlyHand(h) /\ at[h] = "forget"
    BY <1>0, <1>8, EndOnly, TakesOnly DEF RedactActions, Quit
  <2>2. late' = late \ {h} /\ UNCHANGED <<customer, profile, stale>>
    BY <1>8 DEF RedactActions, Quit
  <2> QED BY <2>1, <2>2, ApartFollowed DEF CopyPoints
<1> QED BY <1>1, <1>2, <1>3, <1>4, <1>5, <1>6, <1>7, <1>8

LEMMA VisitStepFollowed ==
    ASSUME Typed, Followed, NEW h \in Handlers,
           ReadProfile(h) \/ LookUpCustomer(h) \/ UpsertProfile(h)
    PROVE  Followed'
<1> USE DEF Counts, consents
<1>0. TokenTypes /\ HandTypes /\ HandOK(h) /\ RowTypes
  BY DEF Typed, TokensInv, OwnTypes, HandTypes
<1>1. CASE ReadProfile(h)
  <2> DEFINE p == IF hand[h].id = "none" THEN "upsert" ELSE "lookup"
             x == [of |-> hand[h].of, id |-> hand[h].id, link |-> profile[hand[h].of].link,
                   consent |-> profile[hand[h].of].consent, own |-> TRUE]
  <2>1. Only(h, p) /\ OnlyHand(h) /\ hand'[h] = x /\ at[h] = "profile"
    BY <1>0, <1>1, MovesOnly, TakesOnly DEF ReadProfile
  <2>2. UNCHANGED <<customer, profile, stale, late>>
    BY <1>1 DEF ReadProfile
  <2>3. ASSUME NEW v \in Visitors \ stale, NEW c \in Customers PROVE Follows(v, c)'
    BY <2>1, <2>2, OthersBring DEF Followed, Follows, Matches, CopyPoints
  <2>4. ASSUME NEW g \in Handlers PROVE CopyHolds(g)'
    <3>1. CASE g = h
      BY <2>1, <2>2, <3>1 DEF CopyHolds, Only
    <3>2. CASE g # h
      BY <2>1, <2>2, <3>2 DEF Followed, CopyHolds, Only, OnlyHand
    <3> QED BY <3>1, <3>2
  <2> QED BY <2>2, <2>3, <2>4 DEF Followed
<1>2. CASE LookUpCustomer(h)
  <2> DEFINE b == customer[hand[h].id]
  <2>1. Only(h, "upsert") /\ OnlyHand(h) /\ at[h] = "lookup"
    BY <1>0, <1>2, MovesOnly DEF LookUpCustomer, HandTypes, OnlyHand
  <2>2. UNCHANGED <<customer, profile, stale, late>>
    BY <1>2 DEF LookUpCustomer
  <2>3. hand[h] \in Snapshot /\ hand[h].id \in Customers
    BY <1>0, <2>1 DEF HandOK, Snapshot
  <2>4. /\ hand'[h].of = hand[h].of /\ hand'[h].id = hand[h].id
        /\ hand'[h].consent = IF b = "none" THEN hand[h].consent ELSE b
        /\ hand'[h].own <=> b # "none" \/ hand[h].consent = "null"
    BY <1>0, <1>2, <2>3 DEF LookUpCustomer, Snapshot, HandTypes
  <2>5. ASSUME NEW v \in Visitors \ stale, NEW c \in Customers PROVE Follows(v, c)'
    <3>1. (Unlinking(c) => Unlinking(c)') /\ (Spreading(c) => Spreading(c)')
      BY <2>1 DEF Unlinking, Spreading, Only, OnlyHand
    <3> QED BY <2>2, <3>1 DEF Followed, Follows, Matches
  <2>6. ASSUME NEW g \in Handlers PROVE CopyHolds(g)'
    <3>1. CASE g = h
      <4>1. h \notin late => profile[hand[h].of].consent = hand[h].consent
        BY <2>1 DEF Followed, CopyHolds
      <4> QED BY <2>1, <2>2, <2>3, <2>4, <3>1, <4>1, MarketingAssumption DEF CopyHolds, Only
    <3>2. CASE g # h
      BY <2>1, <2>2, <3>2 DEF Followed, CopyHolds, Only, OnlyHand
    <3> QED BY <3>1, <3>2
  <2> QED BY <2>2, <2>5, <2>6 DEF Followed
<1>3. CASE UpsertProfile(h)
  <2> DEFINE w == hand[h].of
             x == hand[h]
  <2>1. Only(h, "idle") /\ OnlyHand(h) /\ at[h] = "upsert" /\ UNCHANGED customer
    BY <1>0, <1>3, EndOnly, TakesOnly DEF UpsertProfile
  <2>2. x \in Snapshot /\ w \in Visitors
    BY <1>0, <2>1 DEF HandOK, Snapshot
  <2>3. PICK new :
           /\ new = [link |-> IF x.id # "none" THEN x.id
                              ELSE IF x.link # "none" THEN x.link ELSE profile[w].link,
                     consent |-> IF x.consent = "null" THEN profile[w].consent ELSE x.consent]
           /\ profile' = [profile EXCEPT ![w] = new]
           /\ stale' = IF h \in late \/ ~x.own THEN stale \cup {w}
                       ELSE IF x.id = "none" THEN stale ELSE stale \ {w}
           /\ late' = (late \ {h}) \cup
                      IF new = profile[w] THEN {}
                      ELSE {g \in Handlers \ {h} : HoldsProfile(g, {w})}
    BY <1>3 DEF UpsertProfile
  <2>4. \A v \in Visitors : profile'[v] = IF v = w THEN new ELSE profile[v]
    BY <1>0, <2>2, <2>3 DEF RowTypes
  <2>5. ASSUME NEW c \in Customers
        PROVE  (Unlinking(c) => Unlinking(c)') /\ (Spreading(c) => Spreading(c)')
    BY <2>1 DEF Unlinking, Spreading, Only, OnlyHand
  <2>6. CopyHolds(h)
    BY DEF Followed
  <2>7. ASSUME NEW v \in Visitors \ stale', NEW c \in Customers, profile'[v].link = c
        PROVE  Follows(v, c)'
    <3>1. CASE v # w
      <4>1. v \notin stale /\ profile'[v] = profile[v]
        BY <2>3, <2>4, <2>7, <3>1
      <4> QED BY <2>1, <2>5, <2>7, <4>1 DEF Followed, Follows, Matches
    <3>2. CASE v = w /\ x.id = "none"
      <4>1. h \notin late /\ v \notin stale
        BY <2>3, <2>7, <3>2
      <4>2. profile[w].link = x.link /\ profile[w].consent = x.consent
        BY <2>1, <2>6, <3>2, <4>1 DEF CopyHolds
      <4>3. new.link = profile[w].link /\ new.consent = profile[w].consent
        BY <2>3, <3>2, <4>2
      <4>4. profile'[v].link = profile[v].link /\ profile'[v].consent = profile[v].consent
        BY <2>4, <3>2, <4>3
      <4> QED BY <2>1, <2>5, <2>7, <4>1, <4>4 DEF Followed, Follows, Matches
    <3>3. CASE v = w /\ x.id # "none"
      <4>1. h \notin late /\ x.own
        BY <2>3, <2>7, <3>3
      <4>2. c = x.id /\ new.consent = IF x.consent = "null" THEN profile[w].consent ELSE x.consent
        BY <2>3, <2>4, <2>7, <3>3
      <4>3. IF customer[c] = "none" THEN x.consent = "null" /\ profile[w].consent = "null"
            ELSE x.consent = customer[c]
        BY <2>1, <2>6, <3>3, <4>1, <4>2 DEF CopyHolds
      <4>4. customer[c] \in {"none", "yes", "no"}
        BY <1>0 DEF RowTypes
      <4>5. new.consent = IF customer[c] = "none" THEN "null" ELSE customer[c]
        BY <4>2, <4>3, <4>4
      <4> QED BY <2>1, <2>4, <3>3, <4>5 DEF Follows, Matches
    <3> QED BY <3>1, <3>2, <3>3
  <2>8. ASSUME NEW g \in Handlers PROVE CopyHolds(g)'
    <3>1. CASE g = h
      BY <2>1, <3>1 DEF CopyHolds, Only
    <3>2. CASE g # h
      <4>1. at'[g] = at[g] /\ hand'[g] = hand[g] /\ HandOK(g)
        BY <2>1, <3>2 DEF Only, OnlyHand, Typed, OwnTypes, HandTypes
      <4>2. at[g] \in {"lookup", "upsert"} => hand[g].of \in Visitors
        BY <4>1 DEF HandOK, Snapshot
      <4>3. g \notin late' /\ at[g] \in {"lookup", "upsert"} /\ hand[g].of = w => new = profile[w]
        BY <2>3, <3>2 DEF HoldsProfile
      <4>4. g \notin late' => g \notin late
        BY <2>3, <3>2
      <4> QED BY <2>1, <2>4, <4>1, <4>2, <4>3, <4>4, WriteProfiles
    <3> QED BY <3>1, <3>2
  <2> QED BY <2>7, <2>8 DEF Followed, Follows
<1> QED BY <1>1, <1>2, <1>3

\* Who ends on the way leaves its customer's profiles stale.
LEMMA RetreatFollowed ==
    ASSUME Typed, Followed, Retreat
    PROVE  Followed'
<1>1. /\ UNCHANGED <<customer, profile>>
      /\ late' = late \ Ending
      /\ stale' = stale \cup {v \in Visitors : \E g \in Ending :
                      at[g] \in {"find", "spread", "unlink"} /\ profile[v].link = hand[g].of}
  BY DEF Retreat, Left
<1>2. ASSUME NEW g \in Handlers \ Ending, at[g] \in CopyPoints \/ at'[g] \in CopyPoints
      PROVE  at'[g] = at[g] /\ hand'[g] = hand[g]
  BY <1>2 DEF Retreat, Left, Goes, Ending, CopyPoints, Client, ClientPoints, Goals, Typed,
     TokensInv, TokenTypes
<1>3. ASSUME NEW g \in Ending PROVE at'[g] = "idle"
  BY DEF Ending
<1>4. ASSUME NEW v \in Visitors \ stale', NEW c \in Customers, profile[v].link = c
      PROVE  (Unlinking(c) => Unlinking(c)') /\ (Spreading(c) => Spreading(c)')
  <2>1. ASSUME NEW g \in Handlers, at[g] \in {"find", "spread", "unlink"}, hand[g].of = c
        PROVE  at'[g] = at[g] /\ hand'[g] = hand[g]
    <3>1. g \notin Ending
      BY <1>1, <1>4, <2>1
    <3> QED BY <1>2, <2>1, <3>1 DEF CopyPoints
  <2> QED BY <2>1 DEF Unlinking, Spreading
<1>5. ASSUME NEW v \in Visitors \ stale', NEW c \in Customers PROVE Follows(v, c)'
  BY <1>1, <1>4 DEF Followed, Follows, Matches
<1>6. ASSUME NEW g \in Handlers PROVE CopyHolds(g)'
  <2>1. CASE g \in Ending
    BY <1>3, <2>1 DEF CopyHolds
  <2>2. CASE g \notin Ending /\ at'[g] \in CopyPoints
    BY <1>1, <1>2, <2>2 DEF Followed, CopyHolds
  <2>3. CASE at'[g] \notin CopyPoints
    BY <2>3 DEF CopyHolds, CopyPoints
  <2> QED BY <2>1, <2>2, <2>3
<1> QED BY <1>5, <1>6 DEF Followed

LEMMA OutsideFollowed == ASSUME Followed, Outside PROVE Followed'
BY OutsideKeeps DEF Followed, Follows, CopyHolds, Matches, Unlinking, Spreading

LEMMA InitFollowed == Init => Followed
<1> SUFFICES ASSUME Init PROVE Followed
  OBVIOUS
<1>1. ASSUME NEW v \in Visitors, NEW c \in Customers, profile[v].link = c PROVE Matches(v, c)
  <2>1. CASE profile = [u \in Visitors |-> NoProfile]
    BY <1>1, <2>1, MarketingAssumption DEF NoProfile
  <2>2. CASE customer \in [Customers -> {"none", "yes"}]
             /\ \E f \in [Visitors -> Customers] :
                   profile = [u \in Visitors |-> [link |-> f[u],
                                consent |-> IF customer[f[u]] = "none" THEN "null" ELSE "yes"]]
    <3>1. PICK f \in [Visitors -> Customers] :
                   profile = [u \in Visitors |-> [link |-> f[u],
                                consent |-> IF customer[f[u]] = "none" THEN "null" ELSE "yes"]]
      BY <2>2
    <3>2. f[v] = c /\ profile[v].consent = IF customer[c] = "none" THEN "null" ELSE "yes"
      BY <1>1, <3>1
    <3>3. customer[c] \in {"none", "yes"}
      BY <2>2
    <3> QED BY <3>2, <3>3 DEF Matches
  <2> QED BY <2>1, <2>2 DEF Init
<1>2. \A h \in Handlers : at[h] = "idle"
  BY DEF Init, TokenInit
<1> QED BY <1>1, <1>2 DEF Followed, Follows, CopyHolds

LEMMA NextFollowed == Typed /\ Followed /\ [Next]_vars => Followed'
BY StepCases, RetreatFollowed, OutsideFollowed, AskFollowed, CustomerStepFollowed,
   VisitStepFollowed, EngineFollowed DEF HandlerStep, Typed, TokensInv

\* However webhooks, redactions, syncs, orders and visitors' events run together and stop,
\* a profile has its customer's consent once no webhook or redaction of that customer is
\* under way, but for the profiles that the history calls stale.
THEOREM ConsentFollows == Spec => []ProfileFollowsCustomer
<1>1. ASSUME Followed PROVE ProfileFollowsCustomer
  <2>1. ASSUME NEW c \in Customers, ~Touching(c) PROVE ~Unlinking(c) /\ ~Spreading(c)
    BY <2>1 DEF Touching, Unlinking, Spreading
  <2> QED BY <1>1, <2>1 DEF Followed, Follows, Matches, ProfileFollowsCustomer
<1> QED BY <1>1, InitFollowed, NextFollowed, AlwaysTyped, PTL DEF Spec

\* A candidate that is not mailed yet: its profile consents, or moved since it was read.
Waits(h, v) ==
    \/ \E x \in cands[h] : x[1] = v
    \/ at[h] \in {"contact", "campaign"} /\ hand[h].visitor = v
Agreed ==
    \A h \in Handlers : \A v \in Visitors :
        Waits(h, v) => profile[v].consent = "yes" \/ <<h, v>> \in moved

LEMMA ReadingHas ==
    ASSUME Typed, NEW h \in Handlers, NEW V, NEW v \in V, Waits(h, v)
    PROVE  <<h, v>> \in Reading(V)
<1>1. at[h] \in Running
  BY DEF Waits, Typed, OwnTypes, EngineTypes, Running, Mailing
<1> QED BY <1>1 DEF Reading, Running, Mailing

\* A step of a handler that is not a run's, and stays none.
LEMMA ApartAgreed ==
    ASSUME Typed, Agreed, NEW h \in Handlers, NEW p, Only(h, p), OnlyHand(h), UNCHANGED cands,
           at[h] \notin Running, p \notin Mailing,
           \A v \in Visitors : profile'[v].consent # profile[v].consent =>
               \A g \in Handlers : Waits(g, v) => <<g, v>> \in moved',
           moved \subseteq moved'
    PROVE  Agreed'
<1>1. ASSUME NEW g \in Handlers, NEW v \in Visitors, Waits(g, v)' PROVE Waits(g, v)
  BY <1>1 DEF Waits, Only, OnlyHand, Mailing, Typed, OwnTypes, EngineTypes
<1> QED BY <1>1 DEF Agreed

LEMMA AskAgreed ==
    ASSUME Typed, Agreed, NEW h \in Handlers,
           CustomerWebhook(h) \/ SyncCustomers(h) \/ Redact(h) \/ Event(h) \/ Evaluate(h)
    PROVE  Agreed'
<1>1. PICK p : Only(h, p) /\ p \notin Mailing /\ at[h] = "idle"
  BY BeginsOnly DEF Typed, TokensInv, CustomerWebhook, SyncCustomers, Redact, Event, Evaluate,
     Mailing
<1>2. OnlyHand(h)
  BY TakesOnly, KeepsHand DEF Typed, OwnTypes, CustomerWebhook, SyncCustomers, Redact, Event,
     Evaluate
<1>3. UNCHANGED <<profile, cands, moved>>
  BY DEF CustomerWebhook, SyncCustomers, Redact, Event, Evaluate, consents, engine
<1> QED BY <1>1, <1>2, <1>3, ApartAgreed DEF Running, Mailing

LEMMA CustomerStepAgreed ==
    ASSUME Typed, Agreed, NEW h \in Handlers,
           \/ UpsertCustomer(h) \/ FindCustomer(h) \/ Spread(h) \/ SyncRow(h)
           \/ RedactCustomer(h) \/ RedactProfiles(h) \/ RedactActions(h)
           \/ ReadProfile(h) \/ LookUpCustomer(h) \/ UpsertProfile(h)
    PROVE  Agreed'
<1>0. TokenTypes /\ HandTypes /\ HandOK(h) /\ RowTypes
  BY DEF Typed, TokensInv, OwnTypes, HandTypes
<1>1. PICK p : Only(h, p) /\ p \notin Mailing
  <2>1. \/ End({h})
        \/ Moves(h, "find") \/ Moves(h, "spread") \/ Moves(h, "rows") \/ Moves(h, "unlink")
        \/ Moves(h, "forget") \/ Moves(h, "upsert") \/ Moves(h, "lookup")
    BY DEF UpsertCustomer, FindCustomer, Spread, SyncRow, RedactCustomer, RedactProfiles,
       RedactActions, ReadProfile, LookUpCustomer, UpsertProfile, Quit
  <2> QED BY <1>0, <2>1, MovesOnly, EndOnly DEF Mailing
<1>2. at[h] \notin Running
  BY DEF UpsertCustomer, FindCustomer, Spread, SyncRow, RedactCustomer, RedactProfiles,
     RedactActions, ReadProfile, LookUpCustomer, UpsertProfile, Running, Mailing
<1>3. OnlyHand(h)
  <2>1. CASE UNCHANGED hand
    BY <1>0, <2>1, KeepsHand
  <2>2. CASE \E x : Takes(h, x)
    BY <1>0, <2>2, TakesOnly
  <2>3. CASE FindCustomer(h) \/ LookUpCustomer(h)
    BY <1>0, <2>3, TakesOnly DEF FindCustomer, LookUpCustomer, HandTypes, OnlyHand, Quit
  <2>4. \/ UNCHANGED hand \/ (\E x : Takes(h, x)) \/ FindCustomer(h) \/ LookUpCustomer(h)
    BY DEF UpsertCustomer, Spread, SyncRow, RedactCustomer, RedactProfiles, RedactActions,
       ReadProfile, UpsertProfile, Quit
  <2> QED BY <2>1, <2>2, <2>3, <2>4
<1>4. UNCHANGED cands
  BY DEF UpsertCustomer, FindCustomer, Spread, SyncRow, RedactCustomer, RedactProfiles,
     RedactActions, ReadProfile, LookUpCustomer, UpsertProfile, engine
<1>5. \E V : /\ \A v \in Visitors : profile'[v].consent # profile[v].consent => v \in V
             /\ moved' = moved \cup Reading(V)
  <2>1. CASE Spread(h)
    <3> DEFINE V == {v \in Linked(hand[h].of) : profile[v].consent # hand[h].consent}
    <3>1. moved' = moved \cup Reading(V)
      BY <2>1 DEF Spread
    <3>2. \A v \in Visitors : profile'[v].consent # profile[v].consent => v \in V
      BY <1>0, <2>1 DEF Spread, Linked, RowTypes
    <3> QED BY <3>1, <3>2
  <2>2. CASE RedactProfiles(h)
    <3>1. moved' = moved \cup Reading(Linked(hand[h].of))
      BY <2>2 DEF RedactProfiles
    <3>2. \A v \in Visitors : profile'[v].consent # profile[v].consent => v \in Linked(hand[h].of)
      BY <2>2 DEF RedactProfiles
    <3> QED BY <3>1, <3>2
  <2>3. CASE UpsertProfile(h)
    <3> DEFINE w == hand[h].of
    <3>1. PICK new : /\ profile' = [profile EXCEPT ![w] = new]
                     /\ moved' = moved \cup IF new = profile[w] THEN {} ELSE Reading({w})
      BY <2>3 DEF UpsertProfile
    <3>2. \A v \in Visitors : profile'[v].consent # profile[v].consent => v = w /\ new # profile[w]
      BY <1>0, <3>1 DEF RowTypes
    <3>3. Reading({}) = {}
      BY DEF Reading
    <3>4. CASE new = profile[w]
      BY <3>1, <3>2, <3>3, <3>4
    <3>5. CASE new # profile[w]
      BY <3>1, <3>2, <3>5
    <3> QED BY <3>4, <3>5
  <2>4. CASE UNCHANGED <<profile, moved>>
    <3>1. Reading({}) = {}
      BY DEF Reading
    <3> QED BY <2>4, <3>1
  <2> QED
    BY <2>1, <2>2, <2>3, <2>4 DEF UpsertCustomer, FindCustomer, SyncRow, RedactCustomer,
       RedactActions, ReadProfile, LookUpCustomer, engine, consents
<1> QED BY <1>1, <1>2, <1>3, <1>4, <1>5, ApartAgreed, ReadingHas

LEMMA EngineAgreed ==
    ASSUME Typed, Agreed, NEW h \in Handlers,
           \/ BuildCandidate(h) \/ Judge(h) \/ SubscribeRecipient(h) \/ ScheduleCampaign(h)
           \/ RecordSent(h) \/ RecordFailed(h)
    PROVE  Agreed'
<1> USE DEF engine, consents
<1>0. TokenTypes /\ HandTypes /\ EngineTypes
  BY DEF Typed, TokensInv, OwnTypes
<1>1. PICK p : Only(h, p)
  <2>1. \/ End({h})
        \/ Moves(h, "build") \/ Moves(h, "judge") \/ Moves(h, "contact") \/ Moves(h, "campaign")
        \/ Moves(h, "record")
    BY DEF BuildCandidate, Judge, SubscribeRecipient, ScheduleCampaign, RecordSent, RecordFailed
  <2> QED BY <1>0, <2>1, MovesOnly, EndOnly
<1>2. OnlyHand(h)
  BY <1>0, TakesOnly, KeepsHand DEF HandTypes, OnlyHand, BuildCandidate, Judge,
     SubscribeRecipient, ScheduleCampaign, RecordSent, RecordFailed
<1>3. UNCHANGED profile
  BY DEF BuildCandidate, Judge, SubscribeRecipient, ScheduleCampaign, RecordSent, RecordFailed
<1>4. ASSUME NEW g \in Handlers \ {h}, NEW v \in Visitors, Waits(g, v)'
      PROVE  profile'[v].consent = "yes" \/ <<g, v>> \in moved'
  <2>1. cands'[g] = cands[g]
    BY <1>0 DEF BuildCandidate, Judge, SubscribeRecipient, ScheduleCampaign, RecordSent,
       RecordFailed, EngineTypes
  <2>2. Waits(g, v)
    BY <1>1, <1>2, <1>4, <2>1 DEF Waits, Only, OnlyHand
  <2>3. <<g, v>> \in moved => <<g, v>> \in moved'
    BY DEF BuildCandidate, Judge, SubscribeRecipient, ScheduleCampaign, RecordSent, RecordFailed
  <2> QED BY <1>3, <2>2, <2>3 DEF Agreed
<1>5. ASSUME NEW v \in Visitors, Waits(h, v)'
      PROVE  profile'[v].consent = "yes" \/ <<h, v>> \in moved'
  <2>1. CASE BuildCandidate(h)
    <3>1. PICK i \in todo[h] :
            /\ \/ /\ Allowed(i[1], i[2])
                  /\ cands' = [cands EXCEPT ![h] = @ \cup {<<i[1], i[2], profile[i[1]].link>>}]
               \/ UNCHANGED cands
            /\ Moves(h, IF todo[h] = {i} THEN "judge" ELSE "build")
      BY <2>1 DEF BuildCandidate
    <3>2. at'[h] \in {"judge", "build"} /\ UNCHANGED moved
      BY <1>0, <2>1, <3>1, MovesOnly DEF Only, BuildCandidate
    <3>3. Waits(h, v) \/ (v = i[1] /\ Allowed(i[1], i[2]))
      BY <1>0, <1>5, <3>1, <3>2 DEF Waits, EngineTypes
    <3> QED BY <1>3, <3>2, <3>3 DEF Agreed, Allowed
  <2>2. CASE Judge(h) /\ cands[h] = {}
    BY <1>0, <1>5, <2>2, EndOnly DEF Judge, Waits, Only
  <2>3. CASE Judge(h) /\ cands[h] # {}
    <3>1. PICK x \in cands[h] :
            /\ cands' = [cands EXCEPT ![h] = @ \ {x}]
            /\ \/ Takes(h, [of |-> "mail", visitor |-> x[1], product |-> x[2], to |-> x[3],
                              campaign |-> 0])
                  /\ Moves(h, "contact")
               \/ Moves(h, "judge") /\ UNCHANGED hand
      BY <2>3 DEF Judge
    <3>2. at'[h] = "judge" \/ (at'[h] = "contact" /\ hand'[h].visitor = x[1])
      BY <1>0, <3>1, MovesOnly, TakesOnly DEF Only
    <3>3. Waits(h, v)
      BY <1>0, <1>5, <3>1, <3>2 DEF Waits, EngineTypes
    <3>4. UNCHANGED moved
      BY <2>3 DEF Judge
    <3> QED BY <1>3, <3>3, <3>4 DEF Agreed
  <2>4. CASE SubscribeRecipient(h) \/ ScheduleCampaign(h) \/ RecordSent(h) \/ RecordFailed(h)
    <3>1. UNCHANGED <<cands, moved>>
      BY <2>4 DEF SubscribeRecipient, ScheduleCampaign, RecordSent, RecordFailed
    <3>2. at'[h] \in {"judge", "record"}
          \/ (at[h] = "contact" /\ at'[h] = "campaign" /\ hand'[h] = hand[h])
      BY <1>0, <2>4, MovesOnly DEF Only, SubscribeRecipient, ScheduleCampaign, RecordSent,
         RecordFailed
    <3>3. Waits(h, v)
      BY <1>5, <3>1, <3>2 DEF Waits
    <3> QED BY <1>3, <3>1, <3>3 DEF Agreed
  <2> QED BY <2>1, <2>2, <2>3, <2>4
<1> QED BY <1>4, <1>5 DEF Agreed

LEMMA RetreatAgreed ==
    ASSUME Typed, Agreed, Retreat
    PROVE  Agreed'
<1>1. ASSUME NEW g \in Handlers, NEW v \in Visitors, Waits(g, v)'
      PROVE  g \notin Ending /\ Waits(g, v)
  <2>1. g \notin Ending
    BY <1>1 DEF Retreat, Left, Waits, Ending
  <2>2. cands'[g] = cands[g] /\ hand'[g] = hand[g]
    BY <2>1 DEF Retreat, Left
  <2>3. at'[g] \in {"contact", "campaign"} => at'[g] = at[g]
    BY DEF Retreat, Goes, Client, ClientPoints, Goals, Typed, TokensInv, TokenTypes
  <2> QED BY <1>1, <2>1, <2>2, <2>3 DEF Waits
<1>2. \A g \in Handlers \ Ending : \A v \in Visitors : <<g, v>> \in moved => <<g, v>> \in moved'
  BY DEF Retreat, Left
<1> QED BY <1>1, <1>2 DEF Agreed, Retreat, Left

LEMMA OutsideAgreed == ASSUME Agreed, Outside PROVE Agreed'
BY OutsideKeeps DEF Agreed, Waits

LEMMA NextAgreed == Typed /\ Agreed /\ [Next]_vars => Agreed'
BY StepCases, RetreatAgreed, OutsideAgreed, AskAgreed, CustomerStepAgreed, EngineAgreed
   DEF HandlerStep, Typed, TokensInv

\* A campaign is scheduled only for a visitor whose profile consents, or changed after
\* the run read it, whatever rows the other handlers write in between.
THEOREM MailHasConsent == Spec => MailFollowsConsent
<1>1. Init => Agreed
  BY DEF Init, TokenInit, Agreed, Waits
<1>2. ASSUME Typed, Agreed
      PROVE  \A h \in Handlers : at[h] = "campaign" /\ at'[h] = "record" =>
                \/ profile[hand[h].visitor].consent = "yes"
                \/ <<h, hand[h].visitor>> \in moved
  <2>1. ASSUME NEW h \in Handlers, at[h] = "campaign"
        PROVE  hand[h].visitor \in Visitors /\ Waits(h, hand[h].visitor)
    BY <1>2, <2>1 DEF Typed, OwnTypes, HandTypes, HandOK, Mailing, Mail, Waits
  <2> QED BY <1>2, <2>1 DEF Agreed
<1> QED BY <1>1, <1>2, NextAgreed, AlwaysTyped, PTL DEF Spec, MailFollowsConsent

-----------------------------------------------------------------------------
(***************************************************************************)
(* Campaigns.                                                              *)
(***************************************************************************)

\* A run has a visitor's candidate or campaign on its hands.
Carries(h, v) == (\E x \in cands[h] : x[1] = v) \/ (at[h] \in Mailing /\ hand[h].visitor = v)

LEMMA OfCarries ==
    ASSUME Typed, NEW h \in Handlers, NEW v
    PROVE  v \in Of(h) <=> Carries(h, v)
<1>1. hand[h].of = "mail" <=> at[h] \in Mailing
  BY DEF Typed, OwnTypes, HandTypes, HandOK, Mail
<1> QED BY <1>1 DEF Of, Carries

\* What most steps do to the engine: candidates and campaigns may be dropped, but for a
\* scheduled one that is not recorded, and rows removed, for visitors that are torn then.
Calm ==
    /\ UNCHANGED <<mails, weekly, scheduled>>
    /\ crowded \subseteq crowded' /\ torn \subseteq torn'
    /\ actions' \subseteq actions /\ \A x \in actions \ actions' : x.visitor \in torn'
    /\ cooling' \subseteq cooling /\ \A x \in cooling \ cooling' : x.visitor \in torn'
    /\ \A g \in Handlers :
        /\ cands'[g] \subseteq cands[g]
        /\ todo'[g] \subseteq todo[g] \/ cands'[g] = {}
        /\ at'[g] \in Mailing => /\ hand'[g] = hand[g]
                                 /\ \/ at'[g] = at[g]
                                    \/ at[g] = "contact" /\ at'[g] = "campaign"
        /\ at[g] = "record" => at'[g] = "record" \/ hand[g].visitor \in torn'

LEMMA CalmOne ==
    ASSUME NEW h \in Handlers, NEW p, Only(h, p), OnlyHand(h),
           UNCHANGED <<mails, weekly, scheduled>>,
           crowded \subseteq crowded', torn \subseteq torn',
           actions' \subseteq actions, \A x \in actions \ actions' : x.visitor \in torn',
           cooling' \subseteq cooling, \A x \in cooling \ cooling' : x.visitor \in torn',
           \A g \in Handlers \ {h} : cands'[g] = cands[g] /\ todo'[g] = todo[g],
           cands'[h] \subseteq cands[h], todo'[h] \subseteq todo[h] \/ cands'[h] = {},
           p \in Mailing => hand'[h] = hand[h] /\ at[h] = "contact" /\ p = "campaign",
           at[h] = "record" => hand[h].visitor \in torn'
    PROVE  Calm
BY DEF Calm, Only, OnlyHand

LEMMA AskCalm ==
    ASSUME Typed, NEW h \in Handlers,
           CustomerWebhook(h) \/ SyncCustomers(h) \/ Redact(h) \/ Event(h) \/ Evaluate(h)
    PROVE  Calm
<1>1. PICK p : Only(h, p) /\ p \notin Mailing /\ at[h] = "idle"
  BY BeginsOnly DEF Typed, TokensInv, CustomerWebhook, SyncCustomers, Redact, Event, Evaluate,
     Mailing
<1>2. OnlyHand(h)
  BY TakesOnly, KeepsHand DEF Typed, OwnTypes, CustomerWebhook, SyncCustomers, Redact, Event,
     Evaluate
<1>3. UNCHANGED <<cands, mails, weekly, scheduled, actions, cooling, crowded, torn>>
  BY DEF CustomerWebhook, SyncCustomers, Redact, Event, Evaluate, engine, sent
<1>4. \A g \in Handlers \ {h} : todo'[g] = todo[g]
  BY DEF CustomerWebhook, SyncCustomers, Redact, Event, Evaluate, engine, Typed, OwnTypes,
     EngineTypes
<1>5. cands[h] = {}
  BY <1>1 DEF Typed, OwnTypes, EngineTypes, Running, Mailing
<1> QED BY <1>1, <1>2, <1>3, <1>4, <1>5, CalmOne

LEMMA CustomerStepCalm ==
    ASSUME Typed, NEW h \in Handlers,
           \/ UpsertCustomer(h) \/ FindCustomer(h) \/ Spread(h) \/ SyncRow(h)
           \/ RedactCustomer(h) \/ RedactProfiles(h) \/ RedactActions(h)
           \/ ReadProfile(h) \/ LookUpCustomer(h) \/ UpsertProfile(h)
    PROVE  Calm
<1>1. PICK p : Only(h, p) /\ p \notin Mailing
  <2>1. \/ End({h})
        \/ Moves(h, "find") \/ Moves(h, "spread") \/ Moves(h, "rows") \/ Moves(h, "unlink")
        \/ Moves(h, "forget") \/ Moves(h, "upsert") \/ Moves(h, "lookup")
    BY DEF UpsertCustomer, FindCustomer, Spread, SyncRow, RedactCustomer, RedactProfiles,
       RedactActions, ReadProfile, LookUpCustomer, UpsertProfile, Quit
  <2> QED BY <2>1, MovesOnly, EndOnly DEF Mailing, Typed, TokensInv
<1>2. at[h] # "record"
  BY DEF UpsertCustomer, FindCustomer, Spread, SyncRow, RedactCustomer, RedactProfiles,
     RedactActions, ReadProfile, LookUpCustomer, UpsertProfile
<1>3. OnlyHand(h)
  <2>1. \/ UNCHANGED hand \/ (\E x : Takes(h, x)) \/ FindCustomer(h) \/ LookUpCustomer(h)
    BY DEF UpsertCustomer, Spread, SyncRow, RedactCustomer, RedactProfiles, RedactActions,
       ReadProfile, UpsertProfile, Quit
  <2>2. CASE FindCustomer(h) \/ LookUpCustomer(h)
    BY <2>2, TakesOnly DEF FindCustomer, LookUpCustomer, HandTypes, OnlyHand, Quit, Typed, OwnTypes
  <2> QED BY <2>1, <2>2, TakesOnly, KeepsHand DEF Typed, OwnTypes
<1>4. UNCHANGED <<cands, todo, mails, weekly, scheduled, crowded>>
  BY DEF UpsertCustomer, FindCustomer, Spread, SyncRow, RedactCustomer, RedactProfiles,
     RedactActions, ReadProfile, LookUpCustomer, UpsertProfile, engine, sent
<1>5. /\ torn \subseteq torn'
      /\ actions' \subseteq actions /\ \A x \in actions \ actions' : x.visitor \in torn'
      /\ cooling' \subseteq cooling /\ \A x \in cooling \ cooling' : x.visitor \in torn'
  <2>1. CASE RedactActions(h)
    BY <2>1 DEF RedactActions
  <2>2. CASE ~RedactActions(h)
    <3>1. UNCHANGED <<torn, actions, cooling>>
      BY <2>2 DEF UpsertCustomer, FindCustomer, Spread, SyncRow, RedactCustomer, RedactProfiles,
         ReadProfile, LookUpCustomer, UpsertProfile, sent
    <3> QED BY <3>1
  <2> QED BY <2>1, <2>2
<1> QED BY <1>1, <1>2, <1>3, <1>4, <1>5, CalmOne

\* The steps that carry a candidate on, and what they need of the visitor.
Adds(h, i) ==
    /\ at[h] = "build" /\ i \in todo[h] /\ Allowed(i[1], i[2])
    /\ todo' = [todo EXCEPT ![h] = @ \ {i}]
    /\ cands' = [cands EXCEPT ![h] = @ \cup {<<i[1], i[2], profile[i[1]].link>>}]
    /\ crowded' = crowded \cup IF i[1] \in Of(h) THEN {i[1]} ELSE {}
    /\ torn' = torn \cup IF \E g \in Handlers \ {h} : i[1] \in Of(g) THEN {i[1]} ELSE {}
    /\ \E p \in {"judge", "build"} : Only(h, p)
    /\ UNCHANGED <<hand, actions, cooling, mails, weekly, scheduled>>
Picks(h, x) ==
    /\ at[h] = "judge" /\ x \in cands[h]
    /\ cands' = [cands EXCEPT ![h] = @ \ {x}]
    /\ Takes(h, [of |-> "mail", visitor |-> x[1], product |-> x[2], to |-> x[3], campaign |-> 0])
    /\ Only(h, "contact")
    /\ UNCHANGED <<todo, actions, cooling, mails, weekly, scheduled, crowded, torn>>
Schedules(h) == ScheduleCampaign(h) /\ subs # {}

LEMMA EngineCalm ==
    ASSUME Typed, NEW h \in Handlers,
           \/ BuildCandidate(h) \/ Judge(h) \/ SubscribeRecipient(h) \/ ScheduleCampaign(h)
           \/ RecordFailed(h)
    PROVE  Calm \/ (\E i : Adds(h, i)) \/ (\E x : Picks(h, x)) \/ Schedules(h)
<1> USE DEF engine, Mailing
<1>0. TokenTypes /\ HandTypes /\ EngineTypes
  BY DEF Typed, TokensInv, OwnTypes
<1>1. CASE BuildCandidate(h)
  <2>1. PICK i \in todo[h] :
            /\ todo' = [todo EXCEPT ![h] = @ \ {i}]
            /\ \/ /\ Allowed(i[1], i[2])
                  /\ cands' = [cands EXCEPT ![h] = @ \cup {<<i[1], i[2], profile[i[1]].link>>}]
                  /\ crowded' = crowded \cup IF i[1] \in Of(h) THEN {i[1]} ELSE {}
                  /\ torn' = torn \cup IF \E g \in Handlers \ {h} : i[1] \in Of(g)
                                       THEN {i[1]} ELSE {}
               \/ UNCHANGED <<cands, crowded, torn>>
            /\ Moves(h, IF todo[h] = {i} THEN "judge" ELSE "build")
    BY <1>1 DEF BuildCandidate
  <2>2. PICK p \in {"judge", "build"} : Only(h, p)
    BY <1>0, <2>1, MovesOnly
  <2>3. UNCHANGED <<hand, actions, cooling, mails, weekly, scheduled>> /\ at[h] = "build"
    BY <1>1 DEF BuildCandidate
  <2>4. CASE UNCHANGED <<cands, crowded, torn>>
    <3>1. todo'[h] \subseteq todo[h] /\ \A g \in Handlers \ {h} : todo'[g] = todo[g]
      BY <1>0, <2>1 DEF EngineTypes
    <3>2. OnlyHand(h)
      BY <1>0, <2>3, KeepsHand
    <3> QED BY <2>2, <2>3, <2>4, <3>1, <3>2, CalmOne
  <2>5. CASE ~UNCHANGED <<cands, crowded, torn>>
    BY <2>1, <2>2, <2>3, <2>5 DEF Adds
  <2> QED BY <2>4, <2>5
<1>2. CASE Judge(h) /\ cands[h] = {}
  <2>1. UNCHANGED <<cands, hand, todo, actions, cooling, mails, weekly, scheduled, crowded, torn>>
        /\ at[h] = "judge" /\ Only(h, "idle") /\ OnlyHand(h)
    BY <1>0, <1>2, EndOnly, KeepsHand DEF Judge, sent
  <2> QED BY <2>1, CalmOne
<1>3. CASE Judge(h) /\ cands[h] # {}
  <2>1. PICK x \in cands[h] :
            /\ cands' = [cands EXCEPT ![h] = @ \ {x}]
            /\ \/ Takes(h, [of |-> "mail", visitor |-> x[1], product |-> x[2], to |-> x[3],
                              campaign |-> 0])
                  /\ Moves(h, "contact")
               \/ Moves(h, "judge") /\ UNCHANGED hand
    BY <1>3 DEF Judge
  <2>2. UNCHANGED <<todo, actions, cooling, mails, weekly, scheduled, crowded, torn>>
        /\ at[h] = "judge"
    BY <1>3 DEF Judge, sent
  <2>3. CASE Moves(h, "judge") /\ UNCHANGED hand
    <3>1. Only(h, "judge") /\ OnlyHand(h)
      BY <1>0, <2>3, MovesOnly, KeepsHand
    <3>2. cands'[h] \subseteq cands[h] /\ \A g \in Handlers \ {h} : cands'[g] = cands[g]
      BY <1>0, <2>1 DEF EngineTypes
    <3> QED BY <2>2, <3>1, <3>2, CalmOne
  <2>4. CASE ~(Moves(h, "judge") /\ UNCHANGED hand)
    <3>1. Moves(h, "contact")
          /\ Takes(h, [of |-> "mail", visitor |-> x[1], product |-> x[2], to |-> x[3],
                         campaign |-> 0])
      BY <2>1, <2>4
    <3>2. Only(h, "contact")
      BY <1>0, <3>1, MovesOnly
    <3> QED BY <2>1, <2>2, <3>1, <3>2 DEF Picks
  <2> QED BY <2>3, <2>4
<1>4. CASE SubscribeRecipient(h)
  <2>1. UNCHANGED <<cands, todo, actions, cooling, mails, weekly, scheduled, crowded, torn>>
        /\ at[h] = "contact"
    BY <1>4 DEF SubscribeRecipient
  <2>2. \/ Only(h, "campaign") /\ OnlyHand(h) /\ hand'[h] = hand[h]
        \/ Only(h, "judge") /\ OnlyHand(h)
    BY <1>0, <1>4, MovesOnly, KeepsHand, TakesOnly DEF SubscribeRecipient
  <2> QED BY <2>1, <2>2, CalmOne
<1>5. CASE ScheduleCampaign(h) /\ subs = {}
  <2>1. UNCHANGED <<cands, todo, actions, cooling, mails, weekly, scheduled, crowded, torn>>
        /\ at[h] = "campaign" /\ Only(h, "judge") /\ OnlyHand(h)
    BY <1>0, <1>5, MovesOnly, TakesOnly DEF ScheduleCampaign
  <2> QED BY <2>1, CalmOne
<1>6. CASE RecordFailed(h)
  <2>1. UNCHANGED <<cands, todo, actions, cooling, mails, weekly, scheduled, crowded>>
        /\ torn' = torn \cup {hand[h].visitor} /\ Only(h, "judge") /\ OnlyHand(h)
    BY <1>0, <1>6, MovesOnly, TakesOnly DEF RecordFailed
  <2> QED BY <2>1, CalmOne
<1> QED BY <1>1, <1>2, <1>3, <1>4, <1>5, <1>6 DEF Schedules

LEMMA RetreatCalm == ASSUME Typed, Retreat PROVE Calm
<1>1. /\ UNCHANGED <<mails, weekly, scheduled, actions, cooling, crowded>>
      /\ torn' = torn \cup {hand[h].visitor : h \in {g \in Ending : at[g] = "record"}}
  BY DEF Retreat, Left
<1>2. ASSUME NEW g \in Ending
      PROVE  cands'[g] = {} /\ at'[g] \notin Mailing
             /\ (at[g] = "record" => hand[g].visitor \in torn')
  BY <1>1 DEF Retreat, Left, Ending, Mailing
<1>3. ASSUME NEW g \in Handlers \ Ending
      PROVE  cands'[g] = cands[g] /\ todo'[g] = todo[g] /\ hand'[g] = hand[g]
             /\ (at[g] = "record" \/ at'[g] \in Mailing => at'[g] = at[g])
  <2>1. Goes(g) /\ goal[g] \in Goals /\ (at'[g] = "idle" => at[g] = "idle")
    BY DEF Retreat, Ending, Typed, TokensInv, TokenTypes
  <2>2. at[g] = "record" \/ at'[g] \in Mailing => at'[g] = at[g]
    BY <2>1 DEF Goes, Client, ClientPoints, Goals, Mailing
  <2> QED BY <2>2 DEF Retreat, Left
<1> QED BY <1>1, <1>2, <1>3 DEF Calm

LEMMA CampaignCases ==
    ASSUME Typed, [Next]_vars
    PROVE  \/ Calm
           \/ \E h \in Handlers : \/ \E i : Adds(h, i)
                                  \/ \E x : Picks(h, x)
                                  \/ Schedules(h) \/ RecordSent(h)
           \/ \E x \in cooling : CooldownEnds(x)
           \/ \E x \in actions : WeekEnds(x)
<1>1. ASSUME UNCHANGED vars \/ \E c \in Customers : Unsubscribe(c) PROVE Calm
  BY <1>1 DEF Unsubscribe, vars, tokenVars, handler, ownVars, engine, sent, Calm
<1> QED
  BY <1>1, StepCases, RetreatCalm, AskCalm, CustomerStepCalm, EngineCalm
  DEF HandlerStep, Outside, Typed, TokensInv

\* What these steps do, in the terms of the invariants below.
LEMMA AddsDoes ==
    ASSUME Typed, NEW h \in Handlers, NEW i, Adds(h, i)
    PROVE  /\ i[1] \in Visitors /\ i[2] \in Products
           /\ at[h] = "build" /\ at'[h] \in {"judge", "build"}
           /\ \A g \in Handlers \ {h} : at'[g] = at[g] /\ cands'[g] = cands[g] /\ todo'[g] = todo[g]
           /\ cands'[h] = cands[h] \cup {<<i[1], i[2], profile[i[1]].link>>}
           /\ todo'[h] = todo[h] \ {i}
           /\ \A g \in Handlers \ {h} : Carries(g, i[1]) => i[1] \in torn'
           /\ Carries(h, i[1]) => i[1] \in crowded'
           /\ torn \subseteq torn' /\ crowded \subseteq crowded'
<1>1. i[1] \in Visitors /\ i[2] \in Products
  BY DEF Adds, Typed, OwnTypes, EngineTypes, Interests
<1>2. /\ cands'[h] = cands[h] \cup {<<i[1], i[2], profile[i[1]].link>>} /\ todo'[h] = todo[h] \ {i}
      /\ \A g \in Handlers \ {h} : cands'[g] = cands[g] /\ todo'[g] = todo[g]
  BY DEF Adds, Typed, OwnTypes, EngineTypes
<1>3. /\ \A g \in Handlers \ {h} : Carries(g, i[1]) => i[1] \in torn'
      /\ Carries(h, i[1]) => i[1] \in crowded'
  BY OfCarries DEF Adds
<1> QED BY <1>1, <1>2, <1>3 DEF Adds, Only

LEMMA PicksDoes ==
    ASSUME Typed, NEW h \in Handlers, NEW x, Picks(h, x)
    PROVE  /\ at[h] = "judge" /\ at'[h] = "contact" /\ x \in cands[h] /\ todo[h] = {}
           /\ \A g \in Handlers \ {h} :
                 at'[g] = at[g] /\ cands'[g] = cands[g] /\ todo'[g] = todo[g] /\ hand'[g] = hand[g]
           /\ cands'[h] = cands[h] \ {x} /\ todo'[h] = todo[h]
           /\ hand'[h].visitor = x[1] /\ hand'[h].product = x[2]
<1>1. OnlyHand(h) /\ hand'[h].visitor = x[1] /\ hand'[h].product = x[2]
  BY TakesOnly DEF Picks, Typed, OwnTypes
<1> QED BY <1>1 DEF Picks, Only, OnlyHand, Typed, OwnTypes, EngineTypes

LEMMA SchedulesDoes ==
    ASSUME Typed, NEW h \in Handlers, Schedules(h)
    PROVE  /\ at[h] = "campaign" /\ at'[h] = "record"
           /\ \A g \in Handlers \ {h} : at'[g] = at[g] /\ hand'[g] = hand[g]
           /\ hand[h].visitor \in Visitors /\ hand[h].product \in Products
           /\ hand'[h].visitor = hand[h].visitor /\ hand'[h].product = hand[h].product
           /\ hand'[h].campaign = scheduled + 1
           /\ scheduled' = scheduled + 1 /\ scheduled \in Nat
           /\ mails' = [mails EXCEPT ![<<hand[h].visitor, hand[h].product>>] = @ + 1]
           /\ weekly' = [weekly EXCEPT ![hand[h].visitor] = @ + 1]
           /\ UNCHANGED <<cands, todo, actions, cooling, crowded, torn>>
<1>1. hand[h] \in Mail /\ DOMAIN hand = Handlers /\ scheduled \in Nat
  BY DEF Schedules, ScheduleCampaign, Typed, OwnTypes, HandTypes, HandOK, Mailing, RowTypes
<1>2. Only(h, "record")
  BY MovesOnly DEF Schedules, ScheduleCampaign, Typed, TokensInv
<1>3. hand'[h] = [hand[h] EXCEPT !.campaign = scheduled + 1]
      /\ \A g \in Handlers \ {h} : hand'[g] = hand[g]
  BY <1>1 DEF Schedules, ScheduleCampaign
<1>4. /\ hand'[h].visitor = hand[h].visitor /\ hand'[h].product = hand[h].product
      /\ hand'[h].campaign = scheduled + 1
  BY <1>1, <1>3 DEF Mail
<1> QED BY <1>1, <1>2, <1>3, <1>4 DEF Schedules, ScheduleCampaign, Only, engine, Mail

LEMMA RecordsDoes ==
    ASSUME Typed, NEW h \in Handlers, RecordSent(h)
    PROVE  /\ at[h] = "record" /\ at'[h] = "judge"
           /\ \A g \in Handlers \ {h} : at'[g] = at[g] /\ hand'[g] = hand[g]
           /\ hand[h].visitor \in Visitors /\ hand[h].product \in Products
           /\ hand[h].campaign \in 1..scheduled /\ scheduled \in Nat
           /\ actions' = actions \cup {Row(hand[h])} /\ cooling' = cooling \cup {Row(hand[h])}
           /\ UNCHANGED <<cands, todo, mails, weekly, scheduled, crowded, torn>>
<1>1. hand[h] \in Mail /\ hand[h].campaign \in 1..scheduled /\ scheduled \in Nat
  BY DEF RecordSent, Typed, OwnTypes, HandTypes, HandOK, Mailing, RowTypes
<1>2. Only(h, "judge") /\ OnlyHand(h)
  BY MovesOnly, TakesOnly DEF RecordSent, Typed, TokensInv, OwnTypes
<1> QED BY <1>1, <1>2 DEF RecordSent, Only, OnlyHand, engine, Mail

LEMMA EndsDo ==
    ASSUME Typed, NEW x, (x \in cooling /\ CooldownEnds(x)) \/ (x \in actions /\ WeekEnds(x))
    PROVE  /\ x.visitor \in Visitors /\ x.product \in Products
           /\ UNCHANGED <<at, hand, cands, todo, scheduled, crowded, torn>>
           /\ actions' \subseteq actions /\ cooling' \subseteq cooling
BY DEF CooldownEnds, WeekEnds, tokenVars, handler, engine, Typed, OwnTypes, RowTypes, Action

\* The numbers of scheduled campaigns tell their rows apart: a campaign that waits for its
\* row has none, and nobody else waits with that number.
Fresh(h) ==
    /\ \A x \in actions \cup cooling : x.campaign # hand[h].campaign
    /\ \A g \in Handlers : at[g] = "record" /\ hand[g].campaign = hand[h].campaign => g = h
Numbered ==
    /\ IsFiniteSet(actions)
    /\ \A x \in actions \cup cooling : x.campaign <= scheduled
    /\ \A h \in Handlers : at[h] = "record" => Fresh(h)

LEMMA FewerNumbered ==
    ASSUME Typed, Numbered, actions' \subseteq actions, cooling' \subseteq cooling,
           UNCHANGED scheduled,
           \A g \in Handlers : at'[g] = "record" => at[g] = "record" /\ hand'[g] = hand[g]
    PROVE  Numbered'
<1>1. IsFiniteSet(actions')
  BY FS_Subset DEF Numbered
<1> QED BY <1>1 DEF Numbered, Fresh

LEMMA SchedulesNumbered ==
    ASSUME Typed, Numbered, NEW h \in Handlers, Schedules(h)
    PROVE  Numbered'
<1>1. /\ at[h] = "campaign" /\ hand'[h].campaign = scheduled + 1
      /\ \A g \in Handlers \ {h} : at'[g] = at[g] /\ hand'[g] = hand[g]
      /\ scheduled' = scheduled + 1 /\ scheduled \in Nat
      /\ actions' = actions /\ cooling' = cooling
  BY SchedulesDoes
<1>2. \A x \in actions \cup cooling : x.campaign \in Nat /\ x.campaign <= scheduled
  BY MarketingAssumption DEF Numbered, Typed, OwnTypes, RowTypes, Action
<1>3. \A g \in Handlers : at[g] = "record" => hand[g].campaign \in 1..scheduled
  BY DEF Typed, OwnTypes, HandTypes, HandOK
<1>4. Fresh(h)'
  BY <1>1, <1>2, <1>3 DEF Fresh
<1>5. ASSUME NEW g \in Handlers \ {h}, at'[g] = "record" PROVE Fresh(g)'
  BY <1>1, <1>3, <1>5 DEF Numbered, Fresh
<1>6. IsFiniteSet(actions')
  BY <1>1 DEF Numbered
<1>7. \A x \in actions' \cup cooling' : x.campaign <= scheduled'
  BY <1>1, <1>2
<1> QED BY <1>4, <1>5, <1>6, <1>7 DEF Numbered

LEMMA RecordsNumbered ==
    ASSUME Typed, Numbered, NEW h \in Handlers, RecordSent(h)
    PROVE  Numbered'
<1> USE RecordsDoes
<1>1. IsFiniteSet(actions')
  BY FS_AddElement DEF Numbered
<1>2. \A x \in actions' \cup cooling' : x \in actions \cup cooling \/ x.campaign = hand[h].campaign
  BY DEF Row
<1>3. ASSUME NEW g \in Handlers, at'[g] = "record" PROVE Fresh(g)'
  BY <1>2, <1>3 DEF Numbered, Fresh
<1> QED BY <1>1, <1>2, <1>3 DEF Numbered

LEMMA NextNumbered == Typed /\ Numbered /\ [Next]_vars => Numbered'
<1> SUFFICES ASSUME Typed, Numbered, [Next]_vars PROVE Numbered'
  OBVIOUS
<1>1. CASE Calm
  BY <1>1, FewerNumbered DEF Calm, Mailing
<1>2. ASSUME NEW h \in Handlers, NEW i, Adds(h, i) PROVE Numbered'
  BY <1>2, AddsDoes, FewerNumbered DEF Adds
<1>3. ASSUME NEW h \in Handlers, NEW x, Picks(h, x) PROVE Numbered'
  BY <1>3, PicksDoes, FewerNumbered DEF Picks
<1>4. ASSUME NEW x, (x \in cooling /\ CooldownEnds(x)) \/ (x \in actions /\ WeekEnds(x))
      PROVE  Numbered'
  BY <1>4, EndsDo, FewerNumbered
<1> QED BY <1>1, <1>2, <1>3, <1>4, CampaignCases, SchedulesNumbered, RecordsNumbered

(***************************************************************************)
(* One campaign about a product in a cooldown.                             *)
(***************************************************************************)

\* A run reads a product once, and has let its candidate go when it mails it.
Once(h) ==
    /\ \A x, y \in cands[h] : x[1] = y[1] /\ x[2] = y[2] => x = y
    /\ \A i \in todo[h] : \A x \in cands[h] : ~(x[1] = i[1] /\ x[2] = i[2])
    /\ at[h] \in Mailing => \A x \in cands[h] : ~(x[1] = hand[h].visitor /\ x[2] = hand[h].product)

\* Runs that both have the visitor on their hands would be torn.
Alone(v) == \A g, h \in Handlers : Carries(g, v) /\ Carries(h, v) => g = h

Mails(h, v, p) == hand[h].visitor = v /\ hand[h].product = p
CoolOf(v, p) == {x \in cooling : x.visitor = v /\ x.product = p}
Recording(v, p) == \E h \in Handlers : at[h] = "record" /\ Mails(h, v, p)
Pending(v, p) ==
    \E h \in Handlers :
        \/ \E x \in cands[h] : x[1] = v /\ x[2] = p
        \/ at[h] \in {"contact", "campaign"} /\ Mails(h, v, p)

\* A scheduled campaign has a run that records it, or its row.
OneMail(v, p) ==
    /\ \/ mails[<<v, p>>] = 0 /\ CoolOf(v, p) = {} /\ ~Recording(v, p)
       \/ mails[<<v, p>>] = 1 /\ CoolOf(v, p) = {} /\ Recording(v, p)
       \/ mails[<<v, p>>] = 1 /\ (\E x : CoolOf(v, p) = {x}) /\ ~Recording(v, p)
    /\ Pending(v, p) => mails[<<v, p>>] = 0

Cool ==
    /\ \A h \in Handlers : Once(h)
    /\ \A v \in Visitors \ torn : Alone(v) /\ \A p \in Products : OneMail(v, p)

LEMMA OnHand ==
    ASSUME NEW v, NEW p
    PROVE  Recording(v, p) => \E h \in Handlers : at[h] = "record" /\ Carries(h, v)
BY DEF Recording, Mails, Carries, Mailing

\* Nothing new is carried, and nothing about the interest changes.
LEMMA SameOne ==
    ASSUME NEW v \in Visitors, NEW p \in Products, OneMail(v, p),
           mails'[<<v, p>>] = mails[<<v, p>>], CoolOf(v, p)' = CoolOf(v, p),
           Recording(v, p)' <=> Recording(v, p),
           Pending(v, p)' => Pending(v, p) \/ mails[<<v, p>>] = 0
    PROVE  OneMail(v, p)'
BY DEF OneMail

LEMMA CalmCool == ASSUME Typed, Cool, Calm PROVE Cool'
<1>1. ASSUME NEW h \in Handlers PROVE Once(h)'
  BY DEF Cool, Once, Calm, Mailing
<1>2. ASSUME NEW h \in Handlers, NEW v, Carries(h, v)' PROVE Carries(h, v)
  BY <1>2 DEF Carries, Calm, Mailing
<1>3. ASSUME NEW v \in Visitors \ torn', NEW p \in Products PROVE OneMail(v, p)'
  <2>1. CoolOf(v, p)' = CoolOf(v, p)
    BY <1>3 DEF Calm, CoolOf
  <2>2. Recording(v, p)' <=> Recording(v, p)
    <3>1. \A h \in Handlers : at'[h] = "record" => at[h] = "record" /\ hand'[h] = hand[h]
      BY DEF Calm, Mailing
    <3>2. \A h \in Handlers : at[h] = "record" /\ hand[h].visitor = v => at'[h] = "record"
      BY <1>3 DEF Calm
    <3> QED BY <3>1, <3>2 DEF Recording, Mails
  <2>3. Pending(v, p)' => Pending(v, p)
    <3>1. \A h \in Handlers :
             /\ cands'[h] \subseteq cands[h]
             /\ at'[h] \in {"contact", "campaign"} =>
                   at[h] \in {"contact", "campaign"} /\ hand'[h] = hand[h]
      BY DEF Calm, Mailing
    <3> QED BY <3>1 DEF Pending, Mails
  <2>4. mails' = mails /\ OneMail(v, p)
    BY DEF Cool, Calm
  <2> QED BY <2>1, <2>2, <2>3, <2>4, SameOne
<1>4. ASSUME NEW v \in Visitors \ torn' PROVE Alone(v)'
  <2>1. Alone(v)
    BY DEF Cool, Calm
  <2> QED BY <1>2, <2>1 DEF Alone
<1> QED BY <1>1, <1>3, <1>4 DEF Cool

LEMMA AddsCool ==
    ASSUME Typed, Cool, NEW h \in Handlers, NEW i, Adds(h, i)
    PROVE  Cool'
<1> DEFINE v == i[1]
           p == i[2]
<1>0. /\ v \in Visitors /\ p \in Products
      /\ at[h] = "build" /\ at'[h] \in {"judge", "build"}
      /\ \A g \in Handlers \ {h} : at'[g] = at[g] /\ cands'[g] = cands[g] /\ todo'[g] = todo[g]
      /\ \A g \in Handlers \ {h} : Carries(g, v) => v \in torn'
      /\ torn \subseteq torn' /\ UNCHANGED <<hand, cooling, mails>>
  BY AddsDoes DEF Adds
<1>a. cands'[h] = cands[h] \cup {<<v, p, profile[v].link>>} /\ todo'[h] = todo[h] \ {i}
  BY AddsDoes
<1>b. \A g \in Handlers : Once(g)
  BY DEF Cool
<1> HIDE DEF v, p
<1>1. Once(h)'
  <2>1. i \in todo[h] /\ \A j \in todo[h] : j[1] = v /\ j[2] = p => j = i
    BY DEF v, p, Adds, Typed, OwnTypes, EngineTypes, Interests
  <2>2. \A x \in cands[h] : ~(x[1] = v /\ x[2] = p)
    BY <1>b, <2>1 DEF Once, v, p
  <2> QED BY <1>0, <1>a, <1>b, <2>1, <2>2 DEF Once, Mailing
<1>2. ASSUME NEW g \in Handlers \ {h} PROVE Once(g)'
  BY <1>0, <1>b DEF Once
<1>3. ASSUME NEW g \in Handlers, NEW w, Carries(g, w)' PROVE Carries(g, w) \/ (g = h /\ w = v)
  BY <1>0, <1>a, <1>3 DEF Carries, Mailing
<1>4. ASSUME NEW w \in Visitors \ torn' PROVE Alone(w)'
  <2>1. Alone(w)
    BY <1>0 DEF Cool
  <2> QED BY <1>0, <1>3, <1>4, <2>1 DEF Alone
<1>5. ASSUME NEW w \in Visitors \ torn', NEW q \in Products PROVE OneMail(w, q)'
  <2>1. OneMail(w, q)
    BY <1>0 DEF Cool
  <2>2. CoolOf(w, q)' = CoolOf(w, q)
    BY <1>0 DEF CoolOf
  <2>3. Recording(w, q)' <=> Recording(w, q)
    BY <1>0 DEF Recording, Mails
  <2>4. Pending(w, q)' => Pending(w, q) \/ (w = v /\ q = p)
    BY <1>0, <1>a DEF Pending, Mails
  <2>5. w = v /\ q = p => mails[<<w, q>>] = 0
    <3>1. CoolOf(v, p) = {}
      BY DEF CoolOf, Adds, Allowed, v, p
    <3>2. w = v => ~Recording(v, p)
      BY <1>0, <1>5, OnHand
    <3> QED BY <2>1, <3>1, <3>2 DEF OneMail
  <2> QED BY <1>0, <2>1, <2>2, <2>3, <2>4, <2>5, SameOne
<1> QED BY <1>1, <1>2, <1>4, <1>5 DEF Cool

LEMMA PicksCool ==
    ASSUME Typed, Cool, NEW h \in Handlers, NEW x, Picks(h, x)
    PROVE  Cool'
<1>0. /\ at[h] = "judge" /\ at'[h] = "contact" /\ x \in cands[h] /\ todo[h] = {}
      /\ \A g \in Handlers \ {h} :
            at'[g] = at[g] /\ cands'[g] = cands[g] /\ todo'[g] = todo[g] /\ hand'[g] = hand[g]
      /\ cands'[h] = cands[h] \ {x} /\ todo'[h] = todo[h]
      /\ hand'[h].visitor = x[1] /\ hand'[h].product = x[2]
      /\ UNCHANGED <<cooling, mails, torn>>
  BY PicksDoes DEF Picks
<1>1. ASSUME NEW g \in Handlers PROVE Once(g)'
  BY <1>0 DEF Cool, Once
<1>2. ASSUME NEW g \in Handlers, NEW w, Carries(g, w)' PROVE Carries(g, w)
  BY <1>0, <1>2 DEF Carries
<1>3. ASSUME NEW w \in Visitors \ torn' PROVE Alone(w)'
  <2>1. Alone(w)
    BY <1>0 DEF Cool
  <2> QED BY <1>2, <2>1 DEF Alone
<1>4. ASSUME NEW w \in Visitors \ torn', NEW q \in Products PROVE OneMail(w, q)'
  <2>1. OneMail(w, q) /\ CoolOf(w, q)' = CoolOf(w, q)
    BY <1>0 DEF Cool, CoolOf
  <2>2. Recording(w, q)' <=> Recording(w, q)
    BY <1>0 DEF Recording, Mails
  <2>3. Pending(w, q)' => Pending(w, q)
    BY <1>0 DEF Pending, Mails
  <2> QED BY <1>0, <2>1, <2>2, <2>3, SameOne
<1> QED BY <1>1, <1>3, <1>4 DEF Cool

LEMMA SchedulesCool ==
    ASSUME Typed, Cool, NEW h \in Handlers, Schedules(h)
    PROVE  Cool'
<1> PICK v \in Visitors, p \in Products : v = hand[h].visitor /\ p = hand[h].product
  BY SchedulesDoes
<1>0. /\ at[h] = "campaign" /\ at'[h] = "record"
      /\ \A g \in Handlers \ {h} : at'[g] = at[g] /\ hand'[g] = hand[g]
      /\ hand'[h].visitor = v /\ hand'[h].product = p
      /\ mails' = [mails EXCEPT ![<<v, p>>] = @ + 1]
      /\ cands' = cands /\ todo' = todo /\ cooling' = cooling /\ torn' = torn
  BY SchedulesDoes
<1>a. Mails(h, v, p) /\ \A w, q : Mails(h, w, q) => w = v /\ q = p
  BY DEF Mails
<1>b. Carries(h, v) /\ Once(h)
  BY <1>0 DEF Carries, Mailing, Cool
<1>c. \A x \in cands[h] : ~(x[1] = v /\ x[2] = p)
  BY <1>0, <1>b DEF Once, Mailing
<1>1. ASSUME NEW g \in Handlers PROVE Once(g)'
  <2>1. Once(g)
    BY DEF Cool
  <2> QED BY <1>0, <1>c, <2>1 DEF Once
<1>2. ASSUME NEW g \in Handlers, NEW w, Carries(g, w)' PROVE Carries(g, w)
  BY <1>0, <1>b, <1>2 DEF Carries
<1>3. ASSUME NEW w \in Visitors \ torn' PROVE Alone(w)'
  <2>1. Alone(w)
    BY <1>0 DEF Cool
  <2> QED BY <1>2, <2>1 DEF Alone
<1>4. ASSUME NEW w \in Visitors \ torn', NEW q \in Products, ~(w = v /\ q = p)
      PROVE  OneMail(w, q)'
  <2>1. OneMail(w, q) /\ CoolOf(w, q)' = CoolOf(w, q)
    BY <1>0 DEF Cool, CoolOf
  <2>2. mails'[<<w, q>>] = mails[<<w, q>>]
    BY <1>0, <1>4 DEF Typed, OwnTypes, RowTypes, Interests
  <2>3. Recording(w, q)' <=> Recording(w, q)
    BY <1>0, <1>4 DEF Recording, Mails
  <2>4. Pending(w, q)' => Pending(w, q)
    BY <1>0 DEF Pending, Mails
  <2> QED BY <2>1, <2>2, <2>3, <2>4, SameOne
<1>5. ASSUME v \notin torn' PROVE OneMail(v, p)'
  <2>1. OneMail(v, p) /\ Alone(v)
    BY <1>0, <1>5 DEF Cool
  <2>2. Pending(v, p)
    BY <1>0, <1>a DEF Pending
  <2>3. mails[<<v, p>>] = 0 /\ CoolOf(v, p) = {}
    BY <2>1, <2>2 DEF OneMail
  <2>4. mails'[<<v, p>>] = 1
    BY <1>0, <2>3 DEF Typed, OwnTypes, RowTypes, Interests
  <2>5. CoolOf(v, p)' = {} /\ Recording(v, p)'
    BY <1>0, <2>3 DEF CoolOf, Recording, Mails
  <2>6. \A g \in Handlers \ {h} : ~Carries(g, v)
    BY <1>b, <2>1 DEF Alone
  <2>7. ~Pending(v, p)'
    BY <1>0, <1>c, <2>6 DEF Pending, Mails, Carries, Mailing
  <2> QED BY <2>4, <2>5, <2>7 DEF OneMail
<1> QED BY <1>1, <1>3, <1>4, <1>5 DEF Cool

LEMMA RecordsCool ==
    ASSUME Typed, Cool, NEW h \in Handlers, RecordSent(h)
    PROVE  Cool'
<1> PICK v \in Visitors, p \in Products : v = hand[h].visitor /\ p = hand[h].product
  BY RecordsDoes
<1> PICK r : r = Row(hand[h])
  OBVIOUS
<1>0. /\ at[h] = "record" /\ at'[h] = "judge"
      /\ \A g \in Handlers \ {h} : at'[g] = at[g] /\ hand'[g] = hand[g]
      /\ cooling' = cooling \cup {r}
      /\ cands' = cands /\ todo' = todo /\ mails' = mails /\ torn' = torn
  BY RecordsDoes
<1>a. r.visitor = v /\ r.product = p
  BY DEF Row
<1>b. Mails(h, v, p) /\ \A w, q : Mails(h, w, q) => w = v /\ q = p
  BY DEF Mails
<1>c. Carries(h, v)
  BY <1>0 DEF Carries, Mailing
<1>1. ASSUME NEW g \in Handlers PROVE Once(g)'
  BY <1>0 DEF Cool, Once, Mailing
<1>2. ASSUME NEW g \in Handlers, NEW w, Carries(g, w)' PROVE Carries(g, w)
  BY <1>0, <1>2 DEF Carries, Mailing
<1>3. ASSUME NEW w \in Visitors \ torn' PROVE Alone(w)'
  <2>1. Alone(w)
    BY <1>0 DEF Cool
  <2> QED BY <1>2, <2>1 DEF Alone
<1>4. ASSUME NEW w \in Visitors \ torn', NEW q \in Products, ~(w = v /\ q = p)
      PROVE  OneMail(w, q)'
  <2>1. OneMail(w, q)
    BY <1>0 DEF Cool
  <2>2. CoolOf(w, q)' = CoolOf(w, q)
    BY <1>0, <1>a, <1>4 DEF CoolOf
  <2>3. Recording(w, q)' <=> Recording(w, q)
    <3>1. ~Mails(h, w, q)
      BY <1>b, <1>4
    <3>2. \A g \in Handlers \ {h} : Mails(g, w, q)' <=> Mails(g, w, q)
      BY <1>0 DEF Mails
    <3> QED BY <1>0, <3>1, <3>2 DEF Recording
  <2>4. Pending(w, q)' => Pending(w, q)
    BY <1>0 DEF Pending, Mails
  <2> QED BY <1>0, <2>1, <2>2, <2>3, <2>4, SameOne
<1>5. ASSUME v \notin torn' PROVE OneMail(v, p)'
  <2>1. OneMail(v, p) /\ Alone(v)
    BY <1>0, <1>5 DEF Cool
  <2>2. Recording(v, p)
    BY <1>0, <1>b DEF Recording
  <2>3. mails[<<v, p>>] = 1 /\ CoolOf(v, p) = {}
    BY <2>1, <2>2 DEF OneMail
  <2>4. CoolOf(v, p)' = {r}
    BY <1>0, <1>a, <2>3 DEF CoolOf
  <2>5. \A g \in Handlers \ {h} : ~Carries(g, v)
    BY <1>c, <2>1 DEF Alone
  <2>6. ~Recording(v, p)'
    BY <1>0, <2>5 DEF Recording, Mails, Carries, Mailing
  <2>7. ~Pending(v, p)
    BY <2>1, <2>3 DEF OneMail
  <2>8. ~Pending(v, p)'
    BY <1>0, <2>7 DEF Pending, Mails
  <2> QED BY <1>0, <2>3, <2>4, <2>6, <2>8 DEF OneMail
<1> QED BY <1>1, <1>3, <1>4, <1>5 DEF Cool

LEMMA EndsCool ==
    ASSUME Typed, Cool, NEW x, (x \in cooling /\ CooldownEnds(x)) \/ (x \in actions /\ WeekEnds(x))
    PROVE  Cool'
<1>0. /\ x.visitor \in Visitors /\ x.product \in Products
      /\ at' = at /\ hand' = hand /\ cands' = cands /\ todo' = todo /\ torn' = torn
  BY EndsDo
<1>1. ASSUME NEW g \in Handlers PROVE Once(g)'
  BY <1>0 DEF Cool, Once
<1>2. ASSUME NEW w \in Visitors \ torn' PROVE Alone(w)'
  BY <1>0 DEF Cool, Alone, Carries
<1>3. ASSUME NEW w \in Visitors \ torn', NEW q \in Products PROVE OneMail(w, q)'
  <2>1. OneMail(w, q)
    BY <1>0 DEF Cool
  <2>2. (Recording(w, q)' <=> Recording(w, q)) /\ (Pending(w, q)' <=> Pending(w, q))
    BY <1>0 DEF Recording, Pending, Mails
  <2>3. CASE WeekEnds(x)
    <3>1. CoolOf(w, q)' = CoolOf(w, q) /\ mails' = mails
      BY <2>3 DEF WeekEnds, CoolOf
    <3> QED BY <2>1, <2>2, <3>1, SameOne
  <2>4. CASE x \in cooling /\ CooldownEnds(x) /\ ~(x.visitor = w /\ x.product = q)
    <3>1. CoolOf(w, q)' = CoolOf(w, q)
      BY <2>4 DEF CooldownEnds, CoolOf
    <3>2. mails'[<<w, q>>] = mails[<<w, q>>]
      BY <1>0, <2>4 DEF CooldownEnds, Typed, OwnTypes, RowTypes, Interests
    <3> QED BY <2>1, <2>2, <3>1, <3>2, SameOne
  <2>5. CASE x \in cooling /\ CooldownEnds(x) /\ x.visitor = w /\ x.product = q
    <3>1. x \in CoolOf(w, q)
      BY <2>5 DEF CoolOf
    <3>2. mails[<<w, q>>] = 1 /\ CoolOf(w, q) = {x} /\ ~Recording(w, q)
      BY <2>1, <3>1 DEF OneMail
    <3>3. CoolOf(w, q)' = {}
      BY <2>5, <3>2 DEF CooldownEnds, CoolOf
    <3>4. mails'[<<w, q>>] = 0
      BY <1>0, <2>5, <3>2 DEF CooldownEnds, Typed, OwnTypes, RowTypes, Interests
    <3> QED BY <2>2, <3>2, <3>3, <3>4 DEF OneMail
  <2> QED BY <2>3, <2>4, <2>5
<1> QED BY <1>1, <1>2, <1>3 DEF Cool

LEMMA InitCool == Init => Cool
<1> SUFFICES ASSUME Init PROVE Cool
  OBVIOUS
<1>1. \A h \in Handlers : at[h] = "idle" /\ cands[h] = {} /\ todo[h] = {}
  BY DEF Init, TokenInit
<1>2. cooling = {} /\ \A v \in Visitors, p \in Products : mails[<<v, p>>] = 0
  BY DEF Init, Interests
<1> QED BY <1>1, <1>2 DEF Cool, Once, Alone, Carries, OneMail, CoolOf, Recording, Pending, Mailing

LEMMA NextCool == Typed /\ Cool /\ [Next]_vars => Cool'
BY CampaignCases, CalmCool, AddsCool, PicksCool, SchedulesCool, RecordsCool, EndsCool

\* One campaign about a product is scheduled for a visitor in a cooldown, however many runs
\* there are, unless two of them carried the visitor at once or a scheduled one left no
\* SENT row.
THEOREM OneInCooldown == Spec => []CooldownHolds
<1>1. ASSUME Typed, Cool PROVE CooldownHolds
  <2>1. ASSUME NEW i \in Interests, i[1] \notin torn PROVE mails[i] <= 1
    <3>1. i[1] \in Visitors /\ i[2] \in Products /\ i = <<i[1], i[2]>>
      BY DEF Interests
    <3>2. OneMail(i[1], i[2])
      BY <1>1, <2>1, <3>1 DEF Cool
    <3>3. mails[<<i[1], i[2]>>] \in {0, 1}
      BY <3>2 DEF OneMail
    <3> QED BY <3>1, <3>3
  <2> QED BY <2>1 DEF CooldownHolds
<1> QED BY <1>1, InitCool, NextCool, AlwaysTyped, PTL DEF Spec

(***************************************************************************)
(* As many campaigns in a week as a visitor may get.                       *)
(***************************************************************************)

\* A run has one product at most for the visitor: with two it would be crowded.
Single(h, v) ==
    /\ \A x, y \in cands[h] : x[1] = v /\ y[1] = v => x = y
    /\ at[h] \in Mailing /\ hand[h].visitor = v => \A x \in cands[h] : x[1] # v

Recorded(v) == \E h \in Handlers : at[h] = "record" /\ hand[h].visitor = v
Carried(v) == \E h \in Handlers : Carries(h, v)

\* The campaigns of the week have their rows, but for the one that waits for its own; a
\* run carries the visitor only while there is room for another row.
Counted(v) ==
    /\ weekly[v] = Cardinality(OfWeek(v)) + IF Recorded(v) THEN 1 ELSE 0
    /\ Cardinality(OfWeek(v)) <= MaxPerWeek
    /\ Carried(v) => Cardinality(OfWeek(v)) < MaxPerWeek
OneWeek(v) == Counted(v) /\ \A h \in Handlers : Single(h, v)
Week == \A v \in Visitors \ (crowded \cup torn) : OneWeek(v)

LEMMA WeekTypes ==
    ASSUME Typed, Numbered, NEW v \in Visitors
    PROVE  IsFiniteSet(OfWeek(v)) /\ Cardinality(OfWeek(v)) \in Nat /\ weekly[v] \in Int
           /\ MaxPerWeek \in Nat
<1>1. IsFiniteSet(OfWeek(v))
  BY FS_Subset DEF Numbered, OfWeek
<1> QED BY <1>1, FS_CardinalityType, MarketingAssumption DEF Typed, OwnTypes, RowTypes

LEMMA SameCount ==
    ASSUME NEW v, Counted(v), weekly'[v] = weekly[v], OfWeek(v)' = OfWeek(v),
           Recorded(v)' <=> Recorded(v), Carried(v)' => Carried(v)
    PROVE  Counted(v)'
BY DEF Counted

LEMMA CalmWeek == ASSUME Typed, Numbered, Week, Calm PROVE Week'
<1>1. ASSUME NEW v \in Visitors \ (crowded' \cup torn') PROVE OneWeek(v)'
  <2>1. OneWeek(v) /\ weekly' = weekly
    BY DEF Week, Calm
  <2>2. ASSUME NEW h \in Handlers PROVE Single(h, v)'
    BY <2>1 DEF OneWeek, Single, Calm, Mailing
  <2>3. OfWeek(v)' = OfWeek(v)
    BY <1>1 DEF Calm, OfWeek
  <2>4. Recorded(v)' <=> Recorded(v)
    <3>1. \A h \in Handlers : at'[h] = "record" => at[h] = "record" /\ hand'[h] = hand[h]
      BY DEF Calm, Mailing
    <3>2. \A h \in Handlers : at[h] = "record" /\ hand[h].visitor = v => at'[h] = "record"
      BY <1>1 DEF Calm
    <3> QED BY <3>1, <3>2 DEF Recorded
  <2>5. Carried(v)' => Carried(v)
    BY DEF Calm, Carried, Carries, Mailing
  <2>6. Counted(v)'
    BY <2>1, <2>3, <2>4, <2>5, SameCount DEF OneWeek
  <2> QED BY <2>2, <2>6 DEF OneWeek
<1> QED BY <1>1 DEF Week

LEMMA AddsWeek ==
    ASSUME Typed, Numbered, Week, NEW h \in Handlers, NEW i, Adds(h, i)
    PROVE  Week'
<1> PICK v \in Visitors : v = i[1]
  BY AddsDoes
<1>0. /\ at[h] = "build" /\ at'[h] \in {"judge", "build"}
      /\ \A g \in Handlers \ {h} : at'[g] = at[g] /\ cands'[g] = cands[g]
      /\ Carries(h, v) => v \in crowded'
      /\ torn \subseteq torn' /\ crowded \subseteq crowded'
      /\ UNCHANGED <<hand, actions, weekly>>
  BY AddsDoes DEF Adds
<1>a. PICK x : cands'[h] = cands[h] \cup {x} /\ x[1] = v
  <2>1. cands'[h] = cands[h] \cup {<<v, i[2], profile[v].link>>}
    BY AddsDoes
  <2>2. <<v, i[2], profile[v].link>>[1] = v
    OBVIOUS
  <2> QED BY <2>1, <2>2
<1>1. ASSUME NEW w \in Visitors \ (crowded' \cup torn') PROVE OneWeek(w)'
  <2>1. OneWeek(w)
    BY <1>0 DEF Week
  <2>2. ASSUME NEW g \in Handlers PROVE Single(g, w)'
    <3>1. Single(g, w)
      BY <2>1 DEF OneWeek
    <3>2. g = h /\ w = v => \A y \in cands[h] : y[1] # v
      BY <1>0, <1>1 DEF Carries
    <3> QED BY <1>0, <1>a, <3>1, <3>2 DEF Single, Mailing
  <2>3. OfWeek(w)' = OfWeek(w) /\ weekly'[w] = weekly[w]
    BY <1>0 DEF OfWeek
  <2>4. Recorded(w)' <=> Recorded(w)
    BY <1>0 DEF Recorded
  <2>5. Carried(w)' => Carried(w) \/ w = v
    BY <1>0, <1>a DEF Carried, Carries, Mailing
  <2>6. w = v => Cardinality(OfWeek(w)) < MaxPerWeek
    BY DEF Adds, Allowed
  <2>7. Counted(w)'
    BY <2>1, <2>3, <2>4, <2>5, <2>6 DEF OneWeek, Counted
  <2> QED BY <2>2, <2>7 DEF OneWeek
<1> QED BY <1>1 DEF Week

LEMMA PicksWeek ==
    ASSUME Typed, Numbered, Week, NEW h \in Handlers, NEW x, Picks(h, x)
    PROVE  Week'
<1>0. /\ at[h] = "judge" /\ at'[h] = "contact" /\ x \in cands[h]
      /\ \A g \in Handlers \ {h} : at'[g] = at[g] /\ cands'[g] = cands[g] /\ hand'[g] = hand[g]
      /\ cands'[h] = cands[h] \ {x} /\ hand'[h].visitor = x[1]
      /\ UNCHANGED <<actions, weekly, crowded, torn>>
  BY PicksDoes DEF Picks
<1>1. ASSUME NEW w \in Visitors \ (crowded' \cup torn') PROVE OneWeek(w)'
  <2>1. OneWeek(w) /\ OfWeek(w)' = OfWeek(w) /\ weekly'[w] = weekly[w]
    BY <1>0 DEF Week, OfWeek
  <2>2. ASSUME NEW g \in Handlers PROVE Single(g, w)'
    BY <1>0, <2>1 DEF OneWeek, Single
  <2>3. Recorded(w)' <=> Recorded(w)
    BY <1>0 DEF Recorded
  <2>4. Carried(w)' => Carried(w)
    BY <1>0 DEF Carried, Carries
  <2>5. Counted(w)'
    BY <2>1, <2>3, <2>4, SameCount DEF OneWeek
  <2> QED BY <2>2, <2>5 DEF OneWeek
<1> QED BY <1>1 DEF Week

LEMMA SchedulesWeek ==
    ASSUME Typed, Numbered, Cool, Week, NEW h \in Handlers, Schedules(h)
    PROVE  Week'
<1> PICK v \in Visitors : v = hand[h].visitor
  BY SchedulesDoes
<1>0. /\ at[h] = "campaign" /\ at'[h] = "record"
      /\ \A g \in Handlers \ {h} : at'[g] = at[g] /\ hand'[g] = hand[g]
      /\ hand'[h].visitor = v /\ weekly' = [weekly EXCEPT ![v] = @ + 1]
      /\ cands' = cands /\ actions' = actions /\ crowded' = crowded /\ torn' = torn
  BY SchedulesDoes
<1>1. ASSUME NEW w \in Visitors \ (crowded' \cup torn') PROVE OneWeek(w)'
  <2>1. OneWeek(w) /\ OfWeek(w)' = OfWeek(w) /\ Alone(w)
    BY <1>0 DEF Week, OfWeek, Cool
  <2>2. ASSUME NEW g \in Handlers PROVE Single(g, w)'
    BY <1>0, <2>1 DEF OneWeek, Single, Mailing
  <2>3. Carried(w)' => Carried(w)
    BY <1>0 DEF Carried, Carries, Mailing
  <2>4. CASE w # v
    <3>1. weekly'[w] = weekly[w]
      BY <1>0, <2>4 DEF Typed, OwnTypes, RowTypes
    <3>2. Recorded(w)' <=> Recorded(w)
      BY <1>0, <2>4 DEF Recorded
    <3>3. Counted(w)'
      BY <2>1, <2>3, <3>1, <3>2, SameCount DEF OneWeek
    <3> QED BY <2>2, <3>3 DEF OneWeek
  <2>5. CASE w = v
    <3>1. Carries(h, w)
      BY <1>0, <2>5 DEF Carries, Mailing
    <3>2. ~Recorded(w)
      BY <1>0, <2>1, <3>1 DEF Alone, Recorded, Carries, Mailing
    <3>3. Recorded(w)'
      BY <1>0, <2>5 DEF Recorded
    <3>4. weekly'[w] = weekly[w] + 1
      BY <1>0, <2>5 DEF Typed, OwnTypes, RowTypes
    <3>5. Counted(w)'
      BY <2>1, <2>3, <3>2, <3>3, <3>4, WeekTypes DEF OneWeek, Counted
    <3> QED BY <2>2, <3>5 DEF OneWeek
  <2> QED BY <2>4, <2>5
<1> QED BY <1>1 DEF Week

LEMMA RecordsWeek ==
    ASSUME Typed, Numbered, Cool, Week, NEW h \in Handlers, RecordSent(h)
    PROVE  Week'
<1> PICK v \in Visitors : v = hand[h].visitor
  BY RecordsDoes
<1> PICK r : r = Row(hand[h])
  OBVIOUS
<1>0. /\ at[h] = "record" /\ at'[h] = "judge"
      /\ \A g \in Handlers \ {h} : at'[g] = at[g] /\ hand'[g] = hand[g]
      /\ actions' = actions \cup {r}
      /\ cands' = cands /\ weekly' = weekly /\ crowded' = crowded /\ torn' = torn
  BY RecordsDoes
<1>a. r.visitor = v /\ r \notin actions
  BY <1>0 DEF Row, Numbered, Fresh
<1>1. ASSUME NEW w \in Visitors \ (crowded' \cup torn') PROVE OneWeek(w)'
  <2>1. OneWeek(w) /\ Alone(w)
    BY <1>0 DEF Week, Cool
  <2>2. ASSUME NEW g \in Handlers PROVE Single(g, w)'
    BY <1>0, <2>1 DEF OneWeek, Single, Mailing
  <2>3. \A g \in Handlers : Carries(g, w)' => Carries(g, w)
    BY <1>0 DEF Carries, Mailing
  <2>4. CASE w # v
    <3>1. OfWeek(w)' = OfWeek(w)
      BY <1>0, <1>a, <2>4 DEF OfWeek
    <3>2. Recorded(w)' <=> Recorded(w)
      BY <1>0, <2>4 DEF Recorded
    <3>3. Counted(w)'
      BY <1>0, <2>1, <2>3, <3>1, <3>2, SameCount DEF OneWeek, Carried
    <3> QED BY <2>2, <3>3 DEF OneWeek
  <2>5. CASE w = v
    <3>1. Recorded(w) /\ Carries(h, w)
      BY <1>0, <2>5 DEF Recorded, Carries, Mailing
    <3>2. \A g \in Handlers \ {h} : ~Carries(g, w)
      BY <2>1, <3>1 DEF Alone
    <3>3. ~Recorded(w)'
      BY <1>0, <3>2 DEF Recorded, Carries, Mailing
    <3>4. ~Carries(h, w)'
      <4>1. \A x \in cands[h] : x[1] # w
        BY <1>0, <2>1, <2>5 DEF OneWeek, Single, Mailing
      <4> QED BY <1>0, <4>1 DEF Carries, Mailing
    <3>5. ~Carried(w)'
      BY <2>3, <3>2, <3>4 DEF Carried
    <3>6. OfWeek(w)' = OfWeek(w) \cup {r} /\ r \notin OfWeek(w)
      BY <1>0, <1>a, <2>5 DEF OfWeek
    <3>7. Cardinality(OfWeek(w)') = Cardinality(OfWeek(w)) + 1
      BY <3>6, WeekTypes, FS_AddElement
    <3>8. Cardinality(OfWeek(w)) < MaxPerWeek /\ weekly[w] = Cardinality(OfWeek(w)) + 1
      BY <2>1, <3>1 DEF OneWeek, Counted, Carried
    <3>9. Counted(w)'
      BY <1>0, <3>3, <3>5, <3>7, <3>8, WeekTypes DEF Counted
    <3> QED BY <2>2, <3>9 DEF OneWeek
  <2> QED BY <2>4, <2>5
<1> QED BY <1>1 DEF Week

LEMMA EndsWeek ==
    ASSUME Typed, Numbered, Week,
           NEW x, (x \in cooling /\ CooldownEnds(x)) \/ (x \in actions /\ WeekEnds(x))
    PROVE  Week'
<1>0. /\ x.visitor \in Visitors
      /\ at' = at /\ hand' = hand /\ cands' = cands /\ crowded' = crowded /\ torn' = torn
  BY EndsDo
<1>1. ASSUME NEW w \in Visitors \ (crowded' \cup torn') PROVE OneWeek(w)'
  <2>1. OneWeek(w)
    BY <1>0 DEF Week
  <2>2. /\ (Recorded(w)' <=> Recorded(w)) /\ (Carried(w)' <=> Carried(w))
        /\ \A g \in Handlers : Single(g, w)'
    BY <1>0, <2>1 DEF Recorded, Carried, Carries, OneWeek, Single
  <2>3. CASE CooldownEnds(x)
    <3>1. OfWeek(w)' = OfWeek(w) /\ weekly' = weekly
      BY <2>3 DEF CooldownEnds, OfWeek
    <3> QED BY <2>1, <2>2, <3>1, SameCount DEF OneWeek
  <2>4. CASE x \in actions /\ WeekEnds(x) /\ x.visitor # w
    <3>1. OfWeek(w)' = OfWeek(w)
      BY <2>4 DEF WeekEnds, OfWeek
    <3>2. weekly'[w] = weekly[w]
      BY <1>0, <2>4 DEF WeekEnds, Typed, OwnTypes, RowTypes
    <3> QED BY <2>1, <2>2, <3>1, <3>2, SameCount DEF OneWeek
  <2>5. CASE x \in actions /\ WeekEnds(x) /\ x.visitor = w
    <3>1. OfWeek(w)' = OfWeek(w) \ {x} /\ x \in OfWeek(w)
      BY <2>5 DEF WeekEnds, OfWeek
    <3>2. weekly'[w] = weekly[w] - 1
      BY <1>0, <2>5 DEF WeekEnds, Typed, OwnTypes, RowTypes
    <3>3. Cardinality(OfWeek(w)') = Cardinality(OfWeek(w)) - 1
      BY <3>1, WeekTypes, FS_RemoveElement
    <3>4. Counted(w)'
      BY <2>1, <2>2, <3>2, <3>3, WeekTypes DEF OneWeek, Counted
    <3> QED BY <2>2, <3>4 DEF OneWeek
  <2> QED BY <2>3, <2>4, <2>5
<1> QED BY <1>1 DEF Week

LEMMA InitNumbered == Init => Numbered
BY FS_EmptySet DEF Init, TokenInit, Numbered

LEMMA InitWeek == Init => Week
<1> SUFFICES ASSUME Init PROVE Week
  OBVIOUS
<1>1. /\ \A h \in Handlers : at[h] = "idle" /\ cands[h] = {}
      /\ actions = {} /\ \A v \in Visitors : weekly[v] = 0
  BY DEF Init, TokenInit
<1>2. \A v : OfWeek(v) = {}
  BY <1>1 DEF OfWeek
<1>3. ASSUME NEW v \in Visitors PROVE ~Carried(v) /\ ~Recorded(v) /\ \A h \in Handlers : Single(h, v)
  BY <1>1 DEF Carried, Carries, Recorded, Single, Mailing
<1>4. Cardinality({}) = 0
  BY FS_EmptySet
<1> QED BY <1>1, <1>2, <1>3, <1>4, MarketingAssumption DEF Week, OneWeek, Counted

LEMMA NextWeek == Typed /\ Numbered /\ Cool /\ Week /\ [Next]_vars => Week'
BY CampaignCases, CalmWeek, AddsWeek, PicksWeek, SchedulesWeek, RecordsWeek, EndsWeek

\* No more campaigns are scheduled for a visitor in a week than the store allows, however
\* many runs there are, unless one run read two of its products, two of them carried the
\* visitor at once or a scheduled campaign left no SENT row.
THEOREM WeekIsLimited == Spec => []WeekLimitHolds
<1>1. ASSUME Typed, Numbered, Week PROVE WeekLimitHolds
  <2>1. ASSUME NEW v \in Visitors, v \notin crowded \cup torn PROVE weekly[v] <= MaxPerWeek
    <3>1. Counted(v) /\ (Recorded(v) => Carried(v))
      BY <1>1, <2>1 DEF Week, OneWeek, Recorded, Carried, Carries, Mailing
    <3> QED BY <1>1, <3>1, WeekTypes DEF Counted
  <2> QED BY <2>1 DEF WeekLimitHolds
<1>2. Init => Numbered /\ Cool /\ Week
  BY InitNumbered, InitCool, InitWeek
<1>3. Typed /\ Numbered /\ Cool /\ Week /\ [Next]_vars => (Numbered /\ Cool /\ Week)'
  BY NextNumbered, NextCool, NextWeek
<1> QED BY <1>1, <1>2, <1>3, AlwaysTyped, PTL DEF Spec
=====
