------------------------- MODULE TeamMembersProofs -------------------------
(***************************************************************************)
(* Theorems about TeamMembers and the TeamPlan it composes with, for every *)
(* set of requests, users and customers and every bound.                   *)
(***************************************************************************)
EXTENDS TeamMembers, FiniteSetTheorems, TLAPS

-----------------------------------------------------------------------------
(***************************************************************************)
(* Types, and what a request has where it is.                              *)
(***************************************************************************)

Ops == {"none", "limit", "admin", "checkout", "sync", "invite", "password", "setRole", "remove",
        "accept", "revoke"}
Work == [user : Users \cup {"none"}, role : Roles \cup {"none"}, id : Nat]

\* The requests' part of the type invariant.
RequestsTyped ==
    /\ op \in [Requests -> Ops]
    /\ at \in [Requests -> Points]
    /\ then \in [Requests -> Points]
    /\ hand \in [Requests -> Plans \cup {"none"}]
    /\ who \in [Requests -> Customers \cup {"none"}]
    /\ ans \in [Requests -> Status]
    /\ work \in [Requests -> Work]
    /\ seen \in [Requests -> Roles \cup {"none"}]

\* The rest of it.
TeamTyped ==
    /\ mix \in Mixes
    /\ plan \in Plans /\ cache \in Plans \cup {"none"}
    /\ customer \in Customers \cup {"none"}
    /\ lag \in BOOLEAN /\ lost \in BOOLEAN /\ overtaken \in BOOLEAN /\ twice \in BOOLEAN
    /\ older \in SUBSET Requests /\ late \in SUBSET Requests
StripeTyped ==
    /\ stripe \in [Customers -> Status] /\ saved \in [Customers -> Status]
    /\ checkout \in SUBSET Customers
    /\ owed \in [Customers -> Nat]
    /\ asks \in Nat /\ changes \in Nat /\ stops \in Nat
RowsTyped ==
    /\ role \in [Users -> Roles \cup {"none"}]
    /\ lastId \in Nat
    /\ invites \subseteq [id : 1..lastId, email : Users, role : Roles]
HistoryTyped ==
    /\ shaky \subseteq Requests /\ headless \in BOOLEAN
    /\ joined \subseteq Nat \X Users /\ leaked \subseteq Nat

LEMMA TypesSplit ==
    TypeOK <=> RequestsTyped /\ TeamTyped /\ StripeTyped /\ RowsTyped /\ HistoryTyped
BY DEF TypeOK, PlanTypeOK, RequestsTyped, TeamTyped, StripeTyped, RowsTyped, HistoryTyped, Ops, Work

LEMMA TypesJoin ==
    ASSUME RequestsTyped', TeamTyped', StripeTyped', RowsTyped', HistoryTyped'
    PROVE  TypeOK'
BY DEF TypeOK, PlanTypeOK, RequestsTyped, TeamTyped, StripeTyped, RowsTyped, HistoryTyped, Ops, Work

PointedAt(r) ==
    /\ then[r] \in {"idle", "answer", "open", "count"}
    /\ at[r] = "idle" => then[r] = "idle"
    /\ at[r] \in {"count", "create", "add"} => then[r] = "count"
    /\ then[r] = "count" => work[r].user \in Users /\ work[r].role \in Roles
    /\ at[r] \in {"find", "admins", "write", "join"} => work[r].user \in Users
    /\ at[r] = "invite" /\ op[r] # "revoke" => work[r].user \in Users
    /\ at[r] = "invite" => op[r] \in {"accept", "revoke"}
    /\ at[r] \in {"invite", "join", "consume"} => work[r].id \in 1..lastId
    /\ at[r] \in {"team", "list", "row", "update"} => op[r] = "sync"
    /\ op[r] = "sync" => who[r] \in Customers
    /\ at[r] \in {"open", "save"} \/ then[r] = "open" => op[r] = "checkout"
    /\ at[r] = "save" => who[r] \in Customers

\* A request has a user, an invitation, a customer where it needs one.
Pointed == \A r \in Requests : PointedAt(r)

Typed == TypeOK /\ Pointed

\* Only r moves.
Own(r) == \A q \in Requests \ {r} :
    UNCHANGED <<op[q], at[q], then[q], hand[q], who[q], ans[q], work[q], seen[q]>>

LEMMA OwnKeepsPointed ==
    ASSUME Pointed, NEW r \in Requests, Own(r), PointedAt(r)', lastId \in Nat, lastId' \in Nat,
           lastId <= lastId'
    PROVE  Pointed'
<1>1. ASSUME NEW q \in Requests \ {r} PROVE PointedAt(q)'
  <2>1. PointedAt(q)
    BY DEF Pointed
  <2>2. UNCHANGED <<op[q], at[q], then[q], who[q], work[q]>>
    BY DEF Own
  <2>3. work[q].id \in 1..lastId => work[q].id \in 1..lastId'
    OBVIOUS
  <2> QED BY <2>1, <2>2, <2>3 DEF PointedAt
<1> QED BY <1>1 DEF Pointed

LEMMA EndsTyped ==
    ASSUME RequestsTyped, NEW r \in Requests, Ends(r),
           work' = [work EXCEPT ![r] = NoWork], seen' = [seen EXCEPT ![r] = "none"]
    PROVE  RequestsTyped' /\ Own(r) /\ PointedAt(r)' /\ at'[r] = "idle" /\ op'[r] = "none"
<1>1. /\ "none" \in Ops /\ "idle" \in Points /\ "none" \in Status /\ "none" \in Roles \cup {"none"}
      /\ NoWork \in Work
  BY DEF Ops, Points, PlanPoints, Status, Roles, NoWork, Work
<1>2. RequestsTyped' /\ Own(r)
  BY <1>1 DEF Ends, RequestsTyped, Own
<1>3. at'[r] = "idle" /\ op'[r] = "none" /\ then'[r] = "idle"
  BY DEF Ends, RequestsTyped
<1> QED BY <1>2, <1>3 DEF PointedAt

LEMMA GoesTyped ==
    ASSUME RequestsTyped, NEW r \in Requests, NEW p \in Points, GoesTo(r, p),
           UNCHANGED <<op, then, hand, who, ans, work, seen>>
    PROVE  RequestsTyped' /\ Own(r) /\ at'[r] = p
BY DEF GoesTo, RequestsTyped, Own

\* A request that a plan's step ends forgets its work, another keeps it.
LEMMA PlanWork ==
    ASSUME RequestsTyped, NEW r \in Requests, PlanStep(r)
    PROVE  /\ work' \in [Requests -> Work] /\ seen' \in [Requests -> Roles \cup {"none"}]
           /\ \A q \in Requests \ {r} : UNCHANGED <<work[q], seen[q]>>
           /\ at'[r] # "idle" => UNCHANGED <<work, seen>>
<1>1. NoWork \in Work /\ "none" \in Roles \cup {"none"}
  BY DEF NoWork, Work, Roles
<1> QED BY <1>1 DEF PlanStep, RequestsTyped

LEMMA PlanEnds ==
    ASSUME RequestsTyped, NEW r \in Requests, PlanStep(r), Ends(r)
    PROVE  RequestsTyped' /\ Own(r) /\ PointedAt(r)' /\ at'[r] = "idle" /\ op'[r] = "none"
<1>1. at'[r] = "idle"
  BY DEF Ends, RequestsTyped
<1>2. work' = [work EXCEPT ![r] = NoWork] /\ seen' = [seen EXCEPT ![r] = "none"]
  BY <1>1 DEF PlanStep
<1> QED BY <1>2, EndsTyped

LEMMA CacheStepTyped ==
    ASSUME Typed, NEW r \in Requests, PlanStep(r), CacheSteps(r)
    PROVE  RequestsTyped' /\ Own(r) /\ PointedAt(r)' /\ TeamTyped' /\ StripeTyped'
<1> USE TypesSplit DEF Typed
<1>1. PointedAt(r) /\ UNCHANGED <<mix, stripes, saved, asks, stops, lastId>>
  BY DEF Pointed, CacheSteps, ReadCache, FillCache, StoreCache, InvalidateCache, PlanStep, rows, Ends
<1>2. StripeTyped'
  BY <1>1 DEF StripeTyped, stripes
<1>3. CASE ReadCache(r)
  <2>1. /\ UNCHANGED <<op, then, who, ans, team>>
        /\ at' \in [Requests -> Points] /\ at'[r] \in {"fill", then[r]}
        /\ hand' \in [Requests -> Plans \cup {"none"}]
        /\ \A q \in Requests \ {r} : UNCHANGED <<at[q], hand[q]>>
    BY <1>1, <1>3 DEF ReadCache, GoesTo, RequestsTyped, TeamTyped, Points, PlanPoints
  <2>2. RequestsTyped' /\ Own(r)
    BY <2>1, PlanWork DEF RequestsTyped, Own
  <2>3. TeamTyped'
    BY <1>1, <2>1 DEF TeamTyped, team
  <2>4. PointedAt(r)'
    BY <1>1, <2>1, PlanWork DEF PointedAt
  <2> QED BY <1>2, <2>2, <2>3, <2>4
<1>4. CASE FillCache(r)
  <2>1. /\ UNCHANGED <<op, then, who, ans, team>>
        /\ at' \in [Requests -> Points] /\ at'[r] = "store"
        /\ hand' \in [Requests -> Plans \cup {"none"}]
        /\ \A q \in Requests \ {r} : UNCHANGED <<at[q], hand[q]>>
    BY <1>1, <1>4 DEF FillCache, GoesTo, RequestsTyped, TeamTyped, Points, PlanPoints
  <2>2. RequestsTyped' /\ Own(r)
    BY <2>1, PlanWork DEF RequestsTyped, Own
  <2>3. TeamTyped'
    BY <1>1, <2>1 DEF TeamTyped, team
  <2>4. PointedAt(r)'
    BY <1>1, <2>1, PlanWork DEF PointedAt
  <2> QED BY <1>2, <2>2, <2>3, <2>4
<1>5. CASE StoreCache(r)
  <2>1. /\ UNCHANGED <<op, then, hand, who, ans>>
        /\ at' \in [Requests -> Points] /\ at'[r] = then[r]
        /\ \A q \in Requests \ {r} : UNCHANGED at[q]
    BY <1>1, <1>5 DEF StoreCache, GoesTo, RequestsTyped
  <2>2. RequestsTyped' /\ Own(r)
    BY <2>1, PlanWork DEF RequestsTyped, Own
  <2>3. TeamTyped'
    <3>1. /\ cache' \in Plans \cup {"none"}
          /\ lag' \in BOOLEAN /\ lost' \in BOOLEAN /\ older' \in SUBSET Requests
      BY <1>5 DEF StoreCache, TeamTyped, RequestsTyped
    <3>2. UNCHANGED <<plan, customer, overtaken, late, twice>>
      BY <1>5 DEF StoreCache
    <3> QED BY <1>1, <3>1, <3>2 DEF TeamTyped
  <2>4. PointedAt(r)'
    BY <1>1, <2>1, PlanWork DEF PointedAt
  <2> QED BY <1>2, <2>2, <2>3, <2>4
<1>6. CASE InvalidateCache(r)
  <2>1. TeamTyped'
    BY <1>1, <1>6 DEF InvalidateCache, TeamTyped
  <2> QED BY <1>2, <1>6, <2>1, PlanEnds DEF InvalidateCache
<1> QED BY <1>3, <1>4, <1>5, <1>6 DEF CacheSteps

LEMMA CheckoutStepTyped ==
    ASSUME Typed, NEW r \in Requests, PlanStep(r), CheckoutSteps(r) \/ Answer(r)
    PROVE  RequestsTyped' /\ Own(r) /\ PointedAt(r)' /\ TeamTyped' /\ StripeTyped'
<1> USE TypesSplit DEF Typed
<1>1. PointedAt(r) /\ UNCHANGED <<mix, lastId>>
  BY DEF Pointed, CheckoutSteps, Answer, CreateCustomer, SaveCustomer, OpenSession, PlanStep, rows, Ends
<1>2. CASE CreateCustomer(r)
  <2>1. /\ UNCHANGED <<op, then, hand, ans, team, stripes, saved, asks, stops>>
        /\ at' \in [Requests -> Points] /\ at'[r] = "save" /\ at[r] = "open"
        /\ who' \in [Requests -> Customers \cup {"none"}] /\ who'[r] \in Customers
        /\ \A q \in Requests \ {r} : UNCHANGED <<at[q], who[q]>>
    BY <1>2 DEF CreateCustomer, GoesTo, RequestsTyped, Points, PlanPoints
  <2>2. RequestsTyped' /\ Own(r)
    BY <2>1, PlanWork DEF RequestsTyped, Own
  <2>3. TeamTyped' /\ StripeTyped'
    BY <1>1, <2>1 DEF TeamTyped, StripeTyped, team, stripes
  <2>4. PointedAt(r)'
    BY <1>1, <2>1, PlanWork DEF PointedAt
  <2> QED BY <2>2, <2>3, <2>4
<1>3. CASE SaveCustomer(r)
  <2>1. /\ UNCHANGED <<op, hand, who, ans, plan, cache, older, lag, lost, overtaken, late, twice,
                       stripes, saved, asks, stops>>
        /\ at' \in [Requests -> Points] /\ at'[r] = "fill" /\ at[r] = "save"
        /\ then' \in [Requests -> Points] /\ then'[r] = "open"
        /\ \A q \in Requests \ {r} : UNCHANGED <<at[q], then[q]>>
        /\ customer' = who[r]
    BY <1>3 DEF SaveCustomer, GoesTo, RequestsTyped, Points, PlanPoints
  <2>2. RequestsTyped' /\ Own(r)
    BY <2>1, PlanWork DEF RequestsTyped, Own
  <2>3. TeamTyped' /\ StripeTyped'
    BY <1>1, <2>1 DEF TeamTyped, StripeTyped, RequestsTyped, stripes
  <2>4. PointedAt(r)'
    BY <1>1, <2>1, PlanWork DEF PointedAt
  <2> QED BY <2>2, <2>3, <2>4
<1>4. CASE OpenSession(r)
  <2>1. who[r] \in Customers
    BY <1>4 DEF OpenSession, RequestsTyped
  <2>2. TeamTyped' /\ StripeTyped'
    BY <1>1, <1>4, <2>1 DEF OpenSession, TeamTyped, StripeTyped, team
  <2> QED BY <1>4, <2>2, PlanEnds DEF OpenSession
<1>5. CASE Answer(r)
  <2>1. TeamTyped' /\ StripeTyped'
    BY <1>1, <1>5 DEF Answer, TeamTyped, StripeTyped, team, stripes
  <2> QED BY <1>5, <2>1, PlanEnds DEF Answer
<1> QED BY <1>2, <1>3, <1>4, <1>5 DEF CheckoutSteps

LEMMA WritePlanTyped ==
    ASSUME TeamTyped, NEW p \in Plans, WritePlan(p)
    PROVE  /\ plan' \in Plans /\ older' \in SUBSET Requests
           /\ UNCHANGED <<cache, lag, lost>>
BY DEF WritePlan, TeamTyped

LEMMA SyncStepTyped ==
    ASSUME Typed, NEW r \in Requests, PlanStep(r), SyncSteps(r)
    PROVE  RequestsTyped' /\ Own(r) /\ PointedAt(r)' /\ TeamTyped' /\ StripeTyped'
<1> USE TypesSplit DEF Typed
<1>1. PointedAt(r) /\ UNCHANGED <<mix, lastId>>
  BY DEF Pointed, SyncSteps, SyncReadTeam, SyncList, SyncSave, SyncUpdate, SyncWrites, PlanStep, rows,
         Ends
<1>2. CASE SyncReadTeam(r)
  <2>1. TeamTyped' /\ StripeTyped'
    BY <1>1, <1>2 DEF SyncReadTeam, TeamTyped, StripeTyped, team, stripes
  <2>2. CASE Ends(r)
    BY <2>1, <2>2, PlanEnds
  <2>3. CASE GoesTo(r, "list") /\ UNCHANGED <<mix, op, then, hand, who, ans>>
    <3>1. /\ UNCHANGED <<op, then, hand, who, ans>> /\ at[r] = "team"
          /\ at' \in [Requests -> Points] /\ at'[r] = "list"
          /\ \A q \in Requests \ {r} : UNCHANGED at[q]
      BY <1>2, <2>3 DEF SyncReadTeam, GoesTo, RequestsTyped, Points, PlanPoints
    <3>2. RequestsTyped' /\ Own(r)
      BY <3>1, PlanWork DEF RequestsTyped, Own
    <3>3. PointedAt(r)'
      BY <1>1, <3>1, PlanWork DEF PointedAt
    <3> QED BY <2>1, <3>2, <3>3
  <2> QED BY <1>2, <2>2, <2>3 DEF SyncReadTeam
<1>3. CASE SyncList(r)
  <2>1. /\ UNCHANGED <<op, then, hand, who, team, stripes, saved, asks, stops>>
        /\ at[r] = "list" /\ at' \in [Requests -> Points] /\ at'[r] = "row"
        /\ \A q \in Requests \ {r} : UNCHANGED at[q]
    BY <1>3 DEF SyncList, GoesTo, RequestsTyped, Points, PlanPoints
  <2>2. stripe[who[r]] \in Status
    BY <1>1, <2>1 DEF PointedAt, StripeTyped
  <2>3. ans' \in [Requests -> Status] /\ \A q \in Requests \ {r} : UNCHANGED ans[q]
    BY <1>3, <2>2 DEF SyncList, RequestsTyped
  <2>4. RequestsTyped' /\ Own(r)
    BY <2>1, <2>3, PlanWork DEF RequestsTyped, Own
  <2>5. TeamTyped' /\ StripeTyped'
    BY <1>1, <2>1 DEF TeamTyped, StripeTyped, team, stripes
  <2>6. PointedAt(r)'
    BY <1>1, <2>1, PlanWork DEF PointedAt
  <2> QED BY <2>4, <2>5, <2>6
<1>4. CASE SyncSave(r)
  <2>1. /\ UNCHANGED <<op, then, hand, who, ans, team, stripes, asks, stops>>
        /\ at[r] = "row" /\ at' \in [Requests -> Points] /\ at'[r] = "update"
        /\ \A q \in Requests \ {r} : UNCHANGED at[q]
        /\ saved' \in [Customers -> Status]
    BY <1>4 DEF SyncSave, GoesTo, RequestsTyped, StripeTyped, Points, PlanPoints
  <2>2. RequestsTyped' /\ Own(r)
    BY <2>1, PlanWork DEF RequestsTyped, Own
  <2>3. TeamTyped' /\ StripeTyped'
    BY <1>1, <2>1 DEF TeamTyped, StripeTyped, team, stripes
  <2>4. PointedAt(r)'
    BY <1>1, <2>1, PlanWork DEF PointedAt
  <2> QED BY <2>2, <2>3, <2>4
<1>5. CASE SyncUpdate(r)
  <2>1. /\ UNCHANGED <<op, hand, who, ans, customer, twice, stripes, saved, asks, stops>>
        /\ at[r] = "update" /\ at' \in [Requests -> Points] /\ at'[r] = "fill"
        /\ then' \in [Requests -> Points] /\ then'[r] = "answer"
        /\ \A q \in Requests \ {r} : UNCHANGED <<at[q], then[q]>>
    BY <1>5 DEF SyncUpdate, SyncWrites, GoesTo, RequestsTyped, Points, PlanPoints
  <2>2. RequestsTyped' /\ Own(r)
    BY <2>1, PlanWork DEF RequestsTyped, Own
  <2>3. TeamTyped'
    <3>1. PlanOf(ans[r]) \in Plans
      BY DEF PlanOf, Plans
    <3>2. /\ plan' \in Plans /\ older' \in SUBSET Requests
          /\ UNCHANGED <<cache, lag, lost>>
      BY <1>5, <3>1, WritePlanTyped DEF SyncUpdate, SyncWrites
    <3>3. late' \in SUBSET Requests /\ overtaken' \in BOOLEAN
      BY <1>5 DEF SyncUpdate, SyncWrites, TeamTyped
    <3> QED BY <1>1, <2>1, <3>2, <3>3 DEF TeamTyped
  <2>4. StripeTyped'
    BY <2>1 DEF StripeTyped, stripes
  <2>5. PointedAt(r)'
    BY <1>1, <2>1, PlanWork DEF PointedAt
  <2> QED BY <2>2, <2>3, <2>4, <2>5
<1> QED BY <1>2, <1>3, <1>4, <1>5 DEF SyncSteps

\* A request of a kind begins, or Stripe's webhook is called.
LEMMA BeginsTyped ==
    ASSUME Typed, NEW r \in Requests, NEW o \in Ops, NEW p \in Points, Begins(r, o, p)
    PROVE  /\ op' \in [Requests -> Ops] /\ op'[r] = o
           /\ at' \in [Requests -> Points] /\ at'[r] = p
           /\ \A q \in Requests \ {r} : UNCHANGED <<op[q], at[q]>>
           /\ asks' \in Nat /\ UNCHANGED mix
           /\ at[r] = "idle" /\ then[r] = "idle"
<1>1. at[r] = "idle" /\ then[r] = "idle"
  BY DEF Begins, Typed, Pointed, PointedAt
<1>2. op \in [Requests -> Ops] /\ at \in [Requests -> Points] /\ asks \in Nat
  BY TypesSplit DEF Typed, RequestsTyped, StripeTyped
<1> QED BY <1>1, <1>2 DEF Begins, GoesTo

LEMMA AsksTyped ==
    ASSUME Typed, NEW r \in Requests, Asks(r), UNCHANGED members
    PROVE  RequestsTyped' /\ Own(r) /\ PointedAt(r)' /\ TeamTyped' /\ StripeTyped'
<1> USE TypesSplit DEF Typed
<1>1. UNCHANGED <<work, seen, lastId>>
  BY DEF members
<1>2. {"limit", "admin", "checkout"} \subseteq Ops /\ {"cache", "invalidate", "open", "answer"} \subseteq Points
  BY DEF Ops, Points, PlanPoints
<1>3. CASE AskLimit(r)
  <2>1. Begins(r, "limit", "cache") /\ UNCHANGED <<hand, who, ans, team, stripes, saved, stops>>
    BY <1>3 DEF AskLimit
  <2>2. /\ then' \in [Requests -> Points] /\ then'[r] = "answer"
        /\ \A q \in Requests \ {r} : UNCHANGED then[q]
    BY <1>2, <1>3 DEF AskLimit, RequestsTyped
  <2>3. /\ op' \in [Requests -> Ops] /\ op'[r] = "limit"
        /\ at' \in [Requests -> Points] /\ at'[r] = "cache"
        /\ \A q \in Requests \ {r} : UNCHANGED <<op[q], at[q]>>
        /\ asks' \in Nat /\ UNCHANGED mix
    BY <1>2, <2>1, BeginsTyped
  <2>4. RequestsTyped' /\ Own(r)
    BY <1>1, <2>1, <2>2, <2>3 DEF RequestsTyped, Own
  <2>5. TeamTyped' /\ StripeTyped'
    BY <2>1, <2>3 DEF TeamTyped, StripeTyped, team, stripes
  <2>6. PointedAt(r)'
    BY <2>2, <2>3 DEF PointedAt
  <2> QED BY <2>4, <2>5, <2>6
<1>4. CASE AdminUpdate(r)
  <2>1. /\ Begins(r, "admin", "invalidate")
        /\ UNCHANGED <<then, hand, who, ans, customer, late, twice, stripes, saved, stops>>
        /\ overtaken' \in BOOLEAN
    BY <1>4 DEF AdminUpdate
  <2>2. /\ plan' \in Plans /\ older' \in SUBSET Requests
        /\ UNCHANGED <<cache, lag, lost>>
    BY <1>4, WritePlanTyped DEF AdminUpdate
  <2>3. /\ op' \in [Requests -> Ops] /\ op'[r] = "admin"
        /\ at' \in [Requests -> Points] /\ at'[r] = "invalidate"
        /\ \A q \in Requests \ {r} : UNCHANGED <<op[q], at[q]>>
        /\ asks' \in Nat /\ UNCHANGED mix /\ then[r] = "idle"
    BY <1>2, <2>1, BeginsTyped
  <2>4. RequestsTyped' /\ Own(r)
    BY <1>1, <2>1, <2>3 DEF RequestsTyped, Own
  <2>5. TeamTyped' /\ StripeTyped'
    BY <2>1, <2>2, <2>3 DEF TeamTyped, StripeTyped, stripes
  <2>6. PointedAt(r)'
    BY <2>1, <2>3 DEF PointedAt
  <2> QED BY <2>4, <2>5, <2>6
<1>5. CASE AskCheckout(r)
  <2>1. /\ Begins(r, "checkout", "open")
        /\ UNCHANGED <<then, hand, ans, plan, customer, cache, older, lag, lost, overtaken, late,
                       stripes, saved, stops>>
    BY <1>5 DEF AskCheckout, ChecksOut
  <2>2. /\ who' \in [Requests -> Customers \cup {"none"}]
        /\ \A q \in Requests \ {r} : UNCHANGED who[q]
        /\ twice' \in BOOLEAN
    BY <1>5 DEF AskCheckout, ChecksOut, RequestsTyped, TeamTyped
  <2>3. /\ op' \in [Requests -> Ops] /\ op'[r] = "checkout"
        /\ at' \in [Requests -> Points] /\ at'[r] = "open"
        /\ \A q \in Requests \ {r} : UNCHANGED <<op[q], at[q]>>
        /\ asks' \in Nat /\ UNCHANGED mix /\ then[r] = "idle"
    BY <1>2, <2>1, BeginsTyped
  <2>4. RequestsTyped' /\ Own(r)
    BY <1>1, <2>1, <2>2, <2>3 DEF RequestsTyped, Own
  <2>5. TeamTyped' /\ StripeTyped'
    BY <2>1, <2>2, <2>3 DEF TeamTyped, StripeTyped, stripes
  <2>6. PointedAt(r)'
    BY <2>1, <2>3 DEF PointedAt
  <2> QED BY <2>4, <2>5, <2>6
<1> QED BY <1>3, <1>4, <1>5 DEF Asks

LEMMA DeliverTyped ==
    ASSUME Typed, NEW r \in Requests, NEW c \in Customers, Deliver(r, c), UNCHANGED members
    PROVE  RequestsTyped' /\ Own(r) /\ PointedAt(r)' /\ TeamTyped' /\ StripeTyped'
<1> USE TypesSplit DEF Typed
<1>1. /\ UNCHANGED <<work, seen, lastId, mix, then, hand, ans, team, stripe, checkout, changes, saved,
                     asks, stops>>
      /\ PointedAt(r) /\ at[r] = "idle"
  BY DEF members, Deliver, Pointed
<1>2. /\ op' \in [Requests -> Ops] /\ op'[r] = "sync"
      /\ at' \in [Requests -> Points] /\ at'[r] = "team"
      /\ who' \in [Requests -> Customers \cup {"none"}] /\ who'[r] = c
      /\ \A q \in Requests \ {r} : UNCHANGED <<op[q], at[q], who[q]>>
  BY DEF Deliver, GoesTo, RequestsTyped, Ops, Points, PlanPoints
<1>3. owed' \in [Customers -> Nat]
  BY DEF Deliver, StripeTyped
<1>4. RequestsTyped' /\ Own(r)
  BY <1>1, <1>2 DEF RequestsTyped, Own
<1>5. TeamTyped' /\ StripeTyped'
  BY <1>1, <1>3 DEF TeamTyped, StripeTyped, team
<1>6. PointedAt(r)'
  BY <1>1, <1>2 DEF PointedAt
<1> QED BY <1>4, <1>5, <1>6

\* Nobody moves.
LEMMA OthersTyped ==
    ASSUME Typed, UNCHANGED members, CacheExpires \/ \E c \in Customers : Pays(c) \/ Lapses(c)
    PROVE  Typed' /\ UNCHANGED request
<1> USE TypesSplit DEF Typed
<1>1. UNCHANGED <<request, saved, asks, stops>>
  BY DEF CacheExpires, Pays, Lapses, Changes
<1>2. RequestsTyped' /\ RowsTyped' /\ HistoryTyped' /\ Pointed'
  BY <1>1 DEF request, members, RequestsTyped, RowsTyped, HistoryTyped, Pointed, PointedAt
<1>3. CASE CacheExpires
  <2>1. TeamTyped'
    BY <1>1, <1>3 DEF CacheExpires, TeamTyped, request
  <2>2. StripeTyped'
    BY <1>3 DEF CacheExpires, StripeTyped, stripes
  <2> QED BY <1>1, <1>2, <2>1, <2>2, TypesJoin
<1>4. ASSUME NEW c \in Customers, Pays(c) \/ Lapses(c)
      PROVE  Typed' /\ UNCHANGED request
  <2>1. PICK s \in Status : Changes(c, s)
    BY <1>4 DEF Pays, Lapses, Status, Entitled
  <2>2. TeamTyped'
    BY <1>1, <2>1 DEF Changes, TeamTyped, team, request
  <2>3. checkout' \in SUBSET Customers
    BY <1>4 DEF Pays, Lapses, StripeTyped
  <2>4. StripeTyped'
    BY <2>1, <2>3 DEF Changes, StripeTyped
  <2> QED BY <1>1, <1>2, <2>2, <2>4, TypesJoin
<1> QED BY <1>3, <1>4

-----------------------------------------------------------------------------
(***************************************************************************)
(* Types: the members' steps.                                              *)
(***************************************************************************)

\* What a step of the members leaves alone.
LEMMA PlainTyped ==
    ASSUME Typed, UNCHANGED <<team, stripes, saved, stops, mix>>, asks' \in Nat
    PROVE  TeamTyped' /\ StripeTyped'
BY TypesSplit DEF Typed, TeamTyped, StripeTyped, team, stripes

LEMMA AskedTyped ==
    ASSUME Typed, NEW r \in Requests, NEW o \in Ops, NEW p \in Points, NEW w \in Work,
           Asked(r, o, p, w), NEW t \in {"idle", "count"},
           UNCHANGED then \/ then' = [then EXCEPT ![r] = t],
           then'[r] \in {"idle", "count"},
           o # "revoke" => w.user \in Users, then'[r] = "count" => w.role \in Roles,
           \/ p \in {"cache", "purge", "find"} /\ o \notin {"sync", "checkout", "revoke"}
           \/ p = "invite" /\ o \in {"accept", "revoke"} /\ w.id \in 1..lastId /\ UNCHANGED then
    PROVE  RequestsTyped' /\ Own(r) /\ PointedAt(r)' /\ TeamTyped' /\ StripeTyped'
<1> USE TypesSplit
<1>1. /\ Begins(r, o, p) /\ work' = [work EXCEPT ![r] = w]
      /\ UNCHANGED <<hand, who, ans, team, stripes, saved, stops, rows, seen>>
  BY DEF Asked
<1>2. /\ op' \in [Requests -> Ops] /\ op'[r] = o
      /\ at' \in [Requests -> Points] /\ at'[r] = p
      /\ \A q \in Requests \ {r} : UNCHANGED <<op[q], at[q]>>
      /\ asks' \in Nat /\ UNCHANGED mix
  BY <1>1, BeginsTyped
<1>3. /\ work' \in [Requests -> Work] /\ work'[r] = w
      /\ \A q \in Requests \ {r} : UNCHANGED work[q]
  BY <1>1 DEF RequestsTyped, Typed
<1>4. /\ then' \in [Requests -> Points]
      /\ \A q \in Requests \ {r} : UNCHANGED then[q]
  BY DEF RequestsTyped, Typed, Points, PlanPoints
<1>5. RequestsTyped' /\ Own(r)
  BY <1>1, <1>2, <1>3, <1>4 DEF Typed, RequestsTyped, Own
<1>6. PointedAt(r)'
  <2>1. at[r] = "idle" /\ then[r] = "idle"
    BY <1>1, BeginsTyped
  <2>2. UNCHANGED then => then'[r] = "idle"
    BY <2>1
  <2> QED BY <1>1, <1>2, <1>3, <2>2 DEF PointedAt, rows
<1> QED BY <1>1, <1>2, <1>5, <1>6, PlainTyped

LEMMA MemberAsksTyped ==
    ASSUME Typed, NEW r \in Requests, MemberAsks(r)
    PROVE  /\ RequestsTyped' /\ Own(r) /\ PointedAt(r)' /\ TeamTyped' /\ StripeTyped'
           /\ UNCHANGED <<rows, shaky, headless, joined, leaked, team, stripes, saved>>
           /\ at[r] = "idle" /\ at'[r] \in {"cache", "purge", "find", "invite"}
           /\ op'[r] \in {"invite", "password", "setRole", "remove", "accept", "revoke"}
<1> DEFINE Done == RequestsTyped' /\ Own(r) /\ PointedAt(r)' /\ TeamTyped' /\ StripeTyped'
           Rest(o, p) ==
              /\ UNCHANGED <<rows, shaky, headless, joined, leaked, team, stripes, saved>>
              /\ at[r] = "idle" /\ at'[r] = p /\ op'[r] = o
<1>1. /\ {"invite", "password", "setRole", "remove", "accept", "revoke"} \subseteq Ops
      /\ {"cache", "purge", "find", "invite"} \subseteq Points
  BY DEF Ops, Points, PlanPoints
<1>2. \A u \in Users, s \in Roles \cup {"none"} : [user |-> u, role |-> s, id |-> 0] \in Work
  BY DEF Work
<1>3. \A i \in 1..lastId, u \in Users \cup {"none"} : [user |-> u, role |-> "none", id |-> i] \in Work
  BY DEF Work, Typed, TypeOK
<1>4. ASSUME NEW o \in Ops, NEW p \in Points, NEW w \in Work, Asked(r, o, p, w)
      PROVE  Rest(o, p)
  <2>1. Begins(r, o, p) /\ UNCHANGED <<rows, shaky, headless, joined, leaked, team, stripes, saved>>
    BY <1>4 DEF Asked
  <2> QED BY <2>1, BeginsTyped
<1>5. then' = [then EXCEPT ![r] = "count"] => then'[r] = "count"
  BY DEF Typed, TypeOK
<1>6. UNCHANGED then => then'[r] = "idle" \/ ~\E o \in Ops, p \in Points : Begins(r, o, p)
  BY BeginsTyped
<1>7. CASE AskInvite(r)
  <2>1. PICK u \in Users, s \in Roles : Asked(r, "invite", "cache", [user |-> u, role |-> s, id |-> 0])
    BY <1>7 DEF AskInvite
  <2> DEFINE w == [user |-> u, role |-> s, id |-> 0]
  <2>2. w \in Work /\ w.user \in Users /\ w.role \in Roles
    BY <1>2
  <2> HIDE DEF w
  <2>3. Asked(r, "invite", "cache", w) /\ then' = [then EXCEPT ![r] = "count"]
    BY <1>7, <2>1 DEF AskInvite, w
  <2>4. Done
    BY <1>1, <1>5, <2>2, <2>3, AskedTyped
  <2> QED BY <1>1, <1>4, <2>2, <2>3, <2>4
<1>8. CASE AskPassword(r)
  <2>1. PICK u \in Users, s \in Roles, p \in {"cache", "purge"} :
           Asked(r, "password", p, [user |-> u, role |-> s, id |-> 0])
    BY <1>8 DEF AskPassword
  <2> DEFINE w == [user |-> u, role |-> s, id |-> 0]
  <2>2. w \in Work /\ w.user \in Users /\ w.role \in Roles
    BY <1>2
  <2> HIDE DEF w
  <2>3. Asked(r, "password", p, w) /\ then' = [then EXCEPT ![r] = "count"]
    BY <1>8, <2>1 DEF AskPassword, w
  <2>4. Done
    BY <1>1, <1>5, <2>2, <2>3, AskedTyped
  <2> QED BY <1>1, <1>4, <2>2, <2>3, <2>4
<1>9. CASE AskRole(r) \/ AskRemove(r)
  <2>1. PICK u \in Users, s \in Roles \cup {"none"}, o \in {"setRole", "remove"} :
           Asked(r, o, "find", [user |-> u, role |-> s, id |-> 0])
    BY <1>9 DEF AskRole, AskRemove
  <2> DEFINE w == [user |-> u, role |-> s, id |-> 0]
  <2>2. w \in Work /\ w.user \in Users
    BY <1>2
  <2> HIDE DEF w
  <2>3. Asked(r, o, "find", w) /\ UNCHANGED then
    BY <1>9, <2>1 DEF AskRole, AskRemove, w
  <2>4. then'[r] = "idle"
    BY <1>1, <1>6, <2>3 DEF Asked
  <2>5. Done
    BY <1>1, <2>2, <2>3, <2>4, AskedTyped
  <2> QED BY <1>1, <1>4, <2>2, <2>3, <2>5
<1>10. CASE AskAccept(r) \/ AskRevoke(r)
  <2>1. PICK u \in Users \cup {"none"}, i \in 1..lastId, o \in {"accept", "revoke"} :
           /\ Asked(r, o, "invite", [user |-> u, role |-> "none", id |-> i])
           /\ o = "accept" => u \in Users
    BY <1>10 DEF AskAccept, AskRevoke
  <2> DEFINE w == [user |-> u, role |-> "none", id |-> i]
  <2>2. w \in Work /\ (o = "accept" => w.user \in Users) /\ w.id \in 1..lastId
    BY <1>3, <2>1
  <2> HIDE DEF w
  <2>3. Asked(r, o, "invite", w) /\ UNCHANGED then
    BY <1>10, <2>1 DEF AskAccept, AskRevoke, w
  <2>4. then'[r] = "idle"
    BY <1>1, <1>6, <2>3 DEF Asked
  <2>5. Done
    BY <1>1, <2>2, <2>3, <2>4, AskedTyped
  <2> QED BY <1>1, <1>4, <2>2, <2>3, <2>5
<1> QED BY <1>7, <1>8, <1>9, <1>10 DEF MemberAsks

LEMMA LeavesTyped ==
    ASSUME Typed, NEW r \in Requests, Leaves(r)
    PROVE  /\ RequestsTyped' /\ Own(r) /\ PointedAt(r)' /\ at'[r] = "idle" /\ op'[r] = "none"
           /\ UNCHANGED mix /\ shaky' = shaky \ {r}
BY EndsTyped, TypesSplit DEF Leaves, Ends, Typed

\* The request goes on at another point, with what it has.
LEMMA GoesOnTyped ==
    ASSUME Typed, NEW r \in Requests, NEW p \in Points, GoesTo(r, p), UNCHANGED <<Locals, work, seen>>
    PROVE  /\ RequestsTyped' /\ Own(r) /\ at'[r] = p
           /\ UNCHANGED <<op, then, who, hand, ans, mix, work, seen>>
BY GoesTyped, TypesSplit DEF Locals, Typed

LEMMA BecomesTyped ==
    ASSUME Typed, NEW r \in Requests, NEW u, NEW x \in Roles \cup {"none"}, Becomes(r, u, x)
    PROVE  role' \in [Users -> Roles \cup {"none"}] /\ shaky' \subseteq Requests /\ headless' \in BOOLEAN
BY DEF Becomes, Typed, TypeOK

LEMMA SameRows ==
    ASSUME Typed, UNCHANGED rows
    PROVE  RowsTyped' /\ lastId <= lastId'
BY TypesSplit DEF RowsTyped, rows, Typed

\* What the steps of the members have in common.
Moved(r) ==
    /\ RequestsTyped' /\ Own(r) /\ PointedAt(r)' /\ RowsTyped' /\ HistoryTyped' /\ lastId <= lastId'
    /\ UNCHANGED <<team, stripes, saved, asks, stops, mix>>

LEMMA MemberStepsTyped ==
    ASSUME Typed, NEW r \in Requests, MemberSteps(r)
    PROVE  Moved(r)
<1> USE DEF Typed
<1>1. /\ RowsTyped /\ HistoryTyped /\ RequestsTyped
      /\ PointedAt(r) /\ work[r] \in Work /\ work[r].role \in Roles \cup {"none"}
  BY TypesSplit DEF Pointed, RequestsTyped, Work
<1>2. UNCHANGED Plain
  BY DEF MemberSteps, CountMembers, CreateInvite, AddMember, PurgeInvites, FindMember, CountAdmins,
         WriteMember, FindInvite, Join, ConsumeInvite
<1>3. UNCHANGED <<team, stripes, saved, asks, stops>>
  BY <1>2 DEF Plain
<1>4. {"create", "add", "purge", "admins", "write", "invalidate", "join", "consume"} \subseteq Points
  BY DEF Points, PlanPoints
<1>5. CASE CountMembers(r)
  <2>1. CASE Leaves(r) /\ UNCHANGED <<rows, headless, joined, leaked>>
    <3>1. HistoryTyped'
      BY <1>1, <2>1, LeavesTyped DEF HistoryTyped
    <3> QED BY <1>3, <2>1, <3>1, LeavesTyped, SameRows DEF Moved
  <2>2. CASE \E p \in {"create", "add"} : GoesTo(r, p) /\ UNCHANGED <<Locals, members>>
    <3>1. PICK p \in {"create", "add"} : GoesTo(r, p) /\ UNCHANGED <<Locals, members>>
      BY <2>2
    <3>2. UNCHANGED <<rows, work, seen, shaky, headless, joined, leaked>> /\ at[r] = "count"
      BY <1>5, <3>1 DEF members, rows, CountMembers
    <3>3. /\ RequestsTyped' /\ Own(r) /\ at'[r] = p
          /\ UNCHANGED <<op, then, who, hand, ans, mix, work, seen>>
      BY <1>4, <3>1, <3>2, GoesOnTyped
    <3>4. PointedAt(r)'
      BY <1>1, <3>2, <3>3 DEF PointedAt
    <3>5. HistoryTyped'
      BY <1>1, <3>2 DEF HistoryTyped
    <3> QED BY <1>3, <3>2, <3>3, <3>4, <3>5, SameRows DEF Moved
  <2> QED BY <1>5, <2>1, <2>2 DEF CountMembers
<1>6. CASE CreateInvite(r)
  <2>1. Leaves(r) /\ UNCHANGED <<role, headless, joined, leaked>>
    BY <1>6 DEF CreateInvite
  <2>2. work[r].user \in Users /\ work[r].role \in Roles
    <3>1. at[r] = "create"
      BY <1>6 DEF CreateInvite
    <3> QED BY <1>1, <3>1 DEF PointedAt
  <2>3. RowsTyped' /\ lastId <= lastId'
    <3>1. CASE UNCHANGED <<invites, lastId>>
      BY <2>1, <3>1, SameRows DEF rows
    <3>2. CASE /\ lastId' = lastId + 1
               /\ invites' = invites \cup
                     {[id |-> lastId + 1, email |-> work[r].user, role |-> work[r].role]}
      <4>1. lastId \in Nat
        BY <1>1 DEF RowsTyped
      <4>2. [id |-> lastId + 1, email |-> work[r].user, role |-> work[r].role]
               \in [id : 1..lastId', email : Users, role : Roles]
        BY <2>2, <3>2, <4>1
      <4>3. invites \subseteq [id : 1..lastId', email : Users, role : Roles]
        BY <1>1, <3>2, <4>1 DEF RowsTyped
      <4> QED BY <1>1, <2>1, <3>2, <4>1, <4>2, <4>3 DEF RowsTyped
    <3> QED BY <1>6, <3>1, <3>2 DEF CreateInvite
  <2>4. HistoryTyped'
    BY <1>1, <2>1, LeavesTyped DEF HistoryTyped
  <2> QED BY <1>3, <2>1, <2>3, <2>4, LeavesTyped DEF Moved
<1>7. CASE AddMember(r)
  <2>1. UNCHANGED <<invites, lastId, joined, leaked>> /\ at[r] = "add"
    BY <1>7 DEF AddMember
  <2>2. CASE Leaves(r) /\ UNCHANGED <<role, headless>>
    <3>1. HistoryTyped' /\ UNCHANGED rows
      BY <1>1, <2>1, <2>2, LeavesTyped DEF HistoryTyped, rows
    <3> QED BY <1>3, <2>2, <3>1, LeavesTyped, SameRows DEF Moved
  <2>3. CASE /\ Becomes(r, work[r].user, work[r].role)
             /\ GoesTo(r, "purge") /\ UNCHANGED <<Locals, work, seen>>
    <3>1. RowsTyped' /\ HistoryTyped' /\ lastId <= lastId'
      BY <1>1, <2>1, <2>3, BecomesTyped DEF RowsTyped, HistoryTyped
    <3>2. /\ RequestsTyped' /\ Own(r) /\ at'[r] = "purge"
          /\ UNCHANGED <<op, then, who, hand, ans, mix, work, seen>>
      BY <1>4, <2>3, GoesOnTyped
    <3>3. PointedAt(r)'
      BY <1>1, <2>1, <3>2 DEF PointedAt
    <3> QED BY <1>3, <3>1, <3>2, <3>3 DEF Moved
  <2> QED BY <1>7, <2>2, <2>3 DEF AddMember
<1>8. CASE PurgeInvites(r) \/ ConsumeInvite(r)
  <2>1. /\ Leaves(r) /\ UNCHANGED <<role, lastId, headless, joined, leaked>>
        /\ invites' \subseteq invites
    BY <1>8 DEF PurgeInvites, ConsumeInvite
  <2>2. RowsTyped' /\ lastId <= lastId'
    BY <1>1, <2>1 DEF RowsTyped
  <2>3. HistoryTyped'
    BY <1>1, <2>1, LeavesTyped DEF HistoryTyped
  <2> QED BY <1>3, <2>1, <2>2, <2>3, LeavesTyped DEF Moved
<1>9. CASE FindMember(r)
  <2>1. UNCHANGED <<rows, headless, joined, leaked>> /\ at[r] = "find"
    BY <1>9 DEF FindMember
  <2>2. CASE Leaves(r)
    <3>1. HistoryTyped'
      BY <1>1, <2>1, <2>2, LeavesTyped DEF HistoryTyped
    <3> QED BY <1>3, <2>1, <2>2, <3>1, LeavesTyped, SameRows DEF Moved
  <2>3. CASE /\ role[work[r].user] # "none" /\ seen' = [seen EXCEPT ![r] = role[work[r].user]]
             /\ GoesTo(r, "admins") /\ UNCHANGED <<Locals, work, shaky>>
    <3>1. role[work[r].user] \in Roles
      BY <1>1, <2>1, <2>3 DEF PointedAt, RowsTyped
    <3>2. /\ seen' \in [Requests -> Roles \cup {"none"}]
          /\ at' \in [Requests -> Points] /\ at'[r] = "admins"
          /\ \A q \in Requests \ {r} : UNCHANGED <<at[q], seen[q]>>
          /\ UNCHANGED <<op, then, who, hand, ans, mix, work>>
      BY <1>1, <1>4, <2>3, <3>1 DEF RequestsTyped, GoesTo, Locals
    <3>3. RequestsTyped' /\ Own(r)
      BY <1>1, <3>2 DEF RequestsTyped, Own
    <3>4. PointedAt(r)'
      BY <1>1, <2>1, <3>2 DEF PointedAt
    <3>5. HistoryTyped'
      BY <1>1, <2>1, <2>3 DEF HistoryTyped
    <3> QED BY <1>3, <2>1, <3>2, <3>3, <3>4, <3>5, SameRows DEF Moved
  <2> QED BY <1>9, <2>2, <2>3 DEF FindMember
<1>10. CASE CountAdmins(r)
  <2>1. UNCHANGED <<rows, headless, joined, leaked>> /\ at[r] = "admins"
    BY <1>10 DEF CountAdmins
  <2>2. CASE Leaves(r)
    <3>1. HistoryTyped'
      BY <1>1, <2>1, <2>2, LeavesTyped DEF HistoryTyped
    <3> QED BY <1>3, <2>1, <2>2, <3>1, LeavesTyped, SameRows DEF Moved
  <2>3. CASE GoesTo(r, "write") /\ UNCHANGED <<Locals, work, seen, shaky>>
    <3>1. /\ RequestsTyped' /\ Own(r) /\ at'[r] = "write"
          /\ UNCHANGED <<op, then, who, hand, ans, mix, work, seen>>
      BY <1>4, <2>3, GoesOnTyped
    <3>2. PointedAt(r)'
      BY <1>1, <2>1, <3>1 DEF PointedAt
    <3>3. HistoryTyped'
      BY <1>1, <2>1, <2>3 DEF HistoryTyped
    <3> QED BY <1>3, <2>1, <3>1, <3>2, <3>3, SameRows DEF Moved
  <2> QED BY <1>10, <2>2, <2>3 DEF CountAdmins
<1>11. CASE WriteMember(r)
  <2>1. UNCHANGED <<invites, lastId, joined, leaked>> /\ at[r] = "write"
    BY <1>11 DEF WriteMember
  <2>2. CASE Leaves(r) /\ UNCHANGED <<role, headless>>
    <3>1. HistoryTyped' /\ UNCHANGED rows
      BY <1>1, <2>1, <2>2, LeavesTyped DEF HistoryTyped, rows
    <3> QED BY <1>3, <2>2, <3>1, LeavesTyped, SameRows DEF Moved
  <2>3. CASE /\ Becomes(r, work[r].user, work[r].role)
             /\ GoesTo(r, "invalidate") /\ UNCHANGED <<Locals, work, seen>>
    <3>1. RowsTyped' /\ HistoryTyped' /\ lastId <= lastId'
      BY <1>1, <2>1, <2>3, BecomesTyped DEF RowsTyped, HistoryTyped
    <3>2. /\ RequestsTyped' /\ Own(r) /\ at'[r] = "invalidate"
          /\ UNCHANGED <<op, then, who, hand, ans, mix, work, seen>>
      BY <1>4, <2>3, GoesOnTyped
    <3>3. PointedAt(r)'
      BY <1>1, <2>1, <3>2 DEF PointedAt
    <3> QED BY <1>3, <3>1, <3>2, <3>3 DEF Moved
  <2> QED BY <1>11, <2>2, <2>3 DEF WriteMember
<1>12. CASE FindInvite(r)
  <2>1. UNCHANGED <<rows, headless, joined>> /\ at[r] = "invite"
    BY <1>12 DEF FindInvite
  <2>2. CASE Leaves(r) /\ UNCHANGED leaked
    <3>1. HistoryTyped'
      BY <1>1, <2>1, <2>2, LeavesTyped DEF HistoryTyped
    <3> QED BY <1>3, <2>1, <2>2, <3>1, LeavesTyped, SameRows DEF Moved
  <2>3. ASSUME NEW i \in invites,
               /\ work' = [work EXCEPT ![r] =
                             [user |-> IF op[r] = "revoke" THEN i.email ELSE work[r].user,
                              role |-> i.role, id |-> work[r].id]]
               /\ GoesTo(r, IF op[r] = "revoke" THEN "purge" ELSE "join")
               /\ leaked' \in {leaked, leaked \cup {work[r].id}}
               /\ UNCHANGED <<Locals, seen, shaky>>
        PROVE  Moved(r)
    <3> DEFINE w == [user |-> IF op[r] = "revoke" THEN i.email ELSE work[r].user,
                     role |-> i.role, id |-> work[r].id]
               p == IF op[r] = "revoke" THEN "purge" ELSE "join"
    <3>1. i.role \in Roles /\ i.email \in Users
      BY <1>1 DEF RowsTyped
    <3>2. w \in Work /\ (op[r] # "revoke" => w.user = work[r].user) /\ w.role \in Roles
      BY <1>1, <3>1 DEF Work
    <3>3. work' = [work EXCEPT ![r] = w] /\ GoesTo(r, p)
      <4>1. work' = [work EXCEPT ![r] = w]
        BY <2>3
      <4>2. GoesTo(r, p)
        BY <2>3, Zenon
      <4> QED BY <4>1, <4>2
    <3> HIDE DEF w
    <3>4. p \in Points /\ (p = "join" => op[r] # "revoke") /\ p \in {"purge", "join"}
      BY <1>4
    <3> HIDE DEF p
    <3>5. /\ at' \in [Requests -> Points] /\ at'[r] = p
          /\ work' \in [Requests -> Work] /\ work'[r] = w
          /\ \A q \in Requests \ {r} : UNCHANGED <<at[q], work[q]>>
          /\ UNCHANGED <<op, then, who, hand, ans, mix, seen>>
      BY <1>1, <2>3, <3>2, <3>3, <3>4 DEF RequestsTyped, GoesTo, Locals
    <3>6. RequestsTyped' /\ Own(r)
      BY <1>1, <3>5 DEF RequestsTyped, Own
    <3>7. work[r].id \in Nat /\ w.id = work[r].id
      BY <1>1, <3>2 DEF Work, w
    <3>8. then[r] # "count" \/ w.user \in Users
      <4>1. op[r] = "revoke" => w.user = i.email
        BY <1>1 DEF Work, w
      <4> QED BY <1>1, <2>1, <3>1, <3>2, <4>1 DEF PointedAt
    <3>9. PointedAt(r)'
      BY <1>1, <2>1, <3>2, <3>4, <3>5, <3>7, <3>8 DEF PointedAt, rows
    <3>10. HistoryTyped'
      BY <1>1, <2>1, <2>3, <3>7 DEF HistoryTyped
    <3> QED BY <1>3, <2>1, <3>5, <3>6, <3>9, <3>10, SameRows DEF Moved
  <2>4. \/ Leaves(r) /\ UNCHANGED leaked
        \/ \E i \in invites :
              /\ work' = [work EXCEPT ![r] =
                            [user |-> IF op[r] = "revoke" THEN i.email ELSE work[r].user,
                             role |-> i.role, id |-> work[r].id]]
              /\ GoesTo(r, IF op[r] = "revoke" THEN "purge" ELSE "join")
              /\ leaked' \in {leaked, leaked \cup {work[r].id}}
              /\ UNCHANGED <<Locals, seen, shaky>>
    BY <1>12 DEF FindInvite
  <2> QED BY <2>2, <2>3, <2>4
<1>13. CASE Join(r)
  <2>1. UNCHANGED <<invites, lastId, leaked>> /\ at[r] = "join"
    BY <1>13 DEF Join
  <2>2. work[r].user \in Users /\ work[r].id \in 1..lastId /\ work[r].id \in Nat
    BY <1>1, <2>1 DEF PointedAt, Work
  <2>3. CASE Leaves(r) /\ UNCHANGED <<role, headless, joined>>
    <3>1. HistoryTyped' /\ UNCHANGED rows
      BY <1>1, <2>1, <2>3, LeavesTyped DEF HistoryTyped, rows
    <3> QED BY <1>3, <2>3, <3>1, LeavesTyped, SameRows DEF Moved
  <2>4. CASE /\ Becomes(r, work[r].user, work[r].role)
             /\ joined' = joined \cup {<<work[r].id, work[r].user>>}
             /\ GoesTo(r, "consume") /\ UNCHANGED <<Locals, work, seen>>
    <3>1. RowsTyped' /\ HistoryTyped' /\ lastId <= lastId'
      BY <1>1, <2>1, <2>2, <2>4, BecomesTyped DEF RowsTyped, HistoryTyped
    <3>2. /\ RequestsTyped' /\ Own(r) /\ at'[r] = "consume"
          /\ UNCHANGED <<op, then, who, hand, ans, mix, work, seen>>
      BY <1>4, <2>4, GoesOnTyped
    <3>3. PointedAt(r)'
      BY <1>1, <2>1, <3>2 DEF PointedAt
    <3> QED BY <1>3, <3>1, <3>2, <3>3 DEF Moved
  <2> QED BY <1>13, <2>3, <2>4 DEF Join
<1> QED BY <1>5, <1>6, <1>7, <1>8, <1>9, <1>10, <1>11, <1>12, <1>13 DEF MemberSteps

LEMMA MemberStopsTyped ==
    ASSUME Typed, NEW r \in Requests, MemberStops(r)
    PROVE  /\ RequestsTyped' /\ Own(r) /\ PointedAt(r)' /\ at'[r] = "idle" /\ op'[r] = "none"
           /\ TeamTyped' /\ StripeTyped' /\ RowsTyped' /\ HistoryTyped' /\ lastId <= lastId'
<1> USE TypesSplit DEF Typed
<1>1. Halts(r) /\ UNCHANGED <<rows, headless, joined>> /\ shaky' = shaky \ {r}
  BY DEF MemberStops, Stops
<1>2. /\ RequestsTyped' /\ Own(r) /\ PointedAt(r)' /\ at'[r] = "idle" /\ op'[r] = "none"
  BY <1>1, EndsTyped DEF MemberStops, Halts
<1>3. TeamTyped'
  BY <1>1 DEF Halts, Ends, TeamTyped, Refreshing
<1>4. owed' \in [Customers -> Nat]
  <2>1. op[r] = "sync" => who[r] \in Customers
    BY DEF Pointed, PointedAt
  <2> QED BY <2>1 DEF MemberStops, Stops, StripeTyped
<1>5. StripeTyped'
  BY <1>1, <1>4 DEF Halts, StripeTyped
<1>6. HistoryTyped'
  <2>1. work[r].id \in Nat
    BY DEF RequestsTyped, Work
  <2>2. leaked' \subseteq Nat
    BY <2>1 DEF MemberStops, HistoryTyped
  <2> QED BY <1>1, <2>2 DEF HistoryTyped
<1> QED BY <1>1, <1>2, <1>3, <1>5, <1>6, SameRows

LEMMA InitTyped == Init => Typed
<1> SUFFICES ASSUME Init PROVE Typed
  OBVIOUS
<1> USE DEF PlanInit, Init
<1>1. RequestsTyped
  BY DEF RequestsTyped, Ops, Points, PlanPoints, Status, Roles, NoWork, Work
<1>2. TeamTyped
  BY DEF TeamTyped, Plans
<1>3. StripeTyped
  BY DEF StripeTyped, Status
<1>4. RowsTyped /\ HistoryTyped
  BY DEF RowsTyped, HistoryTyped
<1>5. Pointed
  BY DEF Pointed, PointedAt
<1> QED BY <1>1, <1>2, <1>3, <1>4, <1>5, TypesSplit DEF Typed

\* The steps of the plan leave the members' rows alone.
LEMMA PlanStepTyped ==
    ASSUME Typed, NEW r \in Requests, PlanStep(r)
    PROVE  /\ RequestsTyped' /\ Own(r) /\ PointedAt(r)' /\ TeamTyped' /\ StripeTyped'
           /\ UNCHANGED <<rows, shaky, headless, joined, leaked>>
<1>1. UNCHANGED <<rows, shaky, headless, joined, leaked>>
  BY DEF PlanStep
<1>2. CacheSteps(r) \/ Answer(r) \/ CheckoutSteps(r) \/ SyncSteps(r)
  BY DEF PlanStep, PlanSteps
<1> QED BY <1>1, <1>2, CacheStepTyped, CheckoutStepTyped, SyncStepTyped

\* What a request, a webhook or another actor does that is not a member's.
Outside == (CacheExpires \/ Stripe \/ \E r \in Requests : Asks(r)) /\ UNCHANGED members

LEMMA OutsideTyped == Typed /\ Outside => Typed'
<1> SUFFICES ASSUME Typed, Outside PROVE Typed'
  OBVIOUS
<1>1. UNCHANGED members
  BY DEF Outside
<1>2. RowsTyped' /\ HistoryTyped' /\ UNCHANGED lastId /\ lastId \in Nat
  BY <1>1, TypesSplit DEF Typed, RowsTyped, HistoryTyped, members
<1>3. ASSUME NEW r \in Requests,
             RequestsTyped' /\ Own(r) /\ PointedAt(r)' /\ TeamTyped' /\ StripeTyped'
      PROVE  Typed'
  <2>1. Pointed'
    BY <1>2, <1>3, OwnKeepsPointed DEF Typed
  <2> QED BY <1>2, <1>3, <2>1, TypesJoin DEF Typed
<1>4. CASE CacheExpires \/ \E c \in Customers : Pays(c) \/ Lapses(c)
  BY <1>1, <1>4, OthersTyped
<1>5. CASE \E c \in Customers, r \in Requests : Deliver(r, c)
  BY <1>1, <1>3, <1>5, DeliverTyped
<1>6. CASE \E r \in Requests : Asks(r)
  BY <1>1, <1>3, <1>6, AsksTyped
<1> QED BY <1>4, <1>5, <1>6 DEF Outside, Stripe

LEMMA NextTyped == Typed /\ [Next]_vars => Typed'
<1> SUFFICES ASSUME Typed, [Next]_vars PROVE Typed'
  OBVIOUS
<1>1. RowsTyped /\ HistoryTyped /\ TeamTyped /\ StripeTyped /\ lastId \in Nat
  BY TypesSplit DEF Typed, RowsTyped
<1>2. ASSUME NEW r \in Requests, RequestsTyped' /\ Own(r) /\ PointedAt(r)' /\ TeamTyped' /\ StripeTyped',
             RowsTyped' /\ HistoryTyped' /\ lastId <= lastId'
      PROVE  Typed'
  <2>1. Pointed'
    BY <1>1, <1>2, OwnKeepsPointed DEF Typed, RowsTyped
  <2> QED BY <1>2, <2>1, TypesJoin DEF Typed
<1>3. ASSUME NEW r \in Requests, PlanStep(r) PROVE Typed'
  <2>1. HistoryTyped'
    BY <1>1, <1>3, PlanStepTyped DEF HistoryTyped
  <2> QED BY <1>2, <1>3, <2>1, PlanStepTyped, SameRows
<1>4. ASSUME NEW r \in Requests, MemberSteps(r) PROVE Typed'
  <2>1. Moved(r)
    BY <1>4, MemberStepsTyped
  <2>2. TeamTyped' /\ StripeTyped'
    BY <1>1, <2>1 DEF Moved, TeamTyped, StripeTyped, team, stripes
  <2> QED BY <1>2, <2>1, <2>2 DEF Moved
<1>5. ASSUME NEW r \in Requests, MemberAsks(r) PROVE Typed'
  <2>1. HistoryTyped'
    BY <1>1, <1>5, MemberAsksTyped DEF HistoryTyped
  <2> QED BY <1>2, <1>5, <2>1, MemberAsksTyped, SameRows
<1>6. ASSUME NEW r \in Requests, MemberStops(r) PROVE Typed'
  BY <1>2, <1>6, MemberStopsTyped
<1>7. CASE Outside
  BY <1>7, OutsideTyped
<1>8. CASE UNCHANGED vars
  <2>1. UNCHANGED <<request, team, stripes, saved, asks, stops, members>>
    BY <1>8 DEF vars, planVars
  <2>2. TypeOK'
    BY <2>1 DEF Typed, TypeOK, PlanTypeOK, request, team, stripes, members
  <2>3. Pointed'
    BY <2>1 DEF Typed, Pointed, PointedAt, request, members
  <2> QED BY <2>2, <2>3 DEF Typed
<1> QED BY <1>3, <1>4, <1>5, <1>6, <1>7, <1>8 DEF Next, Outside

\* Every row, key and request of the team keeps its shape: a sync, a checkout, an
\* invitation and a removal find what they read before.
THEOREM TypesHold == Spec => []TypeOK
<1>1. Typed => TypeOK
  BY DEF Typed
<1> QED BY <1>1, InitTyped, NextTyped, PTL DEF Spec

-----------------------------------------------------------------------------
(***************************************************************************)
(* The last admin.                                                         *)
(***************************************************************************)

\* The removals whose reads no one has overtaken know the admins.
Counted ==
    /\ ~headless => Admins # {}
    /\ \A r \in Requests \ shaky : at[r] \in {"admins", "write"} =>
          /\ seen[r] = "ADMIN" <=> role[work[r].user] = "ADMIN"
          /\ at[r] = "write" /\ seen[r] = "ADMIN" => Cardinality(Admins) # 1

\* The points of a removal that has read.
Reading == {"admins", "write"}

\* A step that leaves the admins alone, and takes no removal further.
Aside ==
    /\ UNCHANGED role
    /\ headless => headless'
    /\ \A r \in Requests : r \notin shaky' /\ at'[r] \in Reading =>
          r \notin shaky /\ UNCHANGED <<at[r], seen[r], work[r]>>

LEMMA AsideKeepsCounted == Counted /\ Aside => Counted'
BY DEF Counted, Aside, Reading, Admins

LEMMA OwnAside ==
    ASSUME NEW r \in Requests, Own(r), UNCHANGED role, headless => headless',
           shaky \ {r} \subseteq shaky', at'[r] \notin Reading
    PROVE  Aside
BY DEF Own, Aside

LEMMA PlanStepAside ==
    ASSUME Typed, NEW r \in Requests, PlanStep(r)
    PROVE  Aside
<1>1. at'[r] \in {"fill", "store", "idle", "save", "list", "row", "update", then[r]}
  <2>1. at \in [Requests -> Points]
    BY DEF Typed, TypeOK
  <2>2. CASE CacheSteps(r)
    BY <2>1, <2>2 DEF CacheSteps, ReadCache, FillCache, StoreCache, InvalidateCache, GoesTo, Ends
  <2>3. CASE Answer(r) \/ CheckoutSteps(r)
    BY <2>1, <2>3 DEF Answer, CheckoutSteps, CreateCustomer, SaveCustomer, OpenSession, GoesTo, Ends
  <2>4. CASE SyncSteps(r)
    BY <2>1, <2>4 DEF SyncSteps, SyncReadTeam, SyncList, SyncSave, SyncUpdate, GoesTo, Ends
  <2> QED BY <2>2, <2>3, <2>4 DEF PlanStep, PlanSteps
<1>2. then[r] \notin Reading
  BY DEF Typed, Pointed, PointedAt, Reading
<1> QED BY <1>1, <1>2, PlanStepTyped, OwnAside DEF Reading, rows

LEMMA OutsideAside ==
    ASSUME Typed, Outside
    PROVE  Aside
<1>1. UNCHANGED <<role, work, seen, shaky, headless>>
  BY DEF Outside, members
<1>2. at \in [Requests -> Points]
  BY DEF Typed, TypeOK
<1>3. CASE CacheExpires \/ \E c \in Customers : Pays(c) \/ Lapses(c)
  BY <1>1, <1>3, OthersTyped DEF Outside, Aside, request
<1>4. CASE \E c \in Customers, r \in Requests : Deliver(r, c)
  BY <1>1, <1>2, <1>4 DEF Deliver, GoesTo, Aside, Reading
<1>5. CASE \E r \in Requests : Asks(r)
  BY <1>1, <1>2, <1>5
     DEF Asks, AskLimit, AdminUpdate, AskCheckout, ChecksOut, Begins, GoesTo, Aside, Reading
<1> QED BY <1>3, <1>4, <1>5 DEF Outside, Stripe

\* The steps of the members that leave the roles alone and read none.
LEMMA RowStepsAside ==
    ASSUME Typed, NEW r \in Requests,
           \/ MemberAsks(r) \/ MemberStops(r) \/ CountMembers(r) \/ CreateInvite(r)
           \/ PurgeInvites(r) \/ ConsumeInvite(r) \/ FindInvite(r)
    PROVE  Aside
<1>1. CASE MemberAsks(r)
  BY <1>1, MemberAsksTyped, OwnAside DEF Reading, rows
<1>2. CASE MemberStops(r)
  BY <1>2, MemberStopsTyped, OwnAside DEF MemberStops, Reading, rows
<1>3. CASE CountMembers(r) \/ CreateInvite(r) \/ PurgeInvites(r) \/ ConsumeInvite(r) \/ FindInvite(r)
  <2>1. Own(r)
    BY <1>3, MemberStepsTyped DEF MemberSteps, Moved
  <2>2. UNCHANGED <<role, headless>>
    BY <1>3 DEF CountMembers, CreateInvite, PurgeInvites, ConsumeInvite, FindInvite, rows, members
  <2>3. shaky \ {r} \subseteq shaky'
    BY <1>3 DEF CountMembers, CreateInvite, PurgeInvites, ConsumeInvite, FindInvite, members, Leaves
  <2>4. at'[r] \notin Reading
    <3>1. Leaves(r) => at'[r] = "idle"
      BY LeavesTyped
    <3>2. \A p : GoesTo(r, p) => at'[r] = p
      BY DEF GoesTo, Typed, TypeOK
    <3> QED BY <1>3, <3>1, <3>2
           DEF CountMembers, CreateInvite, PurgeInvites, ConsumeInvite, FindInvite, Reading
  <2> QED BY <2>1, <2>2, <2>3, <2>4, OwnAside
<1> QED BY <1>1, <1>2, <1>3

LEMMA BecomesKeepsCounted ==
    ASSUME Typed, Counted, NEW r \in Requests, Own(r), at'[r] \notin Reading,
           NEW u \in Users, NEW x \in Roles \cup {"none"}, Becomes(r, u, x),
           role[u] = "ADMIN" /\ x # "ADMIN" /\ r \notin shaky => \E v \in Admins : v # u
    PROVE  Counted'
<1>1. role \in [Users -> Roles \cup {"none"}]
  BY DEF Typed, TypeOK
<1>2. role'[u] = x /\ \A v \in Users \ {u} : role'[v] = role[v]
  BY <1>1 DEF Becomes
<1>3. ~headless' => Admins' # {}
  <2>1. CASE x = "ADMIN"
    BY <1>2, <2>1 DEF Admins
  <2>2. CASE x # "ADMIN" /\ role[u] = "ADMIN"
    <3>1. headless' \/ r \notin shaky
      BY <2>2 DEF Becomes
    <3> QED BY <1>2, <2>2, <3>1 DEF Admins
  <2>3. CASE x # "ADMIN" /\ role[u] # "ADMIN"
    <3>1. headless => headless'
      BY DEF Becomes
    <3>2. Admins \subseteq Admins'
      BY <1>2, <2>3 DEF Admins
    <3> QED BY <3>1, <3>2 DEF Counted
  <2> QED BY <2>1, <2>2, <2>3
<1>4. ASSUME NEW q \in Requests, q \notin shaky', at'[q] \in Reading
      PROVE  /\ q \notin shaky /\ UNCHANGED <<at[q], seen[q], work[q]>>
             /\ (role[u] = "ADMIN") <=> (x = "ADMIN")
  <2>1. q # r /\ UNCHANGED <<at[q], seen[q], work[q]>>
    BY <1>4 DEF Own
  <2>2. q \notin shaky
    BY <1>4, <2>1 DEF Becomes
  <2>3. (role[u] = "ADMIN") <=> (x = "ADMIN")
    <3>1. CASE (role[u] = "ADMIN") # (x = "ADMIN")
      BY <1>4, <2>1, <3>1 DEF Becomes, Reading
    <3> QED BY <3>1
  <2> QED BY <2>1, <2>2, <2>3
<1>5. ASSUME (role[u] = "ADMIN") <=> (x = "ADMIN")
      PROVE  Admins' = Admins
  BY <1>2, <1>5 DEF Admins
<1>6. \A q \in Requests : at[q] \in Reading => work[q].user \in Users
  BY DEF Typed, Pointed, PointedAt, Reading
<1>7. ASSUME NEW q \in Requests, q \notin shaky', at'[q] \in Reading
      PROVE  /\ seen'[q] = "ADMIN" <=> role'[work'[q].user] = "ADMIN"
             /\ at'[q] = "write" /\ seen'[q] = "ADMIN" => Cardinality(Admins') # 1
  <2>1. /\ q \notin shaky /\ UNCHANGED <<at[q], seen[q], work[q]>>
        /\ (role[u] = "ADMIN") <=> (x = "ADMIN")
        /\ Admins' = Admins /\ work[q].user \in Users
    BY <1>4, <1>5, <1>6, <1>7
  <2>2. role'[work[q].user] = "ADMIN" <=> role[work[q].user] = "ADMIN"
    BY <1>2, <2>1
  <2>3. /\ seen[q] = "ADMIN" <=> role[work[q].user] = "ADMIN"
        /\ at[q] = "write" /\ seen[q] = "ADMIN" => Cardinality(Admins) # 1
    BY <1>7, <2>1 DEF Counted, Reading
  <2> QED BY <2>1, <2>2, <2>3
<1> QED BY <1>3, <1>7 DEF Counted, Reading

LEMMA RoleStepsKeepCounted ==
    ASSUME Typed, Counted, NEW r \in Requests,
           AddMember(r) \/ Join(r) \/ WriteMember(r) \/ FindMember(r) \/ CountAdmins(r)
    PROVE  Counted'
<1> DEFINE u == work[r].user
<1>1. Own(r) /\ PointedAt(r) /\ UNCHANGED mix
  BY MemberStepsTyped DEF MemberSteps, Moved, Typed, Pointed
<1>2. Leaves(r) => at'[r] \notin Reading /\ shaky' = shaky \ {r}
  BY LeavesTyped DEF Reading
<1>3. \A p : GoesTo(r, p) => at'[r] = p
  BY DEF GoesTo, Typed, TypeOK
<1>4. work[r].role \in Roles \cup {"none"}
  BY TypesSplit DEF Typed, RequestsTyped, Work
<1>5. CASE AddMember(r)
  <2>1. u \in Users
    BY <1>1, <1>5 DEF AddMember, PointedAt
  <2>2. CASE Leaves(r) /\ UNCHANGED <<role, headless>>
    BY <1>1, <1>2, <2>2, OwnAside, AsideKeepsCounted
  <2>3. CASE role[u] = "none" /\ Becomes(r, u, work[r].role) /\ GoesTo(r, "purge")
    BY <1>1, <1>3, <1>4, <2>1, <2>3, BecomesKeepsCounted DEF Reading
  <2> QED BY <1>5, <2>2, <2>3 DEF AddMember
<1>6. CASE Join(r)
  <2>1. u \in Users
    BY <1>1, <1>6 DEF Join, PointedAt
  <2>2. CASE Leaves(r) /\ UNCHANGED <<role, headless>>
    BY <1>1, <1>2, <2>2, OwnAside, AsideKeepsCounted
  <2>3. CASE role[u] = "none" /\ Becomes(r, u, work[r].role) /\ GoesTo(r, "consume")
    BY <1>1, <1>3, <1>4, <2>1, <2>3, BecomesKeepsCounted DEF Reading
  <2> QED BY <1>6, <2>2, <2>3 DEF Join
<1>7. CASE WriteMember(r)
  <2>1. u \in Users /\ at[r] = "write"
    BY <1>1, <1>7 DEF WriteMember, PointedAt
  <2>2. CASE Leaves(r) /\ UNCHANGED <<role, headless>>
    BY <1>1, <1>2, <2>2, OwnAside, AsideKeepsCounted
  <2>3. CASE Becomes(r, u, work[r].role) /\ GoesTo(r, "invalidate")
    <3>1. role[u] = "ADMIN" /\ r \notin shaky => \E v \in Admins : v # u
      <4>1. SUFFICES ASSUME role[u] = "ADMIN", r \notin shaky, \A v \in Admins : v = u PROVE FALSE
        OBVIOUS
      <4>2. Cardinality(Admins) # 1
        BY <2>1, <4>1 DEF Counted
      <4>3. Admins = {u}
        BY <2>1, <4>1 DEF Admins
      <4> HIDE DEF u
      <4> QED BY <4>2, <4>3, FS_Singleton
    <3> QED BY <1>1, <1>3, <1>4, <2>1, <2>3, <3>1, BecomesKeepsCounted DEF Reading
  <2> QED BY <1>7, <2>2, <2>3 DEF WriteMember
<1>8. CASE FindMember(r)
  <2>1. UNCHANGED <<role, headless>> /\ at[r] = "find"
    BY <1>8 DEF FindMember, rows
  <2>2. CASE Leaves(r)
    BY <1>1, <1>2, <2>1, <2>2, OwnAside, AsideKeepsCounted
  <2>3. CASE /\ seen' = [seen EXCEPT ![r] = role[u]]
             /\ GoesTo(r, "admins") /\ UNCHANGED <<Locals, work, shaky>>
    <3>1. /\ at'[r] = "admins" /\ seen'[r] = role[u] /\ UNCHANGED <<work, shaky>>
          /\ \A q \in Requests \ {r} : UNCHANGED <<at[q], seen[q]>>
      BY <1>1, <1>3, <2>3 DEF Own, Typed, TypeOK
    <3>2. Admins' = Admins
      BY <2>1 DEF Admins
    <3> QED BY <2>1, <3>1, <3>2 DEF Counted
  <2> QED BY <1>8, <2>2, <2>3 DEF FindMember
<1>9. CASE CountAdmins(r)
  <2>1. UNCHANGED <<role, headless>> /\ at[r] = "admins"
    BY <1>9 DEF CountAdmins, rows
  <2>2. CASE Leaves(r)
    BY <1>1, <1>2, <2>1, <2>2, OwnAside, AsideKeepsCounted
  <2>3. CASE /\ ~(Cardinality(Admins) = 1 /\ seen[r] = "ADMIN")
             /\ GoesTo(r, "write") /\ UNCHANGED <<Locals, work, seen, shaky>>
    <3>1. /\ at'[r] = "write" /\ UNCHANGED <<work, seen, shaky>>
          /\ \A q \in Requests \ {r} : UNCHANGED at[q]
      BY <1>1, <1>3, <2>3 DEF Own
    <3>2. Admins' = Admins
      BY <2>1 DEF Admins
    <3> QED BY <2>1, <2>3, <3>1, <3>2 DEF Counted
  <2> QED BY <1>9, <2>2, <2>3 DEF CountAdmins
<1> QED BY <1>5, <1>6, <1>7, <1>8, <1>9

LEMMA NextKeepsCounted == Typed /\ Counted /\ [Next]_vars => Counted'
<1> SUFFICES ASSUME Typed, Counted, [Next]_vars PROVE Counted'
  OBVIOUS
<1>1. ASSUME NEW r \in Requests, PlanStep(r) \/ MemberSteps(r) \/ MemberAsks(r) \/ MemberStops(r)
      PROVE  Counted'
  BY <1>1, PlanStepAside, RowStepsAside, RoleStepsKeepCounted, AsideKeepsCounted DEF MemberSteps
<1>2. CASE Outside
  BY <1>2, OutsideAside, AsideKeepsCounted
<1>3. CASE UNCHANGED vars
  BY <1>3 DEF vars, planVars, request, members, Counted, Admins
<1> QED BY <1>1, <1>2, <1>3 DEF Next, Outside

\* The check of updateTeamUserRole and deleteTeamUser for the last admin holds unless an
\* admin came or went between a request's reads and its write.
THEOREM AdminsRemain == Spec => []OnlyOverlapTakesLastAdmin
<1>1. Init => Counted
  BY DEF Init, PlanInit, Counted
<1>2. Counted => OnlyOverlapTakesLastAdmin
  BY DEF Counted, OnlyOverlapTakesLastAdmin
<1> QED BY <1>1, <1>2, InitTyped, NextTyped, NextKeepsCounted, PTL DEF Spec

-----------------------------------------------------------------------------
(***************************************************************************)
(* Invitations.                                                            *)
(***************************************************************************)

\* An invitation that nobody leaked is used by one request at a time; who has joined by it
\* still has it to delete, or it is gone.
Invited ==
    /\ joined \subseteq (1..lastId) \X Users
    /\ \A i \in (1..lastId) \ leaked :
          /\ \A p, q \in Using(i) : p = q
          /\ \A u, v \in Users : <<i, u>> \in joined /\ <<i, v>> \in joined => u = v
          /\ \A u \in Users : <<i, u>> \in joined =>
                /\ \A q \in Using(i) : at[q] = "consume"
                /\ Using(i) # {} \/ \A x \in invites : x.id # i

\* The points of a request that has found its invitation.
Accepting == {"join", "consume"}

\* A step of a request that is at no invitation.
Apart ==
    /\ UNCHANGED <<joined, leaked>>
    /\ lastId \in Nat /\ lastId' \in Nat /\ lastId <= lastId'
    /\ \A x \in invites' : x \in invites \/ x.id = lastId + 1
    /\ \A r \in Requests : at[r] \in Accepting \/ at'[r] \in Accepting =>
          UNCHANGED <<at[r], work[r]>>

LEMMA ApartKeepsInvited == Typed /\ Invited /\ Apart => Invited'
<1> SUFFICES ASSUME Typed, Invited, Apart PROVE Invited'
  OBVIOUS
<1>1. \A i : Using(i)' = Using(i)
  BY DEF Using, Apart, Accepting
<1>2. 1..lastId \subseteq 1..lastId'
  BY DEF Apart
<1>3. joined' \subseteq (1..lastId') \X Users
  BY <1>2 DEF Invited, Apart
<1>4. \A r \in Requests : at[r] \in Accepting => work[r].id \in 1..lastId
  BY DEF Typed, Pointed, PointedAt, Accepting
<1>5. ASSUME NEW i \in (1..lastId') \ leaked', i \notin 1..lastId
      PROVE  Using(i) = {} /\ \A u : <<i, u>> \notin joined
  BY <1>4, <1>5 DEF Invited, Using, Accepting
<1>6. ASSUME NEW i \in (1..lastId) \ leaked
      PROVE  /\ \A p, q \in Using(i)' : p = q
             /\ \A u, v \in Users : <<i, u>> \in joined' /\ <<i, v>> \in joined' => u = v
             /\ \A u \in Users : <<i, u>> \in joined' =>
                   /\ \A q \in Using(i)' : at'[q] = "consume"
                   /\ Using(i)' # {} \/ \A x \in invites' : x.id # i
  <2>1. \A q \in Using(i) : at'[q] = at[q]
    BY DEF Using, Apart, Accepting
  <2>2. \A x \in invites' : x.id = i => x \in invites
    BY DEF Apart
  <2> QED BY <1>1, <2>1, <2>2 DEF Invited, Apart
<1> QED BY <1>1, <1>3, <1>5, <1>6 DEF Invited, Apart

LEMMA OwnApart ==
    ASSUME Typed, NEW r \in Requests, Own(r), UNCHANGED <<lastId, joined, leaked>>,
           invites' \subseteq invites, at[r] \notin Accepting, at'[r] \notin Accepting
    PROVE  Apart
BY DEF Own, Apart, Typed, TypeOK

LEMMA PlanStepApart ==
    ASSUME Typed, NEW r \in Requests, PlanStep(r)
    PROVE  Apart
<1>1. /\ at[r] \notin Accepting
      /\ at'[r] \in {"fill", "store", "idle", "save", "list", "row", "update", then[r]}
  <2>1. at \in [Requests -> Points]
    BY DEF Typed, TypeOK
  <2>2. CASE CacheSteps(r)
    BY <2>1, <2>2 DEF CacheSteps, ReadCache, FillCache, StoreCache, InvalidateCache, GoesTo, Ends,
                      Accepting
  <2>3. CASE Answer(r) \/ CheckoutSteps(r)
    BY <2>1, <2>3 DEF Answer, CheckoutSteps, CreateCustomer, SaveCustomer, OpenSession, GoesTo, Ends,
                      Accepting
  <2>4. CASE SyncSteps(r)
    BY <2>1, <2>4 DEF SyncSteps, SyncReadTeam, SyncList, SyncSave, SyncUpdate, SyncWrites, GoesTo,
                      Ends, Accepting
  <2> QED BY <2>2, <2>3, <2>4 DEF PlanStep, PlanSteps
<1>2. then[r] \notin Accepting
  BY DEF Typed, Pointed, PointedAt, Accepting
<1> QED BY <1>1, <1>2, PlanStepTyped, OwnApart DEF Accepting, rows

LEMMA OutsideApart ==
    ASSUME Typed, Outside
    PROVE  Apart
<1>1. UNCHANGED <<invites, lastId, work, joined, leaked>> /\ lastId \in Nat
  BY DEF Outside, members, Typed, TypeOK
<1>2. at \in [Requests -> Points]
  BY DEF Typed, TypeOK
<1>3. CASE CacheExpires \/ \E c \in Customers : Pays(c) \/ Lapses(c)
  BY <1>1, <1>3, OthersTyped DEF Outside, Apart, request
<1>4. CASE \E c \in Customers, r \in Requests : Deliver(r, c)
  BY <1>1, <1>2, <1>4 DEF Deliver, GoesTo, Apart, Accepting
<1>5. CASE \E r \in Requests : Asks(r)
  BY <1>1, <1>2, <1>5
     DEF Asks, AskLimit, AdminUpdate, AskCheckout, ChecksOut, Begins, GoesTo, Apart, Accepting
<1> QED BY <1>3, <1>4, <1>5 DEF Outside, Stripe

LEMMA MembersApart ==
    ASSUME Typed, NEW r \in Requests,
           \/ MemberAsks(r) \/ CountMembers(r) \/ CreateInvite(r) \/ AddMember(r) \/ PurgeInvites(r)
           \/ FindMember(r) \/ CountAdmins(r) \/ WriteMember(r)
    PROVE  Apart
<1>1. CASE MemberAsks(r)
  BY <1>1, MemberAsksTyped, OwnApart DEF Accepting, rows
<1>2. CASE \/ CountMembers(r) \/ CreateInvite(r) \/ AddMember(r) \/ PurgeInvites(r)
           \/ FindMember(r) \/ CountAdmins(r) \/ WriteMember(r)
  <2>1. Own(r) /\ lastId <= lastId' /\ lastId \in Nat /\ lastId' \in Nat
    BY <1>2, MemberStepsTyped DEF MemberSteps, Moved, RowsTyped, Typed, TypeOK
  <2>2. UNCHANGED <<joined, leaked>> /\ at[r] \notin Accepting
    BY <1>2 DEF CountMembers, CreateInvite, AddMember, PurgeInvites, FindMember, CountAdmins,
                WriteMember, members, Accepting
  <2>3. at'[r] \notin Accepting
    <3>1. Leaves(r) => at'[r] = "idle"
      BY LeavesTyped
    <3>2. \A p : GoesTo(r, p) => at'[r] = p
      BY DEF GoesTo, Typed, TypeOK
    <3> QED BY <1>2, <3>1, <3>2
           DEF CountMembers, CreateInvite, AddMember, PurgeInvites, FindMember, CountAdmins,
               WriteMember, Accepting
  <2>4. \A x \in invites' : x \in invites \/ x.id = lastId + 1
    BY <1>2 DEF CountMembers, CreateInvite, AddMember, PurgeInvites, FindMember, CountAdmins,
                WriteMember, members, rows
  <2> QED BY <2>1, <2>2, <2>3, <2>4 DEF Own, Apart
<1> QED BY <1>1, <1>2

\* A request leaves its invitation: deleted, refused to a member, or leaked by a stop.
LEMMA DoneKeepsInvited ==
    ASSUME Typed, Invited, NEW r \in Requests, Own(r), at'[r] = "idle",
           UNCHANGED <<lastId, joined>>, leaked \subseteq leaked', invites' \subseteq invites,
           at[r] = "consume" => work[r].id \in leaked' \/ \A x \in invites' : x.id # work[r].id
    PROVE  Invited'
<1>1. \A i : Using(i)' = Using(i) \ {r}
  BY DEF Using, Own
<1>2. joined' \subseteq (1..lastId') \X Users
  BY DEF Invited
<1>3. ASSUME NEW i \in (1..lastId) \ leaked'
      PROVE  /\ \A p, q \in Using(i)' : p = q
             /\ \A u, v \in Users : <<i, u>> \in joined' /\ <<i, v>> \in joined' => u = v
             /\ \A u \in Users : <<i, u>> \in joined' =>
                   /\ \A q \in Using(i)' : at'[q] = "consume"
                   /\ Using(i)' # {} \/ \A x \in invites' : x.id # i
  <2>1. \A q \in Using(i)' : at'[q] = at[q]
    BY <1>1 DEF Using, Own
  <2>2. ASSUME NEW u \in Users, <<i, u>> \in joined
        PROVE  Using(i)' # {} \/ \A x \in invites' : x.id # i
    <3>1. CASE r \in Using(i)
      BY <1>3, <2>2, <3>1 DEF Invited, Using
    <3>2. CASE r \notin Using(i)
      BY <1>1, <1>3, <2>2, <3>2 DEF Invited
    <3> QED BY <3>1, <3>2
  <2> QED BY <1>1, <1>3, <2>1, <2>2 DEF Invited
<1> QED BY <1>2, <1>3 DEF Invited

LEMMA AcceptKeepsInvited ==
    ASSUME Typed, Invited, NEW r \in Requests,
           FindInvite(r) \/ Join(r) \/ ConsumeInvite(r) \/ MemberStops(r)
    PROVE  Invited'
<1>1. Leaves(r) => at'[r] = "idle"
  BY LeavesTyped
<1>2. \A p : GoesTo(r, p) => at'[r] = p
  BY DEF GoesTo, Typed, TypeOK
<1>3. PointedAt(r) /\ lastId \in Nat /\ work \in [Requests -> Work]
  BY TypesSplit DEF Typed, Pointed, RequestsTyped, RowsTyped
<1>4. CASE MemberStops(r)
  BY <1>4, MemberStopsTyped, DoneKeepsInvited DEF MemberStops, rows
<1>5. CASE ConsumeInvite(r)
  <2>1. Own(r)
    BY <1>5, MemberStepsTyped DEF MemberSteps, Moved
  <2> QED BY <1>1, <1>5, <2>1, DoneKeepsInvited DEF ConsumeInvite
<1>6. CASE FindInvite(r)
  <2>1. Own(r) /\ UNCHANGED <<rows, joined>> /\ at[r] = "invite"
    BY <1>6, MemberStepsTyped DEF MemberSteps, Moved, FindInvite
  <2>2. CASE Leaves(r) /\ UNCHANGED leaked
    BY <1>1, <2>1, <2>2, DoneKeepsInvited DEF rows
  <2>3. CASE op[r] = "revoke" /\ GoesTo(r, "purge") /\ UNCHANGED leaked
    <3>1. at'[r] = "purge"
      BY <1>2, <2>3
    <3> QED BY <2>1, <2>3, <3>1, OwnApart, ApartKeepsInvited DEF rows, Accepting
  <2>4. ASSUME op[r] = "accept", NEW i \in invites, i.id = work[r].id, GoesTo(r, "join"),
               work'[r].id = work[r].id,
               leaked' = IF Using(work[r].id) # {} THEN leaked \cup {work[r].id} ELSE leaked
        PROVE  Invited'
    <3> DEFINE id == work[r].id
    <3>1. at'[r] = "join" /\ id \in 1..lastId
      BY <1>2, <1>3, <2>1, <2>4 DEF PointedAt
    <3>2. Using(id)' = Using(id) \cup {r} /\ \A j : j # id => Using(j)' = Using(j)
      BY <2>1, <2>4, <3>1 DEF Using, Own
    <3>3. \A q \in Requests \ {r} : at'[q] = at[q]
      BY <2>1 DEF Own
    <3>4. \A j : j # id => r \notin Using(j)
      BY DEF Using
    <3>5. id \notin leaked' => Using(id) = {} /\ \A u \in Users : <<id, u>> \notin joined
      BY <2>4, <3>1 DEF Invited
    <3>6. lastId' = lastId /\ joined' = joined /\ invites' = invites /\ leaked \subseteq leaked'
      BY <2>1, <2>4 DEF rows
    <3>7. \A j : Using(j) \subseteq Requests
      BY DEF Using
    <3> HIDE DEF id
    <3> QED BY <3>1, <3>2, <3>3, <3>4, <3>5, <3>6, <3>7 DEF Invited
  <2>5. CASE op[r] = "accept" /\ ~(Leaves(r) /\ UNCHANGED leaked)
    <3>1. PICK i \in invites :
             /\ i.id = work[r].id
             /\ work' = [work EXCEPT ![r] = [user |-> work[r].user, role |-> i.role, id |-> work[r].id]]
             /\ GoesTo(r, "join")
             /\ leaked' = IF Using(work[r].id) # {} THEN leaked \cup {work[r].id} ELSE leaked
      BY <1>6, <2>5 DEF FindInvite
    <3>2. work'[r].id = work[r].id
      BY <1>3, <3>1
    <3> QED BY <2>4, <2>5, <3>1, <3>2
  <2>6. CASE op[r] = "revoke"
    BY <1>6, <2>2, <2>3, <2>6 DEF FindInvite
  <2> QED BY <1>3, <2>1, <2>2, <2>5, <2>6 DEF PointedAt
<1>7. CASE Join(r)
  <2>1. Own(r) /\ UNCHANGED <<invites, lastId, leaked>> /\ at[r] = "join"
    BY <1>7, MemberStepsTyped DEF MemberSteps, Moved, Join
  <2>2. CASE Leaves(r) /\ UNCHANGED joined
    BY <1>1, <2>1, <2>2, DoneKeepsInvited
  <2>3. CASE /\ joined' = joined \cup {<<work[r].id, work[r].user>>}
             /\ GoesTo(r, "consume") /\ UNCHANGED work
    <3> DEFINE id == work[r].id
               u == work[r].user
    <3>1. at'[r] = "consume" /\ id \in 1..lastId /\ u \in Users
      BY <1>2, <1>3, <2>1, <2>3 DEF PointedAt
    <3>2. r \in Using(id) /\ \A j : Using(j)' = Using(j)
      BY <2>1, <2>3, <3>1 DEF Using, Own
    <3>3. id \notin leaked => \A v \in Users : <<id, v>> \notin joined
      BY <2>1, <3>1, <3>2 DEF Invited
    <3>4. id \notin leaked => Using(id) = {r}
      BY <3>1, <3>2 DEF Invited
    <3>5. \A q \in Requests \ {r} : at'[q] = at[q]
      BY <2>1 DEF Own
    <3>6. \A j : Using(j) \subseteq Requests
      BY DEF Using
    <3>7. \A j : j # id => r \notin Using(j)
      BY DEF Using
    <3> HIDE DEF id, u
    <3>8. joined' = joined \cup {<<id, u>>}
      BY <2>3 DEF id, u
    <3>9. joined' \subseteq (1..lastId') \X Users
      BY <2>1, <3>1, <3>8 DEF Invited
    <3>10. ASSUME NEW j \in (1..lastId) \ leaked, j = id
           PROVE  /\ \A p, q \in Using(j)' : p = q
                  /\ \A v, w \in Users : <<j, v>> \in joined' /\ <<j, w>> \in joined' => v = w
                  /\ \A q \in Using(j)' : at'[q] = "consume"
                  /\ Using(j)' # {}
      BY <3>1, <3>2, <3>3, <3>4, <3>8, <3>10
    <3>11. ASSUME NEW j \in (1..lastId) \ leaked, j # id
           PROVE  /\ \A p, q \in Using(j)' : p = q
                  /\ \A v, w \in Users : <<j, v>> \in joined' /\ <<j, w>> \in joined' => v = w
                  /\ \A v \in Users : <<j, v>> \in joined' =>
                       /\ \A q \in Using(j)' : at'[q] = "consume"
                       /\ Using(j)' # {} \/ \A x \in invites : x.id # j
      <4>1. \A v : <<j, v>> \in joined' => <<j, v>> \in joined
        BY <3>8, <3>11
      <4>2. \A q \in Using(j) : at'[q] = at[q]
        BY <3>5, <3>6, <3>7, <3>11
      <4> QED BY <3>2, <4>1, <4>2 DEF Invited
    <3> QED BY <2>1, <3>9, <3>10, <3>11 DEF Invited
  <2> QED BY <1>7, <2>2, <2>3 DEF Join
<1> QED BY <1>4, <1>5, <1>6, <1>7

LEMMA NextKeepsInvited == Typed /\ Invited /\ [Next]_vars => Invited'
<1> SUFFICES ASSUME Typed, Invited, [Next]_vars PROVE Invited'
  OBVIOUS
<1>1. ASSUME NEW r \in Requests, PlanStep(r) \/ MemberSteps(r) \/ MemberAsks(r) \/ MemberStops(r)
      PROVE  Invited'
  BY <1>1, PlanStepApart, MembersApart, ApartKeepsInvited, AcceptKeepsInvited DEF MemberSteps
<1>2. CASE Outside
  BY <1>2, OutsideApart, ApartKeepsInvited
<1>3. CASE UNCHANGED vars
  BY <1>3 DEF vars, planVars, request, members, Invited, Using
<1> QED BY <1>1, <1>2, <1>3 DEF Next, Outside

\* An invitation admits one user, by whatever requests and retries of acceptTeamInvite,
\* unless two of them found it or one stopped before it had deleted it.
THEOREM InvitesAdmitOne == Spec => []InviteAdmitsOne
<1>1. Init => Invited
  BY DEF Init, PlanInit, Invited, Using
<1>2. Invited => InviteAdmitsOne
  <2> SUFFICES ASSUME Invited, NEW i \in 1..lastId, i \notin leaked
               PROVE  ~(Cardinality({u \in Users : <<i, u>> \in joined}) > 1)
    BY DEF InviteAdmitsOne
  <2> DEFINE J == {u \in Users : <<i, u>> \in joined}
  <2>1. \A u, v \in J : u = v
    BY DEF Invited
  <2>2. CASE J = {}
    <3>1. Cardinality(J) = 0
      BY <2>2, FS_EmptySet
    <3> HIDE DEF J
    <3>2. ~(Cardinality(J) > 1)
      BY <3>1
    <3> QED BY <3>2 DEF J
  <2>3. ASSUME NEW u \in J PROVE Cardinality(J) = 1
    <3>1. J = {u}
      BY <2>1
    <3> HIDE DEF J
    <3> QED BY <3>1, FS_Singleton
  <2> QED BY <2>2, <2>3
<1> QED BY <1>1, <1>2, InitTyped, NextTyped, NextKeepsInvited, PTL DEF Spec

-----------------------------------------------------------------------------
(***************************************************************************)
(* The cached plan.                                                        *)
(***************************************************************************)

\* Who is to store a plan has the row's, or is older than its last change.
Fresh ==
    /\ \A r \in Requests :
          /\ at[r] = "store" /\ r \notin older => hand[r] = plan
          /\ r \in older => at[r] = "store"
    /\ CacheHasReason

\* A step of one request that writes neither the plan nor the cache.
LEMMA OwnKeepsFresh ==
    ASSUME Fresh, NEW r \in Requests, Own(r), UNCHANGED <<plan, cache, lag>>, lost => lost',
           Refreshing(r) => Refreshing(r)' \/ lost',
           older' = older \/ older' = older \ {r},
           at'[r] = "store" /\ r \notin older' => hand'[r] = plan',
           r \in older' => at'[r] = "store"
    PROVE  Fresh'
<1>1. \A q \in Requests \ {r} : Refreshing(q) => Refreshing(q)'
  BY DEF Own, Refreshing
<1>2. CacheHasReason'
  BY <1>1 DEF Fresh, CacheHasReason
<1> QED BY <1>2 DEF Own, Fresh

LEMMA CacheStepKeepsFresh ==
    ASSUME Typed, Fresh, NEW r \in Requests, PlanStep(r), CacheSteps(r)
    PROVE  Fresh'
<1>1. Own(r) /\ PointedAt(r)
  BY CacheStepTyped DEF Typed, Pointed
<1>2. at \in [Requests -> Points] /\ hand \in [Requests -> Plans \cup {"none"}]
  BY DEF Typed, TypeOK, PlanTypeOK
<1>3. then[r] \notin {"store", "fill", "invalidate"}
  BY <1>1 DEF PointedAt
<1>4. CASE ReadCache(r)
  <2>1. at[r] = "cache" /\ at'[r] \in {"fill", then[r]} /\ UNCHANGED <<plan, cache, lag, lost, older>>
    BY <1>2, <1>4 DEF ReadCache, GoesTo, team
  <2> QED BY <1>1, <1>3, <2>1, OwnKeepsFresh DEF Fresh, Refreshing
<1>5. CASE FillCache(r)
  <2>1. /\ at[r] = "fill" /\ at'[r] = "store" /\ hand'[r] = plan
        /\ UNCHANGED <<plan, cache, lag, lost, older, op>>
    BY <1>2, <1>5 DEF FillCache, GoesTo, team
  <2> QED BY <1>1, <2>1, OwnKeepsFresh DEF Fresh, Refreshing
<1>6. CASE StoreCache(r)
  <2>1. /\ at[r] = "store" /\ at'[r] = then[r] /\ cache' = hand[r] /\ UNCHANGED plan
        /\ lag' = (r \in older) /\ older' = older \ {r}
    BY <1>2, <1>6 DEF StoreCache, GoesTo
  <2>2. CacheHasReason'
    <3>1. lag' \/ hand[r] = plan
      BY <2>1 DEF Fresh
    <3> QED BY <2>1, <3>1 DEF CacheHasReason
  <2> QED BY <1>1, <1>3, <2>1, <2>2 DEF Own, Fresh
<1>7. CASE InvalidateCache(r)
  <2>1. /\ at[r] = "invalidate" /\ at'[r] = "idle" /\ cache' = "none"
        /\ UNCHANGED <<plan, older>>
    BY <1>2, <1>7 DEF InvalidateCache, Ends
  <2>2. CacheHasReason'
    BY <2>1 DEF CacheHasReason
  <2> QED BY <1>1, <2>1, <2>2 DEF Own, Fresh
<1> QED BY <1>4, <1>5, <1>6, <1>7 DEF CacheSteps

\* The row is written, and its writer has the cache to refresh.
LEMMA WriteKeepsFresh ==
    ASSUME Typed, Fresh, NEW r \in Requests, Own(r), NEW p, WritePlan(p), at[r] # "store",
           at'[r] # "store", Refreshing(r)'
    PROVE  Fresh'
<1>1. older' = older \cup {q \in Requests : at[q] = "store"}
  BY DEF WritePlan
<1>2. CacheHasReason'
  BY DEF CacheHasReason
<1>3. \A q \in Requests : at'[q] = "store" => q \in older'
  BY <1>1 DEF Own
<1>4. \A q \in Requests : q \in older' => at'[q] = "store"
  BY <1>1 DEF Own, Fresh
<1> QED BY <1>2, <1>3, <1>4 DEF Fresh

\* The points of a request that has the cache to see to.
Caching == {"fill", "store", "invalidate"}

LEMMA OtherStepsKeepFresh ==
    ASSUME Typed, Fresh, NEW r \in Requests,
           \/ PlanStep(r) /\ ~CacheSteps(r)
           \/ MemberAsks(r) \/ MemberSteps(r) \/ MemberStops(r)
    PROVE  Fresh'
<1>1. at \in [Requests -> Points] /\ PointedAt(r)
  BY DEF Typed, TypeOK, Pointed
<1>2. \A p : GoesTo(r, p) => at'[r] = p
  BY <1>1 DEF GoesTo
<1>3. Ends(r) => at'[r] = "idle"
  BY <1>1 DEF Ends
<1>4. ASSUME Own(r), UNCHANGED <<plan, cache, lag, lost, older>>, at[r] \notin Caching,
             at'[r] # "store"
      PROVE  Fresh'
  BY <1>4, OwnKeepsFresh DEF Fresh, Refreshing, Caching
<1>5. CASE PlanStep(r) /\ (Answer(r) \/ CheckoutSteps(r))
  <2>1. UNCHANGED <<plan, cache, lag, lost, older>> /\ at[r] \notin Caching /\ at'[r] # "store"
    BY <1>2, <1>3, <1>5
       DEF Answer, CheckoutSteps, CreateCustomer, SaveCustomer, OpenSession, team, Caching
  <2> QED BY <1>4, <1>5, <2>1, CheckoutStepTyped
<1>6. CASE PlanStep(r) /\ (SyncReadTeam(r) \/ SyncList(r) \/ SyncSave(r))
  <2>1. UNCHANGED <<plan, cache, lag, lost, older>> /\ at[r] \notin Caching /\ at'[r] # "store"
    BY <1>2, <1>3, <1>6 DEF SyncReadTeam, SyncList, SyncSave, team, Caching
  <2> QED BY <1>4, <1>6, <2>1, SyncStepTyped DEF SyncSteps
<1>7. CASE PlanStep(r) /\ SyncUpdate(r)
  <2>1. Own(r) /\ WritePlan(PlanOf(ans[r])) /\ at[r] = "update" /\ at'[r] = "fill"
    BY <1>2, <1>7, SyncStepTyped DEF SyncSteps, SyncUpdate, SyncWrites
  <2>2. op'[r] = "sync"
    BY <1>1, <1>7 DEF SyncUpdate, SyncWrites, PointedAt
  <2> QED BY <2>1, <2>2, WriteKeepsFresh DEF Refreshing
<1>8. CASE MemberAsks(r)
  BY <1>4, <1>8, MemberAsksTyped DEF team, Caching
<1>9. CASE MemberSteps(r)
  <2>1. at[r] \notin Caching
    BY <1>9 DEF MemberSteps, CountMembers, CreateInvite, AddMember, PurgeInvites, FindMember,
                CountAdmins, WriteMember, FindInvite, Join, ConsumeInvite, Caching
  <2>2. at'[r] # "store"
    <3>1. Leaves(r) => at'[r] = "idle"
      BY <1>3 DEF Leaves
    <3> QED BY <1>2, <1>9, <3>1
           DEF MemberSteps, CountMembers, CreateInvite, AddMember, PurgeInvites, FindMember,
               CountAdmins, WriteMember, FindInvite, Join, ConsumeInvite
  <2> QED BY <1>4, <1>9, <2>1, <2>2, MemberStepsTyped DEF Moved, team
<1>10. CASE MemberStops(r)
  <2>1. /\ UNCHANGED <<plan, cache, lag>> /\ lost' = (lost \/ Refreshing(r))
        /\ older' = older \ {r} /\ at'[r] = "idle" /\ Own(r)
    BY <1>10, MemberStopsTyped DEF MemberStops, Stops, Halts
  <2> QED BY <2>1, OwnKeepsFresh
<1> QED BY <1>5, <1>6, <1>7, <1>8, <1>9, <1>10 DEF PlanStep, PlanSteps, SyncSteps

LEMMA OutsideKeepsFresh ==
    ASSUME Typed, Fresh, Outside
    PROVE  Fresh'
<1>1. UNCHANGED members /\ at \in [Requests -> Points]
  BY DEF Outside, Typed, TypeOK
<1>2. CASE CacheExpires
  BY <1>2 DEF CacheExpires, request, Fresh, CacheHasReason
<1>3. CASE \E c \in Customers : Pays(c) \/ Lapses(c)
  <2>1. UNCHANGED <<request, team>>
    BY <1>3 DEF Pays, Lapses, Changes
  <2> QED BY <2>1 DEF request, team, Fresh, CacheHasReason, Refreshing
<1>4. ASSUME NEW c \in Customers, NEW r \in Requests, Deliver(r, c)
      PROVE  Fresh'
  <2>1. Own(r)
    BY <1>1, <1>4, DeliverTyped
  <2>2. at[r] = "idle" /\ at'[r] = "team" /\ UNCHANGED team
    BY <1>1, <1>4 DEF Deliver, GoesTo
  <2> QED BY <2>1, <2>2, OwnKeepsFresh DEF team, Fresh, Refreshing
<1>5. ASSUME NEW r \in Requests, AskLimit(r) \/ AskCheckout(r)
      PROVE  Fresh'
  <2>1. Own(r)
    BY <1>1, <1>5, AsksTyped DEF Asks
  <2>2. /\ at[r] = "idle" /\ at'[r] \in {"cache", "open"}
        /\ UNCHANGED <<plan, cache, lag, lost, older>>
    BY <1>1, <1>5 DEF AskLimit, AskCheckout, ChecksOut, Begins, GoesTo, team
  <2> QED BY <2>1, <2>2, OwnKeepsFresh DEF Fresh, Refreshing
<1>6. ASSUME NEW r \in Requests, AdminUpdate(r)
      PROVE  Fresh'
  <2>1. Own(r)
    BY <1>1, <1>6, AsksTyped DEF Asks
  <2>2. /\ at[r] = "idle" /\ at'[r] = "invalidate" /\ op'[r] = "admin"
        /\ \E p \in Plans : WritePlan(p)
    BY <1>1, <1>6 DEF AdminUpdate, Begins, GoesTo, Typed, TypeOK
  <2> QED BY <2>1, <2>2, WriteKeepsFresh DEF Refreshing
<1> QED BY <1>2, <1>3, <1>4, <1>5, <1>6 DEF Outside, Stripe, Asks

LEMMA NextKeepsFresh == Typed /\ Fresh /\ [Next]_vars => Fresh'
<1> SUFFICES ASSUME Typed, Fresh, [Next]_vars PROVE Fresh'
  OBVIOUS
<1>1. ASSUME NEW r \in Requests, PlanStep(r) \/ MemberSteps(r) \/ MemberAsks(r) \/ MemberStops(r)
      PROVE  Fresh'
  BY <1>1, CacheStepKeepsFresh, OtherStepsKeepFresh
<1>2. CASE Outside
  BY <1>2, OutsideKeepsFresh
<1>3. CASE UNCHANGED vars
  BY <1>3 DEF vars, planVars, request, team, Fresh, CacheHasReason, Refreshing
<1> QED BY <1>1, <1>2, <1>3 DEF Next, Outside

\* The limits are checked against the row's plan, or against an older one for a reason that
\* is known: a refresh on its way, one that stopped, or a reader that stored what it had
\* read before the change.
THEOREM CachesHaveReasons == Spec => []CacheHasReason
<1>1. Init => Fresh
  BY DEF Init, PlanInit, Fresh, CacheHasReason
<1>2. Fresh => CacheHasReason
  BY DEF Fresh
<1> QED BY <1>1, <1>2, InitTyped, NextTyped, NextKeepsFresh, PTL DEF Spec

-----------------------------------------------------------------------------
(***************************************************************************)
(* Who pays.                                                               *)
(***************************************************************************)

\* Unless the customer was made twice: one checkout at most has it to make, and Stripe knows
\* of no other.
Paying ==
    /\ \A r \in Requests : then[r] = "open" => customer # "none"
    /\ ~twice =>
          /\ \A r, q \in Requests :
                op[r] = "checkout" /\ op[q] = "checkout" /\ customer = "none" => r = q
          /\ \A r \in Requests : op[r] = "checkout" =>
                /\ customer # "none" => who[r] = customer
                /\ customer = "none" /\ at[r] = "open" => who[r] = "none"
          /\ checkout \subseteq {customer}
          /\ \A c \in Customers : stripe[c] # "none" => c = customer
          /\ \A c \in Customers : saved[c] # "none" \/ owed[c] > 0 => stripe[c] # "none"
          /\ \A r \in Requests : op[r] = "sync" => stripe[who[r]] # "none"
          /\ customer = "none" /\ ~overtaken => plan = "FREE"

\* A step of one request that begins no checkout and no sync, and changes nothing at Stripe.
LEMMA OwnKeepsPaying ==
    ASSUME Paying, NEW r \in Requests, Own(r),
           UNCHANGED <<customer, checkout, stripe, saved, owed, twice>>,
           op'[r] \in {"checkout", "sync"} => op[r] = op'[r] /\ who'[r] = who[r],
           at'[r] = "open" => at[r] = "open" \/ then[r] = "open",
           then'[r] = "open" => then[r] = "open",
           customer = "none" /\ ~twice /\ ~overtaken' => plan' = "FREE"
    PROVE  Paying'
<1>1. \A q \in Requests : then'[q] = "open" => then[q] = "open"
  BY DEF Own
<1>2. \A q \in Requests : op'[q] \in {"checkout", "sync"} => op[q] = op'[q] /\ who'[q] = who[q]
  BY DEF Own
<1>3. \A q \in Requests : at'[q] = "open" => at[q] = "open" \/ then[q] = "open"
  BY DEF Own
<1> QED BY <1>1, <1>2, <1>3 DEF Paying

\* No sync is at work, and nothing is owed, for a customer that the team does not have.
LEMMA SyncsKnowCustomer ==
    ASSUME Typed, Paying, ~twice, NEW r \in Requests, op[r] = "sync"
    PROVE  who[r] = customer /\ customer \in Customers /\ customer # "none"
<1>1. who[r] \in Customers /\ stripe[who[r]] # "none"
  BY DEF Typed, Pointed, PointedAt, Paying
<1> QED BY <1>1, TeamAssumption DEF Paying

LEMMA PlanStepKeepsPaying ==
    ASSUME Typed, Paying, NEW r \in Requests, PlanStep(r)
    PROVE  Paying'
<1>1. Own(r) /\ PointedAt(r) /\ RequestsTyped
  BY PlanStepTyped, TypesSplit DEF Typed, Pointed
<1>2. \A p : GoesTo(r, p) => at'[r] = p
  BY <1>1 DEF GoesTo, RequestsTyped
<1>3. Ends(r) => at'[r] = "idle" /\ op'[r] = "none" /\ then'[r] = "idle"
  BY <1>1 DEF Ends, RequestsTyped
<1>4. CASE CacheSteps(r)
  <2>1. UNCHANGED <<customer, checkout, stripe, saved, owed, twice, plan, overtaken>>
    BY <1>4 DEF CacheSteps, ReadCache, FillCache, StoreCache, InvalidateCache, team, stripes
  <2>2. CASE InvalidateCache(r)
    BY <1>1, <1>3, <2>1, <2>2, OwnKeepsPaying DEF InvalidateCache, Paying
  <2>3. CASE ReadCache(r) \/ FillCache(r) \/ StoreCache(r)
    <3>1. UNCHANGED <<op, who, then>> /\ at'[r] \in {"fill", "store", then[r]}
      BY <1>2, <2>3 DEF ReadCache, FillCache, StoreCache
    <3> QED BY <1>1, <2>1, <3>1, OwnKeepsPaying DEF Paying
  <2> QED BY <1>4, <2>2, <2>3 DEF CacheSteps
<1>5. CASE Answer(r)
  <2>1. UNCHANGED <<customer, checkout, stripe, saved, owed, twice, plan, overtaken>> /\ Ends(r)
    BY <1>5 DEF Answer, team, stripes
  <2> QED BY <1>1, <1>3, <2>1, OwnKeepsPaying DEF Paying
<1>6. CASE SyncReadTeam(r) \/ SyncList(r)
  <2>1. UNCHANGED <<customer, checkout, stripe, saved, owed, twice, plan, overtaken>>
    BY <1>6 DEF SyncReadTeam, SyncList, team, stripes
  <2>2. Ends(r) \/ (UNCHANGED <<op, who, then>> /\ at'[r] \in {"list", "row"})
    BY <1>2, <1>6 DEF SyncReadTeam, SyncList
  <2> QED BY <1>1, <1>3, <2>1, <2>2, OwnKeepsPaying DEF Paying
<1>7. CASE SyncUpdate(r)
  <2>1. /\ UNCHANGED <<op, who, customer, checkout, stripe, saved, owed, twice>>
        /\ at'[r] = "fill" /\ at[r] = "update"
    BY <1>2, <1>7 DEF SyncUpdate, SyncWrites, stripes
  <2>2. then'[r] = "answer"
    BY <1>1, <1>7 DEF SyncUpdate, SyncWrites, RequestsTyped
  <2>3. op[r] = "sync"
    BY <1>1, <2>1 DEF PointedAt
  <2>4. ~twice => customer # "none"
    BY <2>3, SyncsKnowCustomer
  <2> QED BY <1>1, <2>1, <2>2, <2>4, OwnKeepsPaying
<1>8. CASE SyncSave(r)
  <2>1. /\ UNCHANGED <<op, who, then, customer, checkout, stripe, owed, twice, plan, overtaken>>
        /\ at'[r] = "update" /\ at[r] = "row" /\ saved' = [saved EXCEPT ![who[r]] = ans[r]]
    BY <1>2, <1>8 DEF SyncSave, team, stripes
  <2>2. op[r] = "sync"
    BY <1>1, <2>1 DEF PointedAt
  <2>3. \A c \in Customers : saved'[c] = saved[c] \/ c = who[r]
    BY <2>1 DEF Typed, TypeOK, PlanTypeOK
  <2>4. \A q \in Requests : at'[q] = "open" => at[q] = "open"
    BY <1>1, <2>1 DEF Own
  <2> QED BY <2>1, <2>2, <2>3, <2>4 DEF Paying
<1>9. CASE CreateCustomer(r)
  <2>1. /\ UNCHANGED <<op, then, customer, checkout, stripe, saved, owed, twice, plan, overtaken>>
        /\ at'[r] = "save" /\ at[r] = "open" /\ who[r] = "none"
    BY <1>2, <1>9 DEF CreateCustomer, team, stripes
  <2>2. op[r] = "checkout"
    BY <1>1, <2>1 DEF PointedAt
  <2>3. ~twice => customer = "none"
    BY <2>1, <2>2 DEF Paying
  <2>4. \A q \in Requests \ {r} : UNCHANGED <<at[q], who[q]>>
    BY <1>1 DEF Own
  <2> QED BY <2>1, <2>2, <2>3, <2>4 DEF Paying
<1>10. CASE SaveCustomer(r)
  <2>1. /\ UNCHANGED <<op, who, checkout, stripe, saved, owed, twice, plan, overtaken>>
        /\ at'[r] = "fill" /\ at[r] = "save" /\ customer' = who[r]
    BY <1>2, <1>10 DEF SaveCustomer, stripes
  <2>2. op[r] = "checkout" /\ who[r] \in Customers
    BY <1>1, <2>1 DEF PointedAt
  <2>3. customer' # "none"
    BY <2>1, <2>2, TeamAssumption
  <2>4. CASE twice
    BY <2>1, <2>3, <2>4 DEF Paying
  <2>5. CASE ~twice /\ customer # "none"
    <3>1. customer' = customer
      BY <2>1, <2>2, <2>5 DEF Paying
    <3> QED BY <2>1, <2>3, <2>5, <3>1 DEF Paying
  <2>6. CASE ~twice /\ customer = "none"
    <3>1. \A c \in Customers : stripe[c] = "none"
      BY <2>6, TeamAssumption DEF Paying
    <3>2. checkout = {}
      BY <2>6, TeamAssumption DEF Paying, Typed, TypeOK, PlanTypeOK
    <3>3. \A q \in Requests : op[q] = "checkout" => q = r
      BY <2>2, <2>6 DEF Paying
    <3> QED BY <2>1, <2>3, <2>6, <3>1, <3>2, <3>3 DEF Paying
  <2> QED BY <2>4, <2>5, <2>6
<1>11. CASE OpenSession(r)
  <2>1. /\ UNCHANGED <<customer, stripe, saved, owed, twice, plan, overtaken>>
        /\ checkout' = checkout \cup {who[r]} /\ at[r] = "open" /\ who[r] # "none" /\ Ends(r)
    BY <1>11 DEF OpenSession, team
  <2>2. op[r] = "checkout"
    BY <1>1, <2>1 DEF PointedAt
  <2>3. ~twice => who[r] = customer
    BY <2>1, <2>2 DEF Paying
  <2>4. \A q \in Requests \ {r} : UNCHANGED <<op[q], at[q], then[q], who[q]>>
    BY <1>1 DEF Own
  <2> QED BY <1>3, <2>1, <2>3, <2>4 DEF Paying
<1> QED BY <1>4, <1>5, <1>6, <1>7, <1>8, <1>9, <1>10, <1>11 DEF PlanStep, PlanSteps, SyncSteps, CheckoutSteps

LEMMA MembersKeepPaying ==
    ASSUME Typed, Paying, NEW r \in Requests, MemberAsks(r) \/ MemberSteps(r) \/ MemberStops(r)
    PROVE  Paying'
<1>1. at \in [Requests -> Points] /\ PointedAt(r) /\ RequestsTyped
  BY TypesSplit DEF Typed, TypeOK, Pointed
<1>2. CASE MemberAsks(r)
  <2>1. then'[r] # "open"
    BY <1>2, MemberAsksTyped DEF PointedAt
  <2> QED BY <1>2, <2>1, MemberAsksTyped, OwnKeepsPaying DEF Paying, team, stripes
<1>3. CASE MemberSteps(r)
  <2>1. Moved(r)
    BY <1>3, MemberStepsTyped
  <2>2. UNCHANGED <<customer, checkout, stripe, saved, owed, twice, plan, overtaken>> /\ Own(r)
    BY <2>1 DEF Moved, team, stripes
  <2>3. Leaves(r) => at'[r] = "idle" /\ op'[r] = "none" /\ then'[r] # "open"
    BY LeavesTyped DEF PointedAt
  <2>4. \A p : GoesTo(r, p) => at'[r] = p
    BY <1>1 DEF GoesTo
  <2>5. Leaves(r) \/ (UNCHANGED <<op, who, then>> /\ at'[r] # "open")
    BY <1>3, <2>4 DEF MemberSteps, CountMembers, CreateInvite, AddMember, PurgeInvites, FindMember,
                CountAdmins, WriteMember, FindInvite, Join, ConsumeInvite, Locals
  <2> QED BY <2>2, <2>3, <2>5, OwnKeepsPaying DEF Paying
<1>4. CASE MemberStops(r)
  <2>1. /\ UNCHANGED <<customer, checkout, stripe, saved, twice, plan, overtaken>>
        /\ Own(r) /\ at'[r] = "idle" /\ op'[r] = "none" /\ then'[r] # "open"
    BY <1>4, MemberStopsTyped DEF MemberStops, Stops, Halts, PointedAt
  <2>2. owed' = IF op[r] = "sync" THEN [owed EXCEPT ![who[r]] = @ + 1] ELSE owed
    BY <1>4 DEF MemberStops, Stops
  <2>3. \A c \in Customers : owed'[c] = owed[c] \/ (op[r] = "sync" /\ c = who[r])
    BY <2>2 DEF Typed, TypeOK, PlanTypeOK
  <2>4. \A q \in Requests \ {r} : UNCHANGED <<op[q], at[q], then[q], who[q]>>
    BY <2>1 DEF Own
  <2> QED BY <2>1, <2>3, <2>4 DEF Paying
<1> QED BY <1>2, <1>3, <1>4

LEMMA OutsideKeepsPaying ==
    ASSUME Typed, Paying, Outside
    PROVE  Paying'
<1>1. UNCHANGED members /\ RequestsTyped /\ StripeTyped
  BY TypesSplit DEF Outside, Typed
<1>2. CASE CacheExpires
  BY <1>2 DEF CacheExpires, request, Paying, stripes
<1>3. ASSUME NEW c \in Customers, Pays(c) \/ Lapses(c)
      PROVE  Paying'
  <2>1. PICK x \in Status \ {"none"} : Changes(c, x)
    BY <1>3 DEF Pays, Lapses, Status, Entitled
  <2>2. /\ UNCHANGED <<op, who, at, then, customer, twice, saved, plan, overtaken>>
        /\ stripe' = [stripe EXCEPT ![c] = x] /\ owed' = [owed EXCEPT ![c] = @ + 1]
    BY <2>1 DEF Changes, request, team
  <2>3. checkout' \subseteq checkout
    BY <1>3 DEF Pays, Lapses
  <2>4. ~twice => c = customer
    BY <1>3 DEF Pays, Lapses, Paying, Entitled
  <2>5. \A d \in Customers \ {c} : UNCHANGED <<stripe[d], owed[d]>>
    BY <1>1, <2>2 DEF StripeTyped
  <2>6. stripe'[c] # "none"
    BY <1>1, <2>1, <2>2 DEF StripeTyped
  <2>7. \A q \in Requests : op[q] = "sync" => who[q] \in Customers
    BY DEF Typed, Pointed, PointedAt
  <2>8. c # "none"
    BY TeamAssumption
  <2> QED BY <2>2, <2>3, <2>4, <2>5, <2>6, <2>7, <2>8 DEF Paying
<1>4. ASSUME NEW c \in Customers, NEW r \in Requests, Deliver(r, c)
      PROVE  Paying'
  <2>1. /\ UNCHANGED <<then, customer, checkout, stripe, saved, twice, plan, overtaken>>
        /\ op'[r] = "sync" /\ who'[r] = c /\ at'[r] = "team" /\ owed[c] > 0
    BY <1>1, <1>4 DEF Deliver, GoesTo, team, RequestsTyped
  <2>2. \A q \in Requests \ {r} : UNCHANGED <<op[q], at[q], who[q]>>
    BY <1>1, <1>4, DeliverTyped DEF Own
  <2>3. \A d \in Customers : owed'[d] > 0 => owed[d] > 0
    BY <1>1, <1>4 DEF Deliver, StripeTyped
  <2> QED BY <2>1, <2>2, <2>3 DEF Paying
<1>5. ASSUME NEW r \in Requests, AskLimit(r) \/ AdminUpdate(r)
      PROVE  Paying'
  <2>1. Own(r) /\ PointedAt(r)'
    BY <1>1, <1>5, AsksTyped DEF Asks
  <2>2. /\ UNCHANGED <<customer, checkout, stripe, saved, owed, twice>>
        /\ UNCHANGED <<plan, overtaken>> \/ overtaken'
    BY <1>5 DEF AskLimit, AdminUpdate, team, stripes
  <2>3. op'[r] \in {"limit", "admin"} /\ at'[r] \in {"cache", "invalidate"}
    BY <1>1, <1>5 DEF AskLimit, AdminUpdate, Begins, GoesTo, RequestsTyped
  <2>4. then'[r] # "open"
    BY <2>1, <2>3 DEF PointedAt
  <2> QED BY <2>1, <2>2, <2>3, <2>4, OwnKeepsPaying DEF Paying
<1>6. ASSUME NEW r \in Requests, AskCheckout(r)
      PROVE  Paying'
  <2>1. /\ UNCHANGED <<then, customer, checkout, stripe, saved, owed, plan, overtaken>>
        /\ op'[r] = "checkout" /\ at'[r] = "open" /\ who'[r] = customer
        /\ twice' = (twice \/ (customer = "none" /\ \E q \in Requests : op[q] = "checkout"))
    BY <1>1, <1>6 DEF AskCheckout, ChecksOut, Begins, GoesTo, stripes, RequestsTyped
  <2>2. \A q \in Requests \ {r} : UNCHANGED <<op[q], at[q], who[q]>>
    BY <1>1, <1>6, AsksTyped DEF Asks, Own
  <2>3. \A q \in Requests : then'[q] = "open" => customer' # "none"
    BY <2>1 DEF Paying
  <2>4. CASE twice'
    BY <2>3, <2>4 DEF Paying
  <2>5. CASE ~twice'
    <3>1. ~twice /\ (customer = "none" => \A q \in Requests : op[q] # "checkout")
      BY <2>1, <2>5
    <3>2. \A q, p \in Requests :
             op'[q] = "checkout" /\ op'[p] = "checkout" /\ customer' = "none" => q = p
      BY <2>1, <2>2, <3>1
    <3>3. \A q \in Requests : op'[q] = "checkout" =>
             /\ customer' # "none" => who'[q] = customer'
             /\ customer' = "none" /\ at'[q] = "open" => who'[q] = "none"
      BY <2>1, <2>2, <3>1 DEF Paying
    <3>4. \A q \in Requests : op'[q] = "sync" => stripe'[who'[q]] # "none"
      BY <2>1, <2>2, <3>1 DEF Paying
    <3>5. /\ checkout' \subseteq {customer'}
          /\ \A c \in Customers : stripe'[c] # "none" => c = customer'
          /\ \A c \in Customers : saved'[c] # "none" \/ owed'[c] > 0 => stripe'[c] # "none"
          /\ customer' = "none" /\ ~overtaken' => plan' = "FREE"
      BY <2>1, <3>1 DEF Paying
    <3> QED BY <2>3, <3>2, <3>3, <3>4, <3>5 DEF Paying
  <2> QED BY <2>4, <2>5
<1> QED BY <1>2, <1>3, <1>4, <1>5, <1>6 DEF Outside, Stripe, Asks

LEMMA NextKeepsPaying == Typed /\ Paying /\ [Next]_vars => Paying'
<1> SUFFICES ASSUME Typed, Paying, [Next]_vars PROVE Paying'
  OBVIOUS
<1>1. ASSUME NEW r \in Requests, PlanStep(r) \/ MemberSteps(r) \/ MemberAsks(r) \/ MemberStops(r)
      PROVE  Paying'
  BY <1>1, PlanStepKeepsPaying, MembersKeepPaying
<1>2. CASE Outside
  BY <1>2, OutsideKeepsPaying
<1>3. CASE UNCHANGED vars
  BY <1>3 DEF vars, planVars, request, team, stripes, Paying
<1> QED BY <1>1, <1>2, <1>3 DEF Next, Outside

LEMMA InitPaying == Init => Paying
<1> SUFFICES ASSUME Init PROVE Paying
  OBVIOUS
<1>1. /\ \A r \in Requests : then[r] = "idle" /\ op[r] = "none"
      /\ \A c \in Customers : stripe[c] = "none" /\ saved[c] = "none" /\ owed[c] = 0
      /\ checkout = {} /\ (overtaken \/ plan = "FREE")
  BY DEF Init, PlanInit, Plans
<1> QED BY <1>1 DEF Paying

\* Who pays is the customer that the team's row has, whatever requests stop, unless two
\* checkouts began before either had made it (createCheckoutSessionForTeam).
THEOREM PayersAreKnown == Spec => []PayerIsKnown
<1>1. Paying => PayerIsKnown
  BY DEF Paying, PayerIsKnown, Entitled
<1> QED BY <1>1, InitPaying, InitTyped, NextTyped, NextKeepsPaying, PTL DEF Spec

-----------------------------------------------------------------------------
(***************************************************************************)
(* The row follows Stripe.                                                 *)
(***************************************************************************)

\* Points of a sync that has listed and not yet written the team's row.
Listed == {"row", "update"}
SyncPoints == Listed \cup {"team", "list"}

\* A sync is still to list.
Due ==
    \/ \E c \in Customers : owed[c] > 0
    \/ \E r \in Requests : at[r] \in {"team", "list"}

\* A sync in time is followed by a later one, or works alone on what Stripe has.
InTime(r) ==
    at[r] \in Listed /\ r \notin late =>
        \/ Due
        \/ \E q \in Requests \ {r} : at[q] \in Listed
        \/ ans[r] = stripe[customer] /\ (at[r] = "update" => saved[customer] = ans[r])

\* What a sync in time left shows what Stripe has, until another is at work.
Shown ==
    \/ Due \/ overtaken
    \/ \E q \in Requests : at[q] \in Listed
    \/ plan = PlanOf(stripe[customer]) /\ saved[customer] = stripe[customer]

Following == ~twice /\ customer # "none" => Shown /\ \A r \in Requests : InTime(r)

LEMMA DueFollows == Due => Following
BY DEF Following, Shown, InTime

\* A step of one request that is no sync's.
LEMMA OwnKeepsFollowing ==
    ASSUME Following, NEW r \in Requests, Own(r), UNCHANGED <<customer, stripe, saved, owed>>,
           at[r] \notin SyncPoints, at'[r] \notin SyncPoints,
           \A q \in Requests \ {r} : q \in late' <=> q \in late,
           UNCHANGED <<plan, overtaken>> \/ overtaken', twice => twice'
    PROVE  Following'
<1>1. \A q \in Requests : at'[q] \in SyncPoints => q # r /\ UNCHANGED <<at[q], ans[q]>>
  BY DEF Own
<1>2. \A q \in Requests : at[q] \in SyncPoints => q # r /\ UNCHANGED <<at[q], ans[q]>>
  BY DEF Own
<1>3. \A q \in Requests : at'[q] \in SyncPoints => (q \in late' <=> q \in late)
  BY <1>1
<1>4. Due => Due'
  BY <1>2 DEF Due, SyncPoints
<1>5. (\E q \in Requests : at[q] \in Listed) => \E q \in Requests : at'[q] \in Listed
  BY <1>2 DEF SyncPoints
<1>6. SUFFICES ASSUME ~twice, customer # "none" PROVE Shown' /\ \A q \in Requests : InTime(q)'
  BY DEF Following
<1>7. Shown'
  BY <1>4, <1>5, <1>6 DEF Following, Shown
<1>8. ASSUME NEW q \in Requests PROVE InTime(q)'
  <2>1. (\E p \in Requests \ {q} : at[p] \in Listed) => \E p \in Requests \ {q} : at'[p] \in Listed
    BY <1>2 DEF SyncPoints
  <2> QED BY <1>1, <1>3, <1>4, <1>6, <2>1 DEF Following, InTime, SyncPoints
<1> QED BY <1>7, <1>8

LEMMA SyncStepKeepsFollowing ==
    ASSUME Typed, Paying, Following, NEW r \in Requests, PlanStep(r), SyncSteps(r)
    PROVE  Following'
<1>1. Own(r) /\ PointedAt(r) /\ RequestsTyped /\ StripeTyped
  BY PlanStepTyped, TypesSplit DEF Typed, Pointed
<1>2. \A p : GoesTo(r, p) => at'[r] = p
  BY <1>1 DEF GoesTo, RequestsTyped
<1>3. op[r] = "sync" /\ UNCHANGED <<customer, twice, stripe, owed>>
  BY <1>1 DEF SyncSteps, SyncReadTeam, SyncList, SyncSave, SyncUpdate, SyncWrites, team, stripes,
              PointedAt
<1>4. SUFFICES ASSUME ~twice, customer # "none" PROVE Following'
  BY <1>3 DEF Following
<1>5. who[r] = customer /\ customer \in Customers
  BY <1>3, <1>4, SyncsKnowCustomer
<1>6. \A q \in Requests \ {r} : UNCHANGED <<at[q], ans[q]>>
  BY <1>1 DEF Own
<1>7. CASE SyncReadTeam(r)
  <2>1. at'[r] = "list"
    BY <1>2, <1>5, <1>7 DEF SyncReadTeam
  <2>2. Due'
    BY <2>1 DEF Due
  <2> QED BY <2>2, DueFollows, PTL
<1>8. CASE SyncList(r)
  <2>1. /\ UNCHANGED <<saved, late, plan, overtaken>>
        /\ at'[r] = "row" /\ ans'[r] = stripe'[customer]
    BY <1>1, <1>2, <1>3, <1>5, <1>8 DEF SyncList, team, RequestsTyped
  <2>2. Shown'
    BY <2>1 DEF Shown, Listed
  <2>3. ASSUME NEW q \in Requests PROVE InTime(q)'
    BY <1>3, <2>1 DEF InTime, Listed
  <2> QED BY <2>2, <2>3 DEF Following
<1>9. CASE SyncSave(r)
  <2>1. /\ UNCHANGED <<late, plan, overtaken, ans>> /\ at[r] = "row"
        /\ at'[r] = "update" /\ saved'[customer] = ans[r]
    BY <1>1, <1>2, <1>5, <1>9 DEF SyncSave, team, StripeTyped
  <2>2. Shown'
    BY <2>1 DEF Shown, Listed
  <2>3. Due => Due'
    BY <1>3, <1>6, <2>1 DEF Due
  <2>4. InTime(r)'
    BY <1>3, <1>4, <1>6, <2>1, <2>3 DEF Following, InTime, Listed
  <2>5. ASSUME NEW q \in Requests \ {r} PROVE InTime(q)'
    BY <2>1 DEF InTime, Listed
  <2> QED BY <2>2, <2>4, <2>5 DEF Following
<1>10. CASE SyncUpdate(r)
  <2>1. /\ UNCHANGED <<ans, saved>> /\ plan' = PlanOf(ans[r]) /\ at[r] = "update" /\ at'[r] = "fill"
        /\ late' = (late \cup {q \in Requests : at[q] \in {"row", "update"}}) \ {r}
        /\ overtaken' = (r \in late)
    BY <1>2, <1>10 DEF SyncUpdate, SyncWrites, WritePlan
  <2>2. Due => Due'
    BY <1>3, <1>6, <2>1 DEF Due
  <2>3. Shown'
    BY <1>3, <1>4, <1>6, <2>1, <2>2 DEF Following, InTime, Shown, Listed
  <2>4. ASSUME NEW q \in Requests PROVE InTime(q)'
    BY <1>6, <2>1 DEF InTime, Listed
  <2> QED BY <2>3, <2>4 DEF Following
<1> QED BY <1>7, <1>8, <1>9, <1>10 DEF SyncSteps

\* The team's customer is made: nothing of Stripe's is known of it.
LEMMA SaveKeepsFollowing ==
    ASSUME Typed, Paying, Following, NEW r \in Requests, PlanStep(r), SaveCustomer(r)
    PROVE  Following'
<1>1. Own(r) /\ PointedAt(r) /\ RequestsTyped
  BY PlanStepTyped, TypesSplit DEF Typed, Pointed
<1>2. /\ UNCHANGED <<stripe, saved, owed, twice, plan, overtaken, late>>
      /\ at[r] = "save" /\ at'[r] = "fill" /\ customer' = who[r]
  BY <1>1 DEF SaveCustomer, stripes, GoesTo, RequestsTyped
<1>3. op[r] = "checkout" /\ who[r] \in Customers
  BY <1>1, <1>2 DEF PointedAt
<1>4. CASE twice
  BY <1>2, <1>4 DEF Following
<1>5. CASE ~twice /\ customer # "none"
  <2>1. UNCHANGED customer
    BY <1>2, <1>3, <1>5 DEF Paying
  <2> QED BY <1>1, <1>2, <2>1, OwnKeepsFollowing DEF SyncPoints, Listed
<1>6. CASE ~twice /\ customer = "none"
  <2>1. \A q \in Requests : op[q] # "sync"
    BY <1>6, SyncsKnowCustomer
  <2>2. \A q \in Requests : at[q] \notin SyncPoints
    BY <2>1 DEF Typed, Pointed, PointedAt, SyncPoints, Listed
  <2>3. \A q \in Requests : at'[q] \notin SyncPoints
    BY <1>1, <1>2, <2>2 DEF Own, SyncPoints, Listed
  <2>4. stripe[who[r]] = "none" /\ saved[who[r]] = "none"
    BY <1>3, <1>6, TeamAssumption DEF Paying
  <2>5. overtaken \/ plan = "FREE"
    BY <1>6 DEF Paying
  <2>6. Shown'
    BY <1>2, <2>4, <2>5 DEF Shown, PlanOf, Entitled
  <2> QED BY <2>3, <2>6 DEF Following, InTime, SyncPoints
<1> QED BY <1>4, <1>5, <1>6

LEMMA PlanStepKeepsFollowing ==
    ASSUME Typed, Paying, Following, NEW r \in Requests, PlanStep(r)
    PROVE  Following'
<1>1. Own(r) /\ PointedAt(r) /\ PointedAt(r)' /\ RequestsTyped
  BY PlanStepTyped, TypesSplit DEF Typed, Pointed
<1>2. \A p : GoesTo(r, p) => at'[r] = p
  BY <1>1 DEF GoesTo, RequestsTyped
<1>3. Ends(r) => at'[r] = "idle"
  BY <1>1 DEF Ends, RequestsTyped
<1>4. CASE CacheSteps(r)
  <2>1. UNCHANGED <<customer, stripe, saved, owed, twice, plan, overtaken, late>>
    BY <1>4 DEF CacheSteps, ReadCache, FillCache, StoreCache, InvalidateCache, team, stripes
  <2>2. at[r] \in {"cache", "fill", "store", "invalidate"}
    BY <1>4 DEF CacheSteps, ReadCache, FillCache, StoreCache, InvalidateCache
  <2>3. at'[r] \in {"fill", "store", "idle", then[r]}
    BY <1>2, <1>3, <1>4 DEF CacheSteps, ReadCache, FillCache, StoreCache, InvalidateCache
  <2> QED BY <1>1, <2>1, <2>2, <2>3, OwnKeepsFollowing DEF PointedAt, SyncPoints, Listed
<1>5. CASE Answer(r)
  BY <1>1, <1>3, <1>5, OwnKeepsFollowing DEF Answer, team, stripes, SyncPoints, Listed
<1>6. CASE CreateCustomer(r) \/ OpenSession(r)
  <2>1. UNCHANGED <<customer, stripe, saved, owed, twice, plan, overtaken, late>> /\ at[r] = "open"
    BY <1>6 DEF CreateCustomer, OpenSession, team, stripes
  <2>2. at'[r] \in {"save", "idle"}
    BY <1>2, <1>3, <1>6 DEF CreateCustomer, OpenSession
  <2> QED BY <1>1, <2>1, <2>2, OwnKeepsFollowing DEF SyncPoints, Listed
<1>7. CASE SaveCustomer(r)
  BY <1>7, SaveKeepsFollowing
<1>8. CASE SyncSteps(r)
  BY <1>8, SyncStepKeepsFollowing
<1> QED BY <1>4, <1>5, <1>6, <1>7, <1>8 DEF PlanStep, PlanSteps, CheckoutSteps

LEMMA MembersKeepFollowing ==
    ASSUME Typed, Following, NEW r \in Requests, MemberAsks(r) \/ MemberSteps(r) \/ MemberStops(r)
    PROVE  Following'
<1>1. at \in [Requests -> Points] /\ PointedAt(r) /\ StripeTyped
  BY TypesSplit DEF Typed, TypeOK, Pointed
<1>2. CASE MemberAsks(r)
  <2>1. at[r] \notin SyncPoints /\ at'[r] \notin SyncPoints
    BY <1>1, <1>2 DEF MemberAsks, AskInvite, AskPassword, AskRole, AskRemove, AskAccept, AskRevoke,
                      Asked, Begins, GoesTo, SyncPoints, Listed
  <2> QED BY <1>2, <2>1, MemberAsksTyped, OwnKeepsFollowing DEF team, stripes
<1>3. CASE MemberSteps(r)
  <2>1. Moved(r)
    BY <1>3, MemberStepsTyped
  <2>2. UNCHANGED <<customer, stripe, saved, owed, twice, plan, overtaken, late>> /\ Own(r)
    BY <2>1 DEF Moved, team, stripes
  <2>3. Leaves(r) => at'[r] = "idle"
    BY LeavesTyped
  <2>4. \A p : GoesTo(r, p) => at'[r] = p
    BY <1>1 DEF GoesTo
  <2>5. at[r] \notin SyncPoints /\ at'[r] \notin SyncPoints
    BY <1>3, <2>3, <2>4
       DEF MemberSteps, CountMembers, CreateInvite, AddMember, PurgeInvites, FindMember, CountAdmins,
           WriteMember, FindInvite, Join, ConsumeInvite, SyncPoints, Listed
  <2> QED BY <2>2, <2>5, OwnKeepsFollowing
<1>4. CASE MemberStops(r)
  <2>1. /\ UNCHANGED <<customer, stripe, saved, twice, plan, overtaken>> /\ late' = late \ {r}
        /\ Own(r) /\ at'[r] = "idle"
    BY <1>4, MemberStopsTyped DEF MemberStops, Stops, Halts
  <2>2. owed' = IF op[r] = "sync" THEN [owed EXCEPT ![who[r]] = @ + 1] ELSE owed
    BY <1>4 DEF MemberStops, Stops
  <2>3. CASE op[r] = "sync"
    <3>1. who[r] \in Customers /\ owed'[who[r]] > 0
      BY <1>1, <2>2, <2>3 DEF PointedAt, StripeTyped
    <3>2. Due'
      BY <3>1 DEF Due
    <3> QED BY <3>2, DueFollows, PTL
  <2>4. CASE op[r] # "sync"
    BY <1>1, <2>1, <2>2, <2>4, OwnKeepsFollowing DEF PointedAt, SyncPoints, Listed
  <2> QED BY <2>3, <2>4
<1> QED BY <1>2, <1>3, <1>4

LEMMA OutsideKeepsFollowing ==
    ASSUME Typed, Following, Outside
    PROVE  Following'
<1>1. UNCHANGED members /\ RequestsTyped /\ StripeTyped
  BY TypesSplit DEF Outside, Typed
<1>2. CASE CacheExpires
  BY <1>2 DEF CacheExpires, request, stripes, Following, Shown, InTime, Due
<1>3. ASSUME NEW c \in Customers, Pays(c) \/ Lapses(c)
      PROVE  Following'
  <2>1. owed'[c] > 0
    BY <1>1, <1>3 DEF Pays, Lapses, Changes, StripeTyped
  <2>2. Due'
    BY <2>1 DEF Due
  <2> QED BY <2>2, DueFollows, PTL
<1>4. ASSUME NEW c \in Customers, NEW r \in Requests, Deliver(r, c)
      PROVE  Following'
  <2>1. at'[r] = "team"
    BY <1>1, <1>4 DEF Deliver, GoesTo, RequestsTyped
  <2>2. Due'
    BY <2>1 DEF Due
  <2> QED BY <2>2, DueFollows, PTL
<1>5. ASSUME NEW r \in Requests, Asks(r)
      PROVE  Following'
  <2>1. Own(r)
    BY <1>1, <1>5, AsksTyped
  <2>2. UNCHANGED <<customer, stripe, saved, owed, late>>
    BY <1>5 DEF Asks, AskLimit, AdminUpdate, AskCheckout, ChecksOut, team, stripes
  <2>3. twice => twice'
    BY <1>5 DEF Asks, AskLimit, AdminUpdate, AskCheckout, ChecksOut, team
  <2>4. UNCHANGED <<plan, overtaken>> \/ overtaken'
    BY <1>5 DEF Asks, AskLimit, AdminUpdate, AskCheckout, ChecksOut, team
  <2>5. at[r] \notin SyncPoints /\ at'[r] \notin SyncPoints
    BY <1>1, <1>5 DEF Asks, AskLimit, AdminUpdate, AskCheckout, ChecksOut, Begins, GoesTo,
                      RequestsTyped, SyncPoints, Listed
  <2> QED BY <2>1, <2>2, <2>3, <2>4, <2>5, OwnKeepsFollowing
<1> QED BY <1>2, <1>3, <1>4, <1>5 DEF Outside, Stripe

LEMMA NextKeepsFollowing == Typed /\ Paying /\ Following /\ [Next]_vars => Following'
<1> SUFFICES ASSUME Typed, Paying, Following, [Next]_vars PROVE Following'
  OBVIOUS
<1>1. ASSUME NEW r \in Requests, PlanStep(r) \/ MemberSteps(r) \/ MemberAsks(r) \/ MemberStops(r)
      PROVE  Following'
  BY <1>1, PlanStepKeepsFollowing, MembersKeepFollowing
<1>2. CASE Outside
  BY <1>2, OutsideKeepsFollowing
<1>3. CASE UNCHANGED vars
  BY <1>3 DEF vars, planVars, request, team, stripes, Following, Shown, InTime, Due
<1> QED BY <1>1, <1>2, <1>3 DEF Next, Outside

\* When Stripe's events are all answered, the row's plan and the subscription are what
\* Stripe has, whatever syncs ran together, stopped and were delivered again, unless the
\* last to write was overtaken, an admin set the plan, or the customer was made twice.
THEOREM RowsFollowStripe == Spec => []RowFollowsStripe
<1>1. Init => Following
  BY DEF Init, PlanInit, Following
<1>2. Typed /\ Paying /\ Following => RowFollowsStripe
  <2>1. SUFFICES ASSUME Typed, Paying, Following, customer # "none", Quiet(customer), ~overtaken, ~twice
                 PROVE  plan = PlanOf(stripe[customer]) /\ saved[customer] = stripe[customer]
    BY DEF RowFollowsStripe
  <2>2. ASSUME NEW r \in Requests PROVE at[r] \notin SyncPoints
    <3>1. op[r] # "sync"
      BY <2>1, SyncsKnowCustomer DEF Quiet
    <3> QED BY <2>1, <3>1 DEF Typed, Pointed, PointedAt, SyncPoints, Listed
  <2>3. ASSUME NEW c \in Customers PROVE ~(owed[c] > 0)
    <3>1. owed[c] > 0 => c = customer
      BY <2>1 DEF Paying
    <3> QED BY <2>1, <3>1 DEF Quiet
  <2>4. ~Due
    BY <2>2, <2>3 DEF Due, SyncPoints
  <2> QED BY <2>1, <2>2, <2>4 DEF Following, Shown, SyncPoints
<1> QED BY <1>1, <1>2, InitPaying, InitTyped, NextTyped, NextKeepsPaying, NextKeepsFollowing, PTL DEF Spec

=============================================================================
