------------------------------ MODULE TeamPlan ------------------------------
(***************************************************************************)
(* The plan of one team: its row, the copy of it in Redis, its customers   *)
(* at Stripe, and the handlers that read and write them: the limit checks  *)
(* of limit-service.ts, TeamService's cache, checkout and syncStripeData   *)
(* of billing/payments.ts, Stripe's webhook and the admin's settings.      *)
(* TeamMembers composes it with the team's members.                        *)
(*                                                                         *)
(* The plan stands for getActivePlan of the row (plan if isActive, else    *)
(* FREE), which is all that is read of the two fields.  One action per     *)
(* await on the database, Redis or Stripe.  A handler that refreshes or    *)
(* reads the cache continues at then[r].                                   *)
(***************************************************************************)
EXTENDS Integers, FiniteSets

CONSTANTS
    Requests,       \* handlers in flight
    Customers,      \* customers Stripe may create
    Mixes,          \* the sets of kinds of requests that come together in a behaviour
    MaxAsks,        \* bound: requests ever made
    MaxChanges,     \* bound: changes of a subscription at Stripe
    MaxStops        \* bound: handlers that stop

VARIABLES
    mix,        \* the kinds of requests of this behaviour
    op,         \* what each request is
    at,         \* where it is
    then,       \* where it goes once it has the cached team, or has refreshed it
    hand,       \* the plan it read, from the cache or the row
    who,        \* the customer it works on
    ans,        \* syncStripeData: the status Stripe listed
    plan,       \* the active plan of the row
    customer,   \* its stripeCustomerId
    cache,      \* the active plan of the cached team, "none" when there is none
    stripe,     \* status of each customer's newest subscription
    saved,      \* the status in its row of Subscription
    checkout,   \* customers with an open checkout session
    owed,       \* Stripe's events per customer that were not answered 200
    asks, changes, stops,   \* counts for the bounds
    older,      \* history: requests that read the row before its last change
    lag,        \* history: the cached plan was stored by one of those
    lost,       \* history: the last change was not followed by its refresh
    late,       \* history: syncs that listed before another one wrote
    overtaken,  \* history: the row was last written by one of those, or by hand
    twice       \* history: a checkout began while another had the customer to make

request == <<mix, op, at, then, hand, who, ans>>
team == <<plan, customer, cache, older, lag, lost, overtaken, late, twice>>
stripes == <<stripe, checkout, owed, changes>>
planVars == <<request, team, stripes, saved, asks, stops>>

Entitled == {"active", "past_due"}
Status == Entitled \cup {"none", "canceled"}

\* The active plan of a row that a subscription with this status wrote; its price is
\* that of BASIC.
PlanOf(status) == IF status \in Entitled THEN "BASIC" ELSE "FREE"

Plans == {"FREE", "BASIC"}

\* A team no one pays for yet: it is FREE, or an admin gave it a plan.
PlanInit ==
    /\ mix \in Mixes
    /\ op = [r \in Requests |-> "none"]
    /\ at = [r \in Requests |-> "idle"]
    /\ then = [r \in Requests |-> "idle"]
    /\ hand = [r \in Requests |-> "none"]
    /\ who = [r \in Requests |-> "none"]
    /\ ans = [r \in Requests |-> "none"]
    /\ plan \in Plans /\ customer = "none" /\ cache = "none"
    /\ stripe = [c \in Customers |-> "none"]
    /\ saved = [c \in Customers |-> "none"]
    /\ checkout = {} /\ owed = [c \in Customers |-> 0]
    /\ asks = 0 /\ changes = 0 /\ stops = 0
    /\ older = {} /\ lag = FALSE /\ lost = FALSE
    /\ late = {} /\ overtaken = (plan = "BASIC") /\ twice = FALSE

GoesTo(r, point) == at' = [at EXCEPT ![r] = point]

\* A request of kind o begins at a point.
Begins(r, o, point) ==
    /\ at[r] = "idle" /\ o \in mix /\ asks < MaxAsks
    /\ asks' = asks + 1
    /\ op' = [op EXCEPT ![r] = o]
    /\ GoesTo(r, point)
    /\ UNCHANGED mix

\* A request is answered: its slot is free for the next.
Ends(r) ==
    /\ op' = [op EXCEPT ![r] = "none"]
    /\ at' = [at EXCEPT ![r] = "idle"]
    /\ then' = [then EXCEPT ![r] = "idle"]
    /\ hand' = [hand EXCEPT ![r] = "none"]
    /\ who' = [who EXCEPT ![r] = "none"]
    /\ ans' = [ans EXCEPT ![r] = "none"]
    /\ UNCHANGED mix

-----------------------------------------------------------------------------
(***************************************************************************)
(* The cached team.                                                        *)
(***************************************************************************)

\* getTeamCached: redis.get, a hit or a miss.
ReadCache(r) ==
    /\ at[r] = "cache"
    /\ hand' = [hand EXCEPT ![r] = cache]
    /\ GoesTo(r, IF cache = "none" THEN "fill" ELSE then[r])
    /\ UNCHANGED <<mix, op, then, who, ans, team, stripes, saved, asks, stops>>

\* refreshTeamCache: team.findUnique.
FillCache(r) ==
    /\ at[r] = "fill"
    /\ hand' = [hand EXCEPT ![r] = plan]
    /\ GoesTo(r, "store")
    /\ UNCHANGED <<mix, op, then, who, ans, team, stripes, saved, asks, stops>>

\* refreshTeamCache: redis.setex of what was read.
StoreCache(r) ==
    /\ at[r] = "store"
    /\ cache' = hand[r]
    /\ lag' = (r \in older)
    /\ lost' = (lost /\ r \in older)
    /\ older' = older \ {r}
    /\ GoesTo(r, then[r])
    /\ UNCHANGED <<mix, op, then, hand, who, ans, plan, customer, overtaken, late, twice,
                   stripes, saved, asks, stops>>

\* invalidateTeamCache: redis.del.
InvalidateCache(r) ==
    /\ at[r] = "invalidate"
    /\ cache' = "none" /\ lag' = FALSE /\ lost' = FALSE
    /\ Ends(r)
    /\ UNCHANGED <<plan, customer, older, overtaken, late, twice,
                   stripes, saved, asks, stops>>

\* The entry's 120 s are over.
CacheExpires ==
    /\ cache # "none"
    /\ cache' = "none" /\ lag' = FALSE /\ lost' = FALSE
    /\ UNCHANGED <<request, plan, customer, older, overtaken, late, twice,
                   stripes, saved, asks, stops>>

\* The row's active plan is written, by hand or by a sync.
WritePlan(p) ==
    /\ plan' = p
    /\ older' = older \cup {q \in Requests : at[q] = "store"}
    /\ UNCHANGED <<cache, lag, lost>>

-----------------------------------------------------------------------------
(***************************************************************************)
(* The handlers.                                                           *)
(***************************************************************************)

\* A check of a limit: checkDomainLimit, checkContactBookLimit and the like.
AskLimit(r) ==
    /\ Begins(r, "limit", "cache")
    /\ then' = [then EXCEPT ![r] = "answer"]
    /\ UNCHANGED <<hand, who, ans, team, stripes, saved, stops>>

Answer(r) ==
    /\ at[r] = "answer"
    /\ Ends(r)
    /\ UNCHANGED <<team, stripes, saved, asks, stops>>

\* updateTeamSettings: team.update, then the cache is invalidated.  FREE leaves
\* isActive as it is, BASIC sets it: the active plan is what was asked for.
AdminUpdate(r) ==
    /\ Begins(r, "admin", "invalidate")
    /\ \E p \in Plans : WritePlan(p)
    /\ overtaken' = TRUE
    /\ UNCHANGED <<then, hand, who, ans, customer, late, twice,
                   stripes, saved, stops>>

\* A checkout begins with a customer to bill, "none" for one to be made.
ChecksOut(r, c) ==
    /\ Begins(r, "checkout", "open")
    /\ plan = "FREE"
    /\ who' = [who EXCEPT ![r] = c]
    /\ twice' = (twice \/ (customer = "none" /\ \E q \in Requests : op[q] = "checkout"))
    /\ UNCHANGED <<then, hand, ans, plan, customer, cache, older, lag, lost, overtaken, late,
                   stripes, saved, stops>>

\* Mutant: each checkout makes a customer.
AskCheckoutAnew(r) == ChecksOut(r, "none")

\* createCheckoutSessionForTeam: team.findUnique and its checks.
AskCheckout(r) == ChecksOut(r, customer)

\* createCustomerForTeam: Stripe makes a customer no one has seen.
CreateCustomer(r) ==
    /\ at[r] = "open" /\ who[r] = "none"
    /\ \E c \in Customers :
          /\ c \notin {who[q] : q \in Requests} \cup {customer} \cup checkout
          /\ stripe[c] = "none"
          /\ who' = [who EXCEPT ![r] = c]
    /\ GoesTo(r, "save")
    /\ UNCHANGED <<mix, op, then, hand, ans, team, stripes, saved, asks, stops>>

\* Its updateTeam: the id is written whatever the row has now.
SaveCustomer(r) ==
    /\ at[r] = "save"
    /\ customer' = who[r]
    /\ then' = [then EXCEPT ![r] = "open"]
    /\ GoesTo(r, "fill")
    /\ UNCHANGED <<mix, op, hand, who, ans, plan, cache, older, lag, lost, overtaken, late, twice,
                   stripes, saved, asks, stops>>

\* checkout.sessions.create.
OpenSession(r) ==
    /\ at[r] = "open" /\ who[r] # "none"
    /\ checkout' = checkout \cup {who[r]}
    /\ Ends(r)
    /\ UNCHANGED <<team, stripe, owed, changes, saved, asks, stops>>

-----------------------------------------------------------------------------
(***************************************************************************)
(* Stripe: a subscription changes, an event is owed; an event that is not  *)
(* answered with 200 is delivered again.                                   *)
(***************************************************************************)
Changes(c, status) ==
    /\ changes < MaxChanges
    /\ changes' = changes + 1
    /\ stripe' = [stripe EXCEPT ![c] = status]
    /\ owed' = [owed EXCEPT ![c] = @ + 1]
    /\ UNCHANGED <<request, team, saved, asks, stops>>

Pays(c) ==
    /\ c \in checkout /\ stripe[c] \notin Entitled
    /\ checkout' = checkout \ {c}
    /\ Changes(c, "active")

Lapses(c) ==
    /\ stripe[c] \in Entitled
    /\ \E s \in {"active", "past_due", "canceled"} \ {stripe[c]} : Changes(c, s)
    /\ UNCHANGED checkout

\* The webhook: an event comes in.
Deliver(r, c) ==
    /\ at[r] = "idle" /\ owed[c] > 0
    /\ owed' = [owed EXCEPT ![c] = @ - 1]
    /\ UNCHANGED mix
    /\ op' = [op EXCEPT ![r] = "sync"]
    /\ who' = [who EXCEPT ![r] = c]
    /\ GoesTo(r, "team")
    /\ UNCHANGED <<then, hand, ans, team, stripe, checkout, changes, saved,
                   asks, stops>>

\* syncStripeData: team.findUnique by the customer.  No team is no error.
SyncReadTeam(r) ==
    /\ at[r] = "team"
    /\ \/ /\ customer = who[r]
          /\ GoesTo(r, "list")
          /\ UNCHANGED <<mix, op, then, hand, who, ans>>
       \/ customer # who[r] /\ Ends(r)
    /\ UNCHANGED <<team, stripes, saved, asks, stops>>

\* subscriptions.list: the newest one.
SyncList(r) ==
    /\ at[r] = "list"
    /\ ans' = [ans EXCEPT ![r] = stripe[who[r]]]
    /\ GoesTo(r, "row")
    /\ UNCHANGED <<mix, op, then, hand, who, team, stripes, saved, asks, stops>>

\* subscription.upsert.
SyncSave(r) ==
    /\ at[r] = "row"
    /\ saved' = [saved EXCEPT ![who[r]] = ans[r]]
    /\ GoesTo(r, "update")
    /\ UNCHANGED <<mix, op, then, hand, who, ans, team, stripes, asks, stops>>

\* The row takes the plan that was listed; the others that listed are late.
SyncWrites(r) ==
    /\ at[r] = "update"
    /\ WritePlan(PlanOf(ans[r]))
    /\ late' = (late \cup {q \in Requests : at[q] \in {"row", "update"}}) \ {r}
    /\ overtaken' = (r \in late)
    /\ then' = [then EXCEPT ![r] = "answer"]
    /\ UNCHANGED <<mix, op, hand, who, ans, customer, twice, stripes, saved, asks, stops>>

\* Mutant: the cache is left to itself.
SyncUpdateOnly(r) == SyncWrites(r) /\ GoesTo(r, "answer")

\* updateTeam: team.update, then the refresh.  Then the confirmation is mailed.
SyncUpdate(r) == SyncWrites(r) /\ GoesTo(r, "fill")

-----------------------------------------------------------------------------
\* Requests that wrote the plan and have the cache to refresh or to drop.
Refreshing(r) ==
    \/ at[r] = "invalidate" /\ op[r] = "admin"
    \/ at[r] = "fill" /\ op[r] = "sync"
    \/ at[r] = "store" /\ op[r] = "sync" /\ r \notin older

\* A handler dies or an await of it rejects, the events owed being these.
Halts(r) ==
    /\ stops < MaxStops
    /\ at[r] # "idle"
    /\ stops' = stops + 1
    /\ lost' = (lost \/ Refreshing(r))
    /\ older' = older \ {r} /\ late' = late \ {r}
    /\ Ends(r)
    /\ UNCHANGED <<plan, customer, cache, lag, overtaken, twice, stripe, checkout, changes,
                   saved, asks>>

\* Mutant: Stripe's webhook answers 200 whatever happens.
StopsAnswered(r) == Halts(r) /\ UNCHANGED owed

\* An event whose sync failed is answered 400: it is owed again.
Stops(r) ==
    /\ Halts(r)
    /\ owed' = IF op[r] = "sync" THEN [owed EXCEPT ![who[r]] = @ + 1] ELSE owed

CacheSteps(r) == ReadCache(r) \/ FillCache(r) \/ StoreCache(r) \/ InvalidateCache(r)
Asks(r) == AskLimit(r) \/ AdminUpdate(r) \/ AskCheckout(r)
CheckoutSteps(r) == CreateCustomer(r) \/ SaveCustomer(r) \/ OpenSession(r)
SyncSteps(r) ==
    SyncReadTeam(r) \/ SyncList(r) \/ SyncSave(r) \/ SyncUpdate(r)
PlanSteps(r) == CacheSteps(r) \/ Answer(r) \/ CheckoutSteps(r) \/ SyncSteps(r)
Stripe == \E c \in Customers : Pays(c) \/ Lapses(c) \/ \E r \in Requests : Deliver(r, c)

-----------------------------------------------------------------------------
PlanPoints == {"idle", "cache", "fill", "store", "invalidate", "answer", "open", "save",
               "team", "list", "row", "update"}

\* The plan's part of the type invariant.
PlanTypeOK ==
    /\ mix \in Mixes
    /\ hand \in [Requests -> Plans \cup {"none"}]
    /\ who \in [Requests -> Customers \cup {"none"}]
    /\ ans \in [Requests -> Status]
    /\ plan \in Plans /\ cache \in Plans \cup {"none"}
    /\ customer \in Customers \cup {"none"}
    /\ stripe \in [Customers -> Status] /\ saved \in [Customers -> Status]
    /\ checkout \in SUBSET Customers
    /\ owed \in [Customers -> Nat]
    /\ asks \in Nat /\ changes \in Nat /\ stops \in Nat
    /\ older \in SUBSET Requests /\ late \in SUBSET Requests
    /\ lag \in BOOLEAN /\ lost \in BOOLEAN /\ overtaken \in BOOLEAN /\ twice \in BOOLEAN

\* A cached plan that is not the row's has a cause: the request that wrote the row is
\* still to refresh the cache, it stopped before it could, or a reader of the old row
\* stored what it had read after the refresh (refreshTeamCache reads, then stores).
CacheHasReason ==
    cache \notin {"none", plan} => lag \/ lost \/ \E r \in Requests : Refreshing(r)

\* Nothing of Stripe's is on its way to the row.
Quiet(c) ==
    /\ owed[c] = 0
    /\ \A r \in Requests : ~(op[r] = "sync" /\ who[r] = c)

\* Once every event is answered, the row and the subscription show what Stripe has,
\* unless the last sync to write the row had listed before another one wrote it
\* (Stripe's events come together and in no order), an admin set the plan, or the
\* customer's id was twice.
RowFollowsStripe ==
    customer # "none" /\ Quiet(customer) /\ ~overtaken /\ ~twice
        => plan = PlanOf(stripe[customer]) /\ saved[customer] = stripe[customer]

\* Who pays is the team's customer, or its events find no team and are answered 200;
\* only two checkouts at once, each with a customer of its own, make another one.
PayerIsKnown ==
    \A c \in Customers : stripe[c] \in Entitled /\ c # customer => twice

=============================================================================
