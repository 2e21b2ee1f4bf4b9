-------------------------- MODULE ShopifyMarketing --------------------------
(***************************************************************************)
(* RioReply's marketing for one Shopify store: the consent that travels    *)
(* from Shopify to customers and visitor profiles (shopify-sync-service,   *)
(* shopify-visitor-service, shopify-tracking-service, customers/redact),   *)
(* and the runs of the engine that read it and schedule campaigns          *)
(* (shopify-marketing-engine, shopify-product-interest-service,            *)
(* shopify-marketing-send-service).  Shopify's webhooks and the sync get   *)
(* their client from ShopifyTokens first.                                  *)
(*                                                                         *)
(* A customer stands for the row and its address; a storefront event       *)
(* carries the customer's own address.  Views, purchases, stock and        *)
(* suppression are read as anything at all.  The autopilot's contact book  *)
(* exists; what its campaigns send is CampaignBatch.  Runs of a store with *)
(* the autopilot off only record why they sent nothing: they are left out. *)
(***************************************************************************)
EXTENDS ShopifyTokens

CONSTANTS
    Visitors,       \* visitor ids of the storefront's cookie
    Products,
    Customers,
    MaxPerWeek,     \* maxEmailsPerVisitorWeek
    MaxMails        \* bound: campaigns ever scheduled

\* Ids are not null, nor confused with the marks of what a handler holds.
ASSUME MarketingAssumption ==
    /\ "none" \notin Customers /\ "mail" \notin Visitors \cup Customers
    /\ MaxPerWeek \in Nat /\ MaxMails \in Nat

VARIABLES
    customer,   \* consent in each customer's row, "none" when there is none
    profile,    \* each visitor's customer and consent; NoProfile stands for no row too
    subs,       \* customers subscribed in the autopilot's contact book
    actions,    \* RioReplyAction rows with status SENT of the last week
    cooling,    \* and those within cooldownHours
    hand,       \* what each handler read or was sent
    todo,       \* per run of the engine: viewed products still to read about
    cands,      \* candidates the rules let through, with the recipient
    late,       \* history: handlers whose copy was overtaken by another's write
    stale,      \* history: visitors whose consent was written from such a copy,
                \* from another customer, or not written when the customer's was
    moved,      \* history: visitors whose profile changed since a run read it
    mails,      \* history: campaigns scheduled for an interest, in a cooldown
    weekly,     \* history: and for a visitor, in a week
    scheduled,  \* count for the bound
    crowded,    \* history: visitors with two candidates in one run
    torn        \* history: visitors mailed without a SENT row that a later reader saw

consents == <<customer, profile, late, stale>>
engine == <<todo, cands, moved>>
sent == <<subs, actions, cooling, mails, weekly, scheduled, crowded, torn>>
ownVars == <<consents, engine, sent, hand>>
vars == <<tokenVars, ownVars>>

Interests == Visitors \X Products
NoProfile == [link |-> "none", consent |-> "null"]
Nothing == [of |-> "none"]

\* Nothing is known yet or, to be evaluated, customers and their visits.
Init ==
    /\ TokenInit
    /\ \/ /\ customer = [c \in Customers |-> "none"]
          /\ profile = [v \in Visitors |-> NoProfile]
       \/ /\ "evaluate" \in mix
          /\ customer \in [Customers -> {"none", "yes"}]
          /\ \E f \in [Visitors -> Customers] :
                profile = [v \in Visitors |-> [link |-> f[v],
                             consent |-> IF customer[f[v]] = "none" THEN "null" ELSE "yes"]]
    /\ subs = {}
    /\ actions = {} /\ cooling = {}
    /\ hand = [h \in Handlers |-> Nothing]
    /\ todo = [h \in Handlers |-> {}] /\ cands = [h \in Handlers |-> {}]
    /\ late = {} /\ stale = {} /\ moved = {}
    /\ mails = [i \in Interests |-> 0] /\ weekly = [v \in Visitors |-> 0]
    /\ scheduled = 0 /\ crowded = {} /\ torn = {}

Linked(c) == {v \in Visitors : profile[v].link = c}
Takes(h, x) == hand' = [hand EXCEPT ![h] = x]

\* A handler stays in flight while it moves to a point.
Moves(h, point) == GoesTo(h, point) /\ UNCHANGED <<mix, goal, copy>>
Quit(h) == End({h}) /\ Takes(h, Nothing) /\ late' = late \ {h}
Counts == <<store, issued, lock, asks, faults, crossed>>
Free == <<store, issued, lock, faults, crossed>>

\* A row of customers changed: copies of it are late, and so is what they write.
HoldsCustomer(g, c) ==
    \/ at[g] = "upsert" /\ hand[g].id = c
    \/ at[g] = "spread" /\ hand[g].of = c
\* Profiles changed: so are the copies of handlers of events and of the engine.
HoldsProfile(g, V) == at[g] \in {"lookup", "upsert"} /\ hand[g].of \in V
Reading(V) == {m \in Handlers \X V : at[m[1]] \in {"build", "judge", "contact", "campaign", "record"}}

-----------------------------------------------------------------------------
(***************************************************************************)
(* Customers: Shopify's webhooks, the sync and the redaction.              *)
(***************************************************************************)

\* handleWebhookTopic of customers/create and customers/update.
CustomerWebhook(h) ==
    /\ Begins(h, "customer", "client", "customer")
    /\ \E c \in Customers, b \in {"yes", "no"} : Takes(h, [of |-> c, consent |-> b])
    /\ active
    /\ UNCHANGED <<Free, consents, engine, sent>>

\* A row is written: the profiles of the customer do not follow by themselves.
WriteCustomer(h, c, b) ==
    /\ customer' = [customer EXCEPT ![c] = b]
    /\ late' = late \cup IF b = customer[c] THEN {}
                         ELSE {g \in Handlers \ {h} : HoldsCustomer(g, c)}

\* upsertCustomer: shopifyCustomer.upsert.
UpsertCustomer(h) ==
    /\ at[h] = "customer"
    /\ WriteCustomer(h, hand[h].of, hand[h].consent)
    /\ Moves(h, "find")
    /\ UNCHANGED <<Counts, hand, profile, stale, engine, sent>>

\* syncConsentFromCustomer: shopifyCustomer.findUnique.
FindCustomer(h) ==
    /\ at[h] = "find"
    /\ LET b == customer[hand[h].of] IN
       \/ b = "none" /\ Quit(h)
       \/ /\ b # "none"
          /\ hand' = [hand EXCEPT ![h].consent = b]
          /\ Moves(h, "spread") /\ UNCHANGED late
    /\ UNCHANGED <<Counts, customer, profile, stale, engine, sent>>

\* Mutant: the profiles do not follow the customer.
SpreadNothing(h) ==
    /\ at[h] = "spread"
    /\ stale' = IF h \in late THEN stale \cup Linked(hand[h].of) ELSE stale \ Linked(hand[h].of)
    /\ Quit(h)
    /\ UNCHANGED <<Counts, customer, profile, engine, sent>>

\* syncConsentFromCustomer: shopifyVisitorProfile.updateMany.
Spread(h) ==
    /\ at[h] = "spread"
    /\ LET V == Linked(hand[h].of)
           changed == {v \in V : profile[v].consent # hand[h].consent}
       IN /\ profile' = [v \in Visitors |-> IF v \in V
                            THEN [profile[v] EXCEPT !.consent = hand[h].consent] ELSE profile[v]]
          /\ stale' = IF h \in late THEN stale \cup V ELSE stale \ V
          /\ late' = (late \ {h}) \cup {g \in Handlers : HoldsProfile(g, changed)}
          /\ moved' = moved \cup Reading(changed)
    /\ End({h}) /\ Takes(h, Nothing)
    /\ UNCHANGED <<Counts, customer, todo, cands, sent>>

\* syncAll, orders/create and orders/updated: each writes customers that Shopify sends.
SyncCustomers(h) ==
    /\ Begins(h, "sync", "client", "rows")
    /\ active
    /\ UNCHANGED <<Free, consents, engine, sent, hand>>

\* syncCustomers and upsertOrder: shopifyCustomer.upsert of one of them, without
\* syncConsentFromCustomer.
SyncRow(h) ==
    /\ at[h] = "rows"
    /\ \E c \in Customers, b \in {"yes", "no"} :
          /\ WriteCustomer(h, c, b)
          /\ stale' = IF b = customer[c] THEN stale ELSE stale \cup Linked(c)
    /\ \/ Moves(h, "rows")
       \/ End({h})
    /\ UNCHANGED <<Counts, hand, profile, engine, sent>>

\* redactCustomerData of customers/redact, in its order: the customer's row ...
Redact(h) ==
    /\ Begins(h, "redact", "redact", "idle")
    /\ \E c \in Customers : Takes(h, [of |-> c])
    /\ UNCHANGED <<Free, consents, engine, sent>>

RedactCustomer(h) ==
    /\ at[h] = "redact"
    /\ WriteCustomer(h, hand[h].of, "none")
    /\ Moves(h, "unlink")
    /\ UNCHANGED <<Counts, hand, profile, stale, engine, sent>>

\* ... the profiles linked to it ...
RedactProfiles(h) ==
    /\ at[h] = "unlink"
    /\ LET V == Linked(hand[h].of) IN
       /\ profile' = [v \in Visitors |-> IF v \in V THEN NoProfile ELSE profile[v]]
       /\ stale' = stale \ V
       /\ late' = late \cup {g \in Handlers : HoldsProfile(g, V)}
       /\ moved' = moved \cup Reading(V)
    /\ Moves(h, "forget")
    /\ UNCHANGED <<Counts, customer, hand, todo, cands, sent>>

\* ... and the actions with its address; the contact stays in the book.
RedactActions(h) ==
    /\ at[h] = "forget"
    /\ LET gone == {x \in actions \cup cooling : x.to = hand[h].of} IN
       /\ actions' = actions \ gone
       /\ cooling' = cooling \ gone
       /\ torn' = torn \cup {x.visitor : x \in gone}
    /\ Quit(h)
    /\ UNCHANGED <<Counts, customer, profile, stale, engine, subs, mails, weekly, scheduled, crowded>>

-----------------------------------------------------------------------------
(***************************************************************************)
(* Visitors: upsertFromEvent.                                              *)
(***************************************************************************)

\* recordEvent, with the customer's id when the visitor is logged in.
Event(h) ==
    /\ Begins(h, "event", "profile", "idle")
    /\ active
    /\ \E v \in Visitors, c \in Customers \cup {"none"} : Takes(h, [of |-> v, id |-> c])
    /\ UNCHANGED <<Free, consents, engine, sent>>

\* shopifyVisitorProfile.findUnique.
ReadProfile(h) ==
    /\ at[h] = "profile"
    /\ LET old == profile[hand[h].of] IN
       Takes(h, [of |-> hand[h].of, id |-> hand[h].id, link |-> old.link,
                 consent |-> old.consent, own |-> TRUE])
    /\ Moves(h, IF hand[h].id = "none" THEN "upsert" ELSE "lookup")
    /\ UNCHANGED <<Counts, consents, engine, sent>>

\* shopifyCustomer.findUnique: its consent if it has a row, else what the profile had.
LookUpCustomer(h) ==
    /\ at[h] = "lookup"
    /\ LET b == customer[hand[h].id] IN
       hand' = [hand EXCEPT ![h].consent = IF b = "none" THEN @ ELSE b,
                            ![h].own = b # "none" \/ hand[h].consent = "null"]
    /\ Moves(h, "upsert")
    /\ UNCHANGED <<Counts, consents, engine, sent>>

\* shopifyVisitorProfile.upsert: what is null or undefined is not written.
UpsertProfile(h) ==
    /\ at[h] = "upsert"
    /\ LET v == hand[h].of
           old == profile[v]
           link == IF hand[h].id # "none" THEN hand[h].id
                   ELSE IF hand[h].link # "none" THEN hand[h].link ELSE old.link
           consent == IF hand[h].consent = "null" THEN old.consent ELSE hand[h].consent
           new == [link |-> link, consent |-> consent]
       IN /\ profile' = [profile EXCEPT ![v] = new]
          /\ stale' = IF h \in late \/ ~hand[h].own THEN stale \cup {v}
                      ELSE IF hand[h].id = "none" THEN stale ELSE stale \ {v}
          /\ late' = (late \ {h}) \cup
                     IF new = old THEN {} ELSE {g \in Handlers \ {h} : HoldsProfile(g, {v})}
          /\ moved' = moved \cup IF new = old THEN {} ELSE Reading({v})
    /\ End({h}) /\ Takes(h, Nothing)
    /\ UNCHANGED <<Counts, customer, todo, cands, sent>>

-----------------------------------------------------------------------------
(***************************************************************************)
(* The engine: evaluateStore, from the tick or runMarketingNow.            *)
(***************************************************************************)

\* findCandidates groups the product views.
Evaluate(h) ==
    /\ Begins(h, "evaluate", "build", "idle")
    /\ active
    /\ \E I \in SUBSET Interests : I # {} /\ todo' = [todo EXCEPT ![h] = I]
    /\ UNCHANGED <<Free, consents, cands, moved, sent, hand>>

Of(h) == {x[1] : x \in cands[h]} \cup IF hand[h].of = "mail" THEN {hand[h].visitor} ELSE {}

\* rioReplyAction.count, by the visitor.
OfWeek(v) == {x \in actions : x.visitor = v}

\* Mutant: a visitor whose consent is not known is let through.
AllowUnknown(v, p) ==
    /\ profile[v].link # "none" /\ profile[v].consent # "no"
    /\ Cardinality(OfWeek(v)) < MaxPerWeek
    /\ ~\E x \in cooling : x.visitor = v /\ x.product = p

\* Mutant: the week's limit is off by one.
AllowOneMore(v, p) ==
    /\ profile[v].link # "none" /\ profile[v].consent = "yes"
    /\ Cardinality(OfWeek(v)) <= MaxPerWeek
    /\ ~\E x \in cooling : x.visitor = v /\ x.product = p

\* evaluateMarketingRules on what buildCandidate read.
Allowed(v, p) ==
    /\ profile[v].link # "none" /\ profile[v].consent = "yes"
    /\ Cardinality(OfWeek(v)) < MaxPerWeek
    /\ ~\E x \in cooling : x.visitor = v /\ x.product = p

\* buildCandidate, once per product a visitor viewed.  What is not stock, or bought,
\* is skipped as if the rules refused it.
BuildCandidate(h) ==
    /\ at[h] = "build"
    /\ \E i \in todo[h] :
          LET v == i[1] IN
          /\ todo' = [todo EXCEPT ![h] = @ \ {i}]
          /\ \/ /\ Allowed(v, i[2])
                /\ cands' = [cands EXCEPT ![h] = @ \cup {<<v, i[2], profile[v].link>>}]
                /\ crowded' = crowded \cup IF v \in Of(h) THEN {v} ELSE {}
                /\ torn' = torn \cup IF \E g \in Handlers \ {h} : v \in Of(g) THEN {v} ELSE {}
             \/ UNCHANGED <<cands, crowded, torn>>
          /\ Moves(h, IF todo[h] = {i} THEN "judge" ELSE "build")
    /\ UNCHANGED <<Counts, consents, hand, moved, subs, actions, cooling, mails, weekly, scheduled>>

\* processCandidate: the suppression list is read now, the rest is what was read.
Judge(h) ==
    /\ at[h] = "judge"
    /\ \/ /\ cands[h] = {}
          /\ End({h})
          /\ moved' = {m \in moved : m[1] # h}
          /\ UNCHANGED <<cands, hand>>
       \/ \E x \in cands[h] :
             /\ cands' = [cands EXCEPT ![h] = @ \ {x}]
             /\ \/ Takes(h, [of |-> "mail", visitor |-> x[1], product |-> x[2], to |-> x[3],
                              campaign |-> 0])
                   /\ Moves(h, "contact")
                \/ Moves(h, "judge") /\ UNCHANGED hand
             /\ UNCHANGED moved
    /\ UNCHANGED <<Counts, consents, todo, sent>>

\* sendProductInterestEmail: addOrUpdateContact, and subscribed again if that left it
\* unsubscribed; then the domain is checked, which may throw.
SubscribeRecipient(h) ==
    /\ at[h] = "contact"
    /\ subs' = subs \cup {hand[h].to}
    /\ \/ Moves(h, "campaign") /\ UNCHANGED hand
       \/ Moves(h, "judge") /\ Takes(h, Nothing)
    /\ UNCHANGED <<Counts, consents, engine, actions, cooling, mails, weekly, scheduled,
                   crowded, torn>>

\* campaign.create and scheduleCampaign, which throws when no one is subscribed.  The
\* campaign is for one visitor, and mails and weekly count it for that one, but it is
\* sent as any other: to all of subs, the subscribed contacts of the autopilot's book.
ScheduleCampaign(h) ==
    /\ at[h] = "campaign"
    /\ \/ /\ subs # {} /\ scheduled < MaxMails
          /\ scheduled' = scheduled + 1
          /\ mails' = [mails EXCEPT ![<<hand[h].visitor, hand[h].product>>] = @ + 1]
          /\ weekly' = [weekly EXCEPT ![hand[h].visitor] = @ + 1]
          /\ hand' = [hand EXCEPT ![h].campaign = scheduled + 1]
          /\ Moves(h, "record")
       \/ /\ subs = {}
          /\ Moves(h, "judge") /\ Takes(h, Nothing)
          /\ UNCHANGED <<mails, weekly, scheduled>>
    /\ UNCHANGED <<Counts, consents, engine, subs, actions, cooling, crowded, torn>>

\* The row that createAction writes, with the campaign's id.
Row(x) == [visitor |-> x.visitor, product |-> x.product, to |-> x.to, campaign |-> x.campaign]

\* Mutant: the action is recorded without its product.
RecordVisitor(h) ==
    /\ at[h] = "record"
    /\ actions' = actions \cup {Row(hand[h])}
    /\ Moves(h, "judge") /\ Takes(h, Nothing)
    /\ UNCHANGED <<Counts, consents, engine, subs, cooling, mails, weekly, scheduled, crowded, torn>>

\* createAction: rioReplyAction.create with status SENT ...
RecordSent(h) ==
    /\ at[h] = "record"
    /\ actions' = actions \cup {Row(hand[h])}
    /\ cooling' = cooling \cup {Row(hand[h])}
    /\ Moves(h, "judge") /\ Takes(h, Nothing)
    /\ UNCHANGED <<Counts, consents, engine, subs, mails, weekly, scheduled, crowded, torn>>

\* ... or FAILED: the email's row or the profile could not be read or written, but the
\* campaign is scheduled.
RecordFailed(h) ==
    /\ at[h] = "record" /\ faults < MaxFaults
    /\ faults' = faults + 1
    /\ torn' = torn \cup {hand[h].visitor}
    /\ Moves(h, "judge") /\ Takes(h, Nothing)
    /\ UNCHANGED <<store, issued, lock, asks, crossed, consents, engine, subs, actions, cooling,
                   mails, weekly, scheduled, crowded>>

\* A contact unsubscribes from a campaign's link.
Unsubscribe(c) ==
    /\ c \in subs
    /\ subs' = subs \ {c}
    /\ UNCHANGED <<tokenVars, consents, engine, hand, actions, cooling, mails, weekly, scheduled,
                   crowded, torn>>

\* A row gets older than the cooldown, or than a week.
CooldownEnds(x) ==
    /\ cooling' = cooling \ {x}
    /\ mails' = [mails EXCEPT ![<<x.visitor, x.product>>] = @ - 1]
    /\ UNCHANGED <<tokenVars, consents, engine, hand, subs, actions, weekly, scheduled, crowded, torn>>

WeekEnds(x) ==
    /\ actions' = actions \ {x}
    /\ weekly' = [weekly EXCEPT ![x.visitor] = @ - 1]
    /\ UNCHANGED <<tokenVars, consents, engine, hand, subs, cooling, mails, scheduled, crowded, torn>>

-----------------------------------------------------------------------------
\* Handlers that end without having done it all: what they leave.
Left(H) ==
    /\ hand' = [h \in Handlers |-> IF h \in H THEN Nothing ELSE hand[h]]
    /\ todo' = [h \in Handlers |-> IF h \in H THEN {} ELSE todo[h]]
    /\ cands' = [h \in Handlers |-> IF h \in H THEN {} ELSE cands[h]]
    /\ late' = late \ H
    /\ moved' = {m \in moved : m[1] \notin H}
    /\ stale' = stale \cup {v \in Visitors : \E h \in H :
          at[h] \in {"find", "spread", "unlink"} /\ profile[v].link = hand[h].of}
    /\ torn' = torn \cup {hand[h].visitor : h \in {g \in H : at[g] = "record"}}
    /\ UNCHANGED <<customer, profile, subs, actions, cooling, mails, weekly, scheduled, crowded>>

OwnPoints == {"customer", "find", "spread", "rows", "redact", "unlink", "forget",
              "profile", "lookup", "upsert", "build", "judge", "record"}

\* A database call of a handler throws; so does the run when createAction cannot write
\* the SENT row, for its promise is returned and not awaited in the try.
HandlerFails(h) ==
    /\ at[h] \in OwnPoints /\ faults < MaxFaults
    /\ faults' = faults + 1
    /\ End({h}) /\ Left({h})
    /\ UNCHANGED <<store, issued, lock, asks, crossed>>

Asks ==
    \E h \in Handlers :
        CustomerWebhook(h) \/ SyncCustomers(h) \/ Redact(h) \/ Event(h) \/ Evaluate(h)

HandlerStep(h) ==
    \/ UpsertCustomer(h) \/ FindCustomer(h) \/ Spread(h) \/ SyncRow(h)
    \/ RedactCustomer(h) \/ RedactProfiles(h) \/ RedactActions(h)
    \/ ReadProfile(h) \/ LookUpCustomer(h) \/ UpsertProfile(h)
    \/ BuildCandidate(h) \/ Judge(h) \/ SubscribeRecipient(h) \/ ScheduleCampaign(h)
    \/ RecordSent(h)

Ending == {h \in Handlers : at[h] # "idle" /\ at'[h] = "idle"}

\* Steps of ShopifyTokens; whoever they end leaves nothing behind.
TokenStep ==
    /\ \/ Connection
       \/ \E h \in Handlers : ClientStep(h) \/ CallFails(h)
       \/ \E q \in Processes : ProcessStops(q)
    /\ Left(Ending)

OwnStep ==
    \/ Asks
    \/ \E h \in Handlers : HandlerStep(h) \/ RecordFailed(h) \/ HandlerFails(h)
    \/ \E c \in Customers : Unsubscribe(c)
    \/ \E x \in cooling : CooldownEnds(x)
    \/ \E x \in actions : WeekEnds(x)

Next == TokenStep \/ OwnStep

Spec == Init /\ [][Next]_vars

-----------------------------------------------------------------------------
(***************************************************************************)
(* Properties.                                                             *)
(***************************************************************************)

Consent == {"null", "yes", "no"}
Action == [visitor : Visitors, product : Products, to : Customers, campaign : 1..MaxMails]

\* Rows, profiles and actions have their types, and so do the points of the handlers.
TypeOK ==
    /\ at \in [Handlers -> {"idle", "wait", "contact", "campaign"}
                           \cup ClientPoints \cup OwnPoints]
    /\ \A h \in Handlers : at[h] = "wait" => lock[Home(h)] \in Handlers \ {h}
    /\ lock \in [Processes -> Handlers \cup {"free"}]
    /\ token \in 0..MaxIssued /\ issued \in 0..MaxIssued
    /\ customer \in [Customers -> {"none", "yes", "no"}]
    /\ profile \in [Visitors -> [link : Customers \cup {"none"}, consent : Consent]]
    /\ subs \subseteq Customers
    /\ actions \cup cooling \subseteq Action
    /\ cands \in [Handlers -> SUBSET (Visitors \X Products \X Customers)]

Touching(c) == \E h \in Handlers : at[h] \in {"find", "spread", "unlink"} /\ hand[h].of = c

\* The consent of a profile is its customer's, once the webhook or the redaction is
\* through, unless it was written from an overtaken copy or another customer's, or the
\* customer was written by a sync or an order (upsertFromEvent, syncConsentFromCustomer).
ProfileFollowsCustomer ==
    \A v \in Visitors \ stale : \A c \in Customers :
        profile[v].link = c /\ ~Touching(c) =>
            profile[v].consent = IF customer[c] = "none" THEN "null" ELSE customer[c]

\* A campaign is scheduled for a visitor only if the profile consents, or changed after
\* the run read it: a run lasts as long as all its sends (processCandidate).
MailFollowsConsent ==
    [][\A h \in Handlers : at[h] = "campaign" /\ at'[h] = "record" =>
          \/ profile[hand[h].visitor].consent = "yes"
          \/ <<h, hand[h].visitor>> \in moved]_vars

\* One campaign about a product is scheduled for a visitor in a cooldown, unless two runs
\* overlapped or a scheduled one left no SENT action (hasRecentProductAction).  It bounds
\* what is scheduled for the visitor, not what the visitor gets: see ScheduleCampaign.
CooldownHolds == \A i \in Interests : i[1] \notin torn => mails[i] <= 1

\* No more than maxEmailsPerVisitorWeek are scheduled for a visitor in a week, unless one
\* run read two of its products before it sent the first, or as above; again of those
\* scheduled for the visitor, not those it gets (recentMarketingEmailCount).
WeekLimitHolds ==
    \A v \in Visitors : v \notin crowded \cup torn => weekly[v] <= MaxPerWeek

=============================================================================
