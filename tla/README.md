# A TLA+ model of useSend

useSend is an email platform: a Next.js application (`src/apps/web`) with a
public API, a dashboard, a PostgreSQL database (Prisma), Redis and a dozen
BullMQ queues, which sends mail through Amazon SES. This directory holds TLA+
modules for the parts of it in which several handlers, jobs and processes work
on the same rows, configurations that check small instances of them with TLC,
and proofs, checked by TLAPS, that the main safety properties hold for every
value of the parameters.

`service/` below stands for `src/apps/web/src/server/service/`, and `jobs/` for
`src/apps/web/src/server/jobs/`.

## 1. Inventory

Every `await` on the database, Redis, a queue or AWS is a point at which other
handlers and processes run. Each queue is served by slots (the `concurrency` of
its worker, times the processes); a BullMQ job is at-least-once: a slot that
dies or does not renew its job's lock loses the job, which runs again once
(`maxStalledCount` is 1 by default) and then fails.

| Component | State | Operations | Interacts with | What is hard | What makes it correct |
|---|---|---|---|---|---|
| Webhook delivery (`service/webhook-service.ts`, `jobs/webhook-cleanup-job.ts`) | `Webhook` (status, `consecutiveFailures`), `WebhookCall` rows, queue `webhook-dispatch`, Redis lock `webhook:lock:<id>` | create, delete, set status, test, emit, retry, deliver, retention | called by contacts, domains and SES events; POSTs to customers | lock TTL against slow POSTs, slots that lost their job, a circuit breaker updated by several actors, a fixed job id | POSTs of a webhook never overlap; the failure counter is exact; one run per call; DELIVERED is final; jobs end; locks come free |
| Idempotency keys (`service/idempotency-service.ts`) | Redis `idem:` result (24 h) and `idemlock:` (60 s) | one wrapper around a send | send and batch endpoints | read, lock, read, operate, store, release in six steps; release without a token | operations overlap only when one lost its lock; a repeat sends nothing; answers belong to their payload; the lock comes free |
| Campaigns (`service/campaign-service.ts`, `jobs/campaign-scheduler-job.ts`) | `Campaign` (status, `scheduledAt`, `lastCursor`), `CampaignEmail`, `Email`; queue of batches | schedule, pause, resume, delete, tick, batch | contacts, suppression, email queue | a cursor over a book that changes; reruns; status written on an old read; failures in the middle of one contact | one email per contact; SENT is complete; a failure is recorded; RUNNING ends |
| Emails (`service/email-service.ts`, `service/email-queue-service.ts`) | `Email` (status, `scheduledAt`), a delayed job with the email's id per region | send, send in bulk, update, cancel, execute | limits, SES | row and job are written one after the other; cancelling races with sending; SES accepted and the row not yet written | bounded sends; a cancellation holds; not early; accepted emails are settled |
| SES events (`service/ses-hook-parser.ts`, `app/api/ses_callback`) | `Email.latestStatus`, `EmailEvent`, daily, total and campaign counters, suppression, contact | one handler | suppression, contacts, campaigns, webhooks | any order, any number of times, up to 50 at once; ten writes, each of which can fail | highest status wins; what is recorded is counted; bad addresses are dropped |
| Contacts (`service/contact-service.ts`, `service/contact-queue-service.ts`, `service/double-opt-in-service.ts`) | `Contact` (subscribed, reason) | add or update, bulk add, update, delete, confirm, unsubscribe, subscribe | books, campaigns, SES events, webhooks | decisions on a row read before an upsert | who left stays out; only the link, the team or a named window subscribes |
| Contact books, variables | rows | CRUD | contacts | - | - |
| Suppression list | rows per address | add, remove, check (fail-open) | emails, campaigns, SES events | fails open | a suppressed address is not mailed |
| Limits (`service/limit-service.ts`) | the team in Redis (2 min), usage cached 60 s | check a member, domain, book or webhook; check an email | teams, emails | the plan is read from a copy, and counts before the row they allow | a copy that is not the row's has a cause |
| Teams (`service/team-service.ts`, `api/routers/invitiation.ts`) | `Team`, `TeamUser`, `TeamInvite`, the Redis copy | invite, accept, revoke, add with a password, role, remove | every request reads the copy | counts and roles read before the write; a copy filled by an old read; an accept in two writes | an admin stays; an invitation admits one |
| Billing (`server/billing/payments.ts`, `app/api/webhook/stripe`) | customer id and plan of the team, `Subscription` | checkout, Stripe's events, `syncStripeData`, the admin's settings | teams; Stripe | events come together, in any order, again if not answered 200 | plan and subscription are Stripe's; who pays is known |
| Domains (`service/domain-service.ts`, `jobs/domain-verification-job.ts`) | `Domain`, the identity at SES, six Redis keys per row | add, delete, verify, read, hourly check | SES, webhooks, mailer | writes to SES and the database in two steps; job and readers refresh one row; a reservation that can be lost | row and identity go together; mails and events once and right; the row comes to show SES |
| Shopify (`service/shopify-*.ts`) | store and token set, customers, visitor profiles, actions, the autopilot's book | install, disconnect, webhooks, sync, storefront events, runs, customers/redact | contacts, campaigns | token sets of which only the newest works, and a lock per process; consent copied three times; rules read before slow sends, of one visitor for a whole book | newest token in the row; consent is the customer's; cooldown and weekly limit |
| API, routers, auth, SMTP server, SDKs, UI, docs, editor | none of their own | - | - | - | - |

`PROJECT.json` lists the same components with their files and status, and under
`hazards` the places in the code where they can go wrong, each with the property
that would show it.

## 2. Modules

One action stands for what a handler does from one `await` to the next, with all
of its assignments; where the handler is, is part of the state (`pc`, `at`,
`run`, `exec`). Payloads, texts, times and logging are left out. Every constant
that bounds something is commented as a bound. `Faults` selects what may go wrong
in an instance, `Changes` what the surroundings may do. The larger modules have
`Mixes` in their place: sets of kinds of requests, changes and faults, of which
each behaviour draws one (`mix`) in its initial state and never changes it. One
run so covers several combinations without their product, and a property can
say under which of them it holds.

| Module | Models | State ↔ code |
|---|---|---|
| `WebhookDispatch` | webhooks, calls, queue, lock, workers, producers, retention | `hook`, `call`: the rows; `job`: the BullMQ job whose id is the call's; `lock`: the Redis key and whose token it has; `exec[k]`: `processWebhookCall` in slot `k`; `prod[p]`: a request or an `emit` |
| `WebhookLifecycle` | abstract: the status machine of a call | `status`, `attempt` of the rows; `excused`: calls whose job lost its worker, that were retried, or whose final status was committed with its reply lost; `lossy`: writes may fail |
| `Idempotency` | `withIdempotency` for one team and key | `pc`, `body`, `answer` per request; `result`, `lock`: the two Redis keys; `sent`: the emails; `lostBy`: how a request lost its lock |
| `CampaignBatch` | one campaign and its book | `status`, `due`, `cursor`: the row; `rows`, `link`, `queued`, `failed`, `suppressed`: emails per contact; `job`, `run[k]`: the batch and who runs it; `tick`: the scheduler; `asking[r]`: requests between their read and their write |
| `EmailDelivery` | one email | `status`, `at`: the row; `job`: the delayed job, with the delay that is left; `delay`: what the sender computed; `sender`, `client[c]`, `run[k]`: who works on it; `sends`: what SES took |
| `SesHook` | the notifications of one email | `pc[h]`: where notification `h` is; `daily`, `total`, `tally`, `left`: the counters; `rows`: the event rows; `suppressed`, `subscribed` |
| `ContactSubscription` | one address in one book | `status`: "subscribed", "pending" or "left"; `op`, `asked`, `seen`, `of`, `pc` per request; `links`, `mailed`: who may click what |
| `TeamPlan` | one team's plan, its Redis copy and its subscriptions | `plan`, `customer`, `saved`: the rows; `cache`: the copy; `stripe`, `checkout`, `owed`: Stripe's side and the events it still owes; `op`, `at`, `hand`, `ans` per request |
| `TeamMembers` | its members and invitations, on top of `TeamPlan` | `role`, `invites`: the rows; `work`, `seen`: what a request is about and what it read |
| `DomainVerification` | one domain name in one region | `row`; `identity`: what SES has there; `elsewhere`: the name has a row of another region; `keys`, `locks`: Redis; `run[r]`: each request and the job; `told`, `mailed`: what left the system |
| `ShopifyTokens` | one store's token set | `active`, `token`, `due`: the row; `issued`: Shopify's newest; `lock`: `refreshLocks` of each process; `copy`: what a handler holds |
| `ShopifyMarketing` | consent, rules and sends of that store, on top of `ShopifyTokens` | `customer`, `profile`, `actions`: the rows; `subs`: the book, to all of which every campaign goes; `todo`, `cands`: a run of the engine; `hand`: what a handler read |

The models meet where one component calls another. `TeamMembers` and
`ShopifyMarketing` compose two components in one state space: the member limit is
read from the plan's copy, the handlers of Shopify's webhooks first get a client
from the token service. Elsewhere each model states the other's part as an action
of its surroundings: `CampaignBatch` ends at `queueEmail`, whose job is
`EmailDelivery`'s; `EmailDelivery` ends when SES takes the mail, which is where
`SesHook` starts; `SesHook`'s unsubscription is the `"bounce"` of
`ContactSubscription`; the campaign's page of contacts is `CampaignMails` there;
a campaign that Shopify's autopilot schedules is a `ScheduleRead` of
`CampaignBatch`; the outcome of `checkEmailLimit` is a choice in `EmailDelivery`.
`WebhookDispatch` implements `WebhookLifecycle` (`Lifecycle` is the mapping).

External code is modelled from its use: BullMQ (a job with an id that exists is
not added again, a failed job is kept, stalled jobs), Redis (`SET NX EX`), Prisma
(an upsert of one unique key is one step; a cursor whose row is gone yields
nothing; `skip: 1` skips the first match, which is the cursor's row only if that
still matches), Stripe (an event that was not answered 200 comes again, in any
order), SES identities, Shopify (an exchange gives a new token set, of which only
the newest is kept).

Abstractions a reader should know:

- **WebhookDispatch**: a POST takes at most 10 s and the lock lives 15 s, so the
  key of a run that is at its POST does not expire; all other delays are free.
  `EmitRead` chooses the webhooks that match; which event types match is data.
  A write of a run may fail (`DbFails`), or be committed and its reply lost
  (`ReplyLost`); the same of the key (`LockFails`).
- **Idempotency**: the lock can expire under its holder only with `"slow"` in
  `KeyFaults`, an operation of more than 60 s, against which the code has no bound.
  A SET or DEL whose reply is lost may be sent again when the client reconnects.
- **CampaignBatch**: `batchWindowMinutes` is never set by the code, so the tick's
  window is 0; `sendCampaign` has no caller; the counters `total` and `sent` are
  not modelled. `resumeCampaign` accepts a DRAFT, as in the code.
- **EmailDelivery**: `"SENT"` stands for whatever SES reports. Two properties
  name what excuses them in a history variable: `missed` (an update could not
  move the job, or two crossed) and `stranded` (a failure that the code leaves
  without a status).
- **SesHook**: the rank of a status is its position in the database's enum, from
  the migrations (`20250425130849_update_email_status/migration.sql:4` and the
  one that adds SUPPRESSED).
- **ContactSubscription**: the reasons of a refusal are one status, "left";
  a stalled bulk job is another add; deleting a contact forgets its refusal, as
  in the code. Changes of the address itself and the deletion of a whole book
  are not modelled.
- **TeamPlan**: a plan stands for `getActivePlan` of the row; `isBlocked` and
  `dailyEmailLimit`, which travel in the same copy, are not followed. A customer's
  subscriptions are its newest. **TeamMembers**: a user and the address of an
  invitation are one value.
- **DomainVerification**: `Unsettled` is what SES may say besides SUCCESS and
  FAILED. Other regions are one boolean, whether one of them has a row of the name,
  which its requests set and clear; their identities are their own. DNS records and
  tracking are left out; keys of a row that is gone are never read again.
- **ShopifyTokens**: an older refresh token may be refused or answered, as
  Shopify may do either. The second swap of `withClient`, after an error that
  names non-expiring tokens, is not followed.
- **ShopifyMarketing**: a customer stands for its row and its address; views,
  purchases, stock and suppression are read as anything at all; the autopilot's
  book exists; a storefront event carries the customer's own address.

History variables (`stale`, `shaky`, `overtaken`, `broken` and their like, marked
"history" where they are declared) change nothing in the code's state. They record
the window in which a guarantee is lost, so that the property says that there is
no other one.

The `MC` modules extend the models for TLC. Requests, clients and hooks are
interchangeable and declared symmetric in runs without liveness; contacts and
calls are not, their order matters.

## 3. Runs

| Run | Instance | What it shows |
|---|---|---|
| `WebhookFaults` | 1 webhook, 2 slots, 1 producer, 2 attempts, threshold 2, 1 manual retry; 1 call with crashes, lost job locks, the retry, database and Redis errors and status changes, several of these at once, or 2 calls with Redis errors | `PostMutex`, `ActiveCountExact`, `OneRunPerCall`, `JobEnds`, and the refinement `ImplementsLifecycle`: final statuses stay, FAILED comes after the last attempt, whatever fails but the reply to the commit itself |
| `WebhookRetry` | 1 call, 6 attempts, 1 manual retry | refutes `RetryIsQueued` |
| `IdempotencyFaults` | 3 requests, 2 payloads, crashes, Redis errors, slow operations | `OneOperation`, `RetrySendsNothing`, `AnswerMatches`, `LockIsReturned` |
| `IdempotencyResend` | 2 requests of one payload | refutes `SentOnce` |
| `CampaignFaults` | 2 contacts in pages of 1, 2 slots, 2 crashes or stalls; 2 requests, but 1 with stalls and errors; failing queues, changes of the book, of the campaign, of the domain, and database errors in turn | `OneEmailPerContact`, `FailedIsNotQueued`, `SteadySentIsComplete`, `LinkedIsSettled`, `BatchesFinish` |
| `CampaignSkip` | 3 contacts that may leave | refutes `SentIsComplete` |
| `EmailFaults` | 1 slot, 2 clients, 3 times, 2 requests and 2 crashes, 3 of these in all, every fault | `SendsBounded`, `CancelHolds`, `NotEarly`, `AcceptedIsSettled` |
| `HookFaults` | 2 notifications of any two kinds, every fault | `EventIsCounted`, `LatestIsHighest`, `BadAddressIsDropped` |
| `ContactFaults` | 3 requests of any kind, 2 successive rows, every fault | `OnlyOverlapBringsBack`, `SubscribedWasAsked` |
| `TeamFaults` | 2 requests at once and 3 in all, 2 customers, 3 users, 2 invitations, 2 changes at Stripe, 1 stop; four mixes of limits, settings, checkout, invitations, passwords, roles | `CacheHasReason`, `RowFollowsStripe`, `PayerIsKnown`, `OnlyOverlapTakesLastAdmin`, `InviteAdmitsOne` |
| `DomainFaults` | 2 requests in turn or at once when adding and deleting, 1 reader beside the job otherwise, 2 changes at SES, 1 stop or failed mail; adding and deleting, here and in another region, verifying under errors and with all five statuses, and reading, in turn | `RowHasIdentity`, `IdentityHasRow`, `EventsFollowRow`, `MailNotRepeated`, `RowFollowsSes`, `VerifiedIsMailed` |
| `ShopifyFaults` | 2 handlers at once and 3 in all, 1 visitor, 2 customers, 2 products, 4 token sets, 1 fault; one process or two, installs, webhooks, sync, events, redaction and runs in turn | `TokenIsCurrent`, `ProfileFollowsCustomer`, `CooldownHolds`, `WeekLimitHolds`, `MailFollowsConsent`, `RefreshesRun` |

The type invariant of each module is proved (section 5) and in no run's list.

**Why the bounds are enough.** Two slots are what a zombie and its successor
need, and one stall or crash produces both; a batch job that has failed for good
needs two. Two attempts have a first, which may
be retried, and a last. Two contacts in pages of one have a page after a cursor,
an empty page and a contact that two reruns share; the cursor that leaves needs
a third. Two requests for one key race, the third comes after both. Two
notifications cover each pair of kinds, the same kind twice included. Three
requests are a reader, the one that refuses, and one that starts later. Two team
requests at once overlap, the third meets what they left; three users are two
admins and one who comes in; two customers are what two checkouts make. One
handler of each kind and the job are the readers of a domain row; two changes
take an identity to verified and back. Two handlers cross an exchange or an
update; the third finds the result. What a bound cannot show, the proofs show:
the safety properties are proved for every number of slots, requests, contacts,
visitors and faults. `HookFaults` leaves out "Send"
and "Rendering Failure", which take the path of "Delivery Delay" with another
rank; the proofs have all kinds. `EmailFaults` has one slot: a second one runs
the same job only after a stall, which the crashed run of the only slot is too,
and `SendsBounded` and `CancelHolds` are proved for any number.

**Deadlock** is checked in `Idempotency`, whose end (all requests answered, no
lock) is a stuttering step of its own: any other state that stops is an error.
The other runs state `CHECK_DEADLOCK FALSE` because the system may really stop
there, with all jobs done and the bounded requests spent; that nothing waits for
ever is what their liveness properties say.

**Fairness.** `FairSpec` gives weak fairness to what the code's scheduling
guarantees: a handler that started runs on (Node schedules it and a client call
returns or rejects), a free slot takes a waiting job, BullMQ promotes delayed
jobs and looks for stalled ones, keys with a TTL expire, the scheduler's tick and
the hourly job of the domains repeat, the clock moves. Requests, faults, crashes,
and what SES, Stripe, Shopify or a user decide are under no obligation, and no
action has strong fairness. In `EmailDelivery` the reports of SES are not fair:
progress does not rest on them. `ShopifyMarketing`, `TeamMembers`, `SesHook` and
`ContactSubscription` state none.

## 4. What disagrees with the code's own statements

Three runs refute a statement of the repository (`findings` in `PROJECT.json`):

- `IdempotencyResend`: the endpoint promises that a repeat of a key is answered
  without sending again. The result is read before the lock and not again under
  it. A request that reads nothing, waits, and locks after another has stored and
  released sends a second email. `RetrySendsNothing` is what does hold: a client
  that repeats *after* it was answered sends nothing.
- `WebhookRetry`: a failed call keeps its failed job (`removeOnFail`), so that
  `retryCall` resets the row to PENDING and its `queue.add` is ignored.
- `CampaignSkip`: if the contact under the cursor no longer matches, `skip: 1`
  drops the next contact, and the campaign is SENT without it; if its row was
  deleted, the page is empty and the campaign is SENT at once.

Others were seen with the same models and are recorded here without a run.

Webhooks, emails, campaigns, contacts:

- `src/references/webhook-architecture.md:164` calls the lock "ordered delivery";
  a call that finds it busy is retried later and is overtaken.
- `webhook-architecture.md:363` disables a webhook "After 30 consecutive failures
  across any calls", and its flow (`:114`) increments the counter before it asks
  "attempt < 6?". The code counts only the sixth failure of a call
  (`service/webhook-service.ts:610-616`), so it takes 180 failed POSTs. What the code
  counts, it counts exactly, and that is all that `ActiveCountExact` says.
- `webhook-architecture.md:136-153` and `:365-372` put DISCARDED after IN_PROGRESS;
  the code discards a PENDING call before it marks it, and a webhook that goes
  inactive later is POSTed to (`service/webhook-service.ts:513-525`). Both diagrams
  have DELIVERED as final: a DELIVERED that is committed while its reply is lost is
  overwritten by the catch block with PENDING or FAILED, and delivered again
  (`:567-587`, `:637-651`; `unheard` in the model).
- A Redis error at the lock, outside the `try`, leaves the row IN_PROGRESS until the
  next attempt, or, if it was the last, until someone retries it (`:540`).
- An attempt that fails after another call has disabled the webhook saves PENDING
  and returns: its job is removed and the call stays PENDING
  (`service/webhook-service.ts:671` against `webhook-architecture.md:369`).
- A pause between the worker's read and its write of RUNNING or SENT is lost
  (`service/campaign-service.ts:1091`).
- A batch job that stalls a second time fails and is kept under its fixed id
  (`service/campaign-service.ts:1249-1253`): every later batch is ignored, and the
  campaign stays RUNNING until that job ages out (`BatchesFinish` names it).
- `queueBulk` swallows an `addBulk` error, so the caller's "Mark all created
  emails as failed" (`service/email-service.ts:761`) runs only if `init` throws.
- After a crash between SES and the row, a cancellation succeeds: CANCELLED and
  sent (`service/email-queue-service.ts:301`). `cancelEmail` emits no webhook.
- `service/limit-service.ts:218`: the warning near the monthly limit is outside
  the `try` of its daily sibling; if its mail fails, `checkEmailLimit` throws and
  an email that is under the limit becomes FAILED.
- Two notifications of one open are both counted, while
  `service/ses-hook-parser.unit.test.ts:157` expects the first only.
- Two adds with `subscribed: true` that both read no contact: the second's upsert
  updates the pending row to subscribed, past the confirmation that
  `src/apps/docs/guides/double-opt-in.mdx:8` requires ("Only after clicking the link
  do they become fully subscribed"). `SubscribedWasAsked` names this window, the
  team's own edit and the switch as the only ways past the link.
- A refusal between the read and the write of an upload or a confirmation is
  overwritten (`service/contact-service.ts:64`, `service/double-opt-in-service.ts:208`).
  `OnlyOverlapBringsBack` says that this window is the only way.

Teams, billing, domains:

- Two admins who remove or demote each other at once both pass "Need at least one
  admin": the team has none. An invitation that two accept at once admits both.
- `jobs/usage-job.ts:79` says "Schedule job to run daily" and runs it every
  12 hours; a meter event carries no identifier, so that a rerun counts twice.
- If `deleteDomain` fails between SES and its row, the next delete finds no
  identity to delete and throws: the domain cannot be deleted. If `createDomain`
  fails between the two, the name cannot be added again. The same happens with no
  failure at all: a name that has a row in another region gets an identity in this
  one, and `domain.create` then fails on the unique name
  (`service/domain-service.ts:426-433`, `prisma/schema.prisma:422`).
- The first "verified" mail that fails is never sent: nothing was recorded as
  notified, and the row is SUCCESS, which the later checks leave alone
  (`VerifiedIsMailed` names it).

Shopify, against `src/docs/shopify/protected-customer-data-submission.md` (its
`:87` says that if a customer unsubscribed, "RioReply will not send"):

- The frequency limits (`:34`, `:89`) are checked for the visitor whose interest it
  is. The mail about it is a campaign to every subscribed contact of the autopilot's
  book (`service/campaign-service.ts:1100`), though it is created with a `total` of 1
  (`service/shopify-marketing-send-service.ts:102`): visitors get, beyond their
  limits, what was scheduled for others. `CooldownHolds` and `WeekLimitHolds` are
  about what is scheduled for a visitor, and no more.
- A customer who withdraws the consent at Shopify stays in the autopilot's book, and
  gets the campaigns about others; and the send service subscribes an unsubscribed
  contact again (`service/shopify-marketing-send-service.ts:81`).
- customers/redact leaves the contact in that book. `syncCustomers` and an order
  change a customer's consent without its profiles', and a profile that an event
  links to a customer who is not known keeps the consent of the one before.
- `handleWebhookTopic` needs a client even for customers/update: a store whose
  token is dead no longer hears of withdrawn consent, and the engine goes on.
- All candidates of a run are built before the first is sent, so two products of
  one visitor pass the weekly limit together. The refresh lock is per process.

## 5. What is proved

Eight modules hold proofs. A theorem is `Spec => []P`, or `Spec => P` for an
action property and a refinement, for every value of the constants that the
module's `ASSUME`s admit: bounds are numbers, the marks for "nobody" are no ids,
`Workers` and `Users` are finite where slots and admins are counted. Nothing is
assumed of the visitors, products, customers and handlers of Shopify but that.
Each is proved from an inductive invariant: initially true, kept by every step
(one proof step per action), and implying the property. Type correctness
(`TypeCorrect`, `TypesHold`) is proved first in each and used as a hypothesis by
the others. `EmailDeliveryProofs` also has the theorems of `Idempotency`, through
which the requests that send come; its specification is `KeySpec`. In
`ShopifyMarketingProofs`, `CampaignCases` sorts the steps of the whole composed
system once into those that are `Calm` for a visitor's campaigns and six that are
not, and the proofs of cooldown and week go by these.

| Theorem | Property | Inductive invariant and why it is needed |
|---|---|---|
| `WebhookDispatchProofs!OnePostPerWebhook` | `PostMutex` | `PosterHoldsLock`: two posters differ in nothing a step could refuse, but only one of them can be the key's owner |
| `…!CountersExact` | `ActiveCountExact` | `CountInv`: `setWebhookStatus` writes back a counter it read, which is harmless as long as it resets the streak too |
| `…!SingleRun` | `OneRunPerCall` | `RunnerOwnsJob`: a run without its job is possible only once its call is in `unlocked` |
| `…!RowsFollowLifecycle` | `ImplementsLifecycle` (the refinement) | `Traced`: where a run and its job stand fixes what the row of their call shows, unless the call is excused (a commit unheard, `unheard`, excuses it from then on), and no row is without its webhook; then each action is a step of `WebhookLifecycle` under the mapping, or leaves its variables alone |
| `EmailDeliveryProofs!OneAtATime` | `OneOperation` | `HolderOperates`: a request in its operation that did not lose the lock is the one that set it, and the holder of a set lock has not lost it; no assumption on how long an operation takes |
| `…!RetryIsSafe` | `RetrySendsNothing` | `AnswersAreStored`: an answer is stored before it is given, so later readers find it |
| `…!AnswersMatch` | `AnswerMatches` | `StoredWasSent` |
| `CampaignBatchProofs!OneEmail` | `OneEmailPerContact` | a queued email is the linked one, and the link is written once; the property excludes a deletion of the campaign, which removes the links |
| `…!SentLeavesNobody` | `SteadySentIsComplete` | everyone up to the cursor is accounted for, and so is everyone before a run's own cursor and page; for a book that does not change (see `CampaignSkip`) and a database that answers |
| `…!NoEmailIsForgotten` | `LinkedIsSettled` | `Alone` and `AllSettled`: while no slot is lost one run is at the batch, and every linked email is queued, failed, suppressed or the one in its hand; the queue and the database must not both refuse, or the failure is not recorded either |
| `…!ReportsAreTrue` | `FailedIsNotQueued` | `Alone` and `Fresh`: what is left of the run's page is in no queue, and an email about to be made is reported nowhere |
| `EmailDeliveryProofs!AtMostTwice`, `CancellationHolds` | `SendsBounded`, `CancelHolds` | `RunsAreCounted`: mails sent, slots that may send and the place in the queue together never exceed the number of times the job was queued |
| `…!NothingIsEarly` | `NotEarly` (an action property) | `Punctual`: the delay that the sender, an update or the job holds reaches the row's time, and whoever runs has waited for it; a delayed job excludes a running slot, which is `RunsAreCounted` |
| `SesHookProofs!HighestShows` | `LatestIsHighest` | `Highest`: SUPPRESSED, the highest rank, is never reported |
| `…!RecordedIsCounted` | `EventIsCounted` | per notification, which counters are behind it |
| `…!RecordedIsDropped` | `BadAddressIsDropped` | per notification, which writes are behind it |
| `ContactSubscriptionProofs!RefusalIsKept` | `OnlyOverlapBringsBack` | `StaleWriters`: whoever is about to subscribe a contact that left was there when it left |
| `…!OptInIsAsked` | `SubscribedWasAsked` | `LinksAreUsed`: whoever is about to write for a confirmation or a campaign's link works for a contact that used its own link or did not have to, and so were all who were mailed; the row that an add found is the one it writes, or it is `waived` |
| `TeamMembersProofs!AdminsRemain` | `OnlyOverlapTakesLastAdmin` | `Counted`: a removal that counted two admins and is not `shaky` still sees them, so that one is left |
| `…!InvitesAdmitOne` | `InviteAdmitsOne` | `Invited`: an invitation that has admitted someone is gone, or its accept is about to delete it, or it is `leaked` |
| `…!CachesHaveReasons` | `CacheHasReason` | `Fresh`: also what a handler has read and not yet stored is the row's, or it is in `older` |
| `…!PayersAreKnown` | `PayerIsKnown` | `Paying`: until the customer is made twice, one checkout at most has it to make, and every session, subscription and event is the team's customer's |
| `…!RowsFollowStripe` | `RowFollowsStripe` | `Paying` and `Following`: a sync that has listed and is not `late` is followed by another, or is alone and holds what Stripe has; a stopped one is owed again |
| `DomainVerificationProofs!RowsHaveIdentities`, `IdentitiesHaveRows` | `RowHasIdentity`, `IdentityHasRow` | `Accounted`: an identity that is not the row's is of one `createDomain` that has its row to insert, whoever is to remove the row has dropped its identity, and each key is for one row; a creation that found a row of the name, here or `elsewhere`, is in `orphaned` |
| `…!EventsTellTheRow` | `EventsFollowRow` | `Followed`: unless `overlapped`, one refresh at most is at the row it wrote, holds what it wrote, and was told what it found |
| `…!MailsDiffer` | `MailNotRepeated` | `Mailed`: who is to mail a status has its lock, alone; the last mail is recorded or about to be, and a refresh that read the record before it finds that mail's lock |
| `ShopifyMarketingProofs!TypesHold` | `TypeOK` | `Typed`: what each handler holds at each of its points, and that candidates and viewed products belong to runs |
| `…!NewestIsStored` | `TokenIsCurrent` | `LockOK` and `OneUnsaved`: a refresh has its process's lock; until exchanges cross, one handler at most holds an unsaved token set, and it is the newest |
| `…!PromisesRun` | `RefreshesRun` | `LockOK`: a process's lock is held by one of its handlers that is at a refresh, and whoever waits has one to wait for |
| `…!ConsentFollows` | `ProfileFollowsCustomer` | `Followed`: a profile that does not match its customer has a webhook or a redaction on its way to it, and a copy that nobody overtook is still what the rows say |
| `…!MailHasConsent` | `MailFollowsConsent` (an action property) | `Agreed`: as the property, already for the candidates and the mails not scheduled yet |
| `…!OneInCooldown` | `CooldownHolds` | `Cool`: a scheduled campaign has its row or the one run that is about to write it, an interest that is still to be mailed has neither, and a run has each interest once; `Alone`: runs that both carry the visitor have made it `torn` |
| `…!WeekIsLimited` | `WeekLimitHolds` | `Week` and `Numbered`: the week's campaigns are the visitor's rows and at most one without; a run carries the visitor only while there is room for one more row; that each new row adds one to the count rests on the numbers of the campaigns |

The named invariants are in the models next to the property they strengthen, or
at the head of the proof. Those next to their property hold in the runs' instances
too.

## 6. What is only model-checked

- Liveness (`LockIsReturned`, `JobEnds`, `BatchesFinish`, `AcceptedIsSettled`,
  `RowFollowsSes`, `VerifiedIsMailed`): the prover does not handle fairness and
  `ENABLED`.
- The three properties that runs refute (section 4): there is nothing to prove.

Every other invariant, action property and refinement that a run checks has a
theorem. A proof says nothing of progress: that a webhook call, a campaign or an
email ends is known for the instances of section 3 only.

## 7. What is not modelled

Components with status `not_modelled` in `PROJECT.json`: those with no shared
state of their own (API, SDKs, SMTP server, UI, editor), set-up calls to AWS, and
rows that one request at a time writes (books, suppression, API keys). Their
guards, where a service relies on them, are in its actions.

Within the modelled components: editing and duplicating a campaign, its `sent`
and `total` counters; attachments and suppression at acceptance; the usage an
email limit reads from its cache, with its notices, and the usage reports (both
soft limits: no statement of the code is lost when they are off by a few); metrics
by domain; contact properties; the creation of a team; DNS records, tracking
settings and the check of a sender's domain; Stripe's portal and the confirmation
mail; Shopify's products, orders, stock, shop/redact, data requests, OAuth state,
demo data and dashboards. Time is modelled only where a property depends on it
(`EmailDelivery`, `due`; ages of keys and tokens are events).

About three quarters of the repository's lines are React pages, components, the
editor, SDKs and texts, which keep no state that two actors share.

## 8. Plan

Done: the models above, with proofs of all their safety properties. What is left, most important first:

1. **Compose** `CampaignBatch` with `EmailDelivery` over one queue, and `SesHook`
   with `ContactSubscription`, in place of the actions by which each states the
   other's part.
2. **Model** `shop/redact` against a running sync, the suppression list as a
   module of its own between acceptance, campaigns and SES events.
