------------------------- MODULE DomainVerification -------------------------
(***************************************************************************)
(* One domain name in one region: its row, its identity at SES, and the    *)
(* keys that service/domain-service.ts keeps in Redis for the row.         *)
(* Requests add the domain, delete it, start its verification and read it, *)
(* which refreshes a row that is verifying; the hourly job of              *)
(* jobs/domain-verification-job.ts refreshes the rows that are due.        *)
(* Another region has an identity of its own for the name, but the name is *)
(* unique among the rows of all regions: of those, elsewhere tells.        *)
(*                                                                         *)
(* One action per await on SES, the database or Redis.  DNS records and    *)
(* the tracking settings are left out; DKIM and MAIL FROM of a verified    *)
(* identity may lag behind, which is a choice.  The keys of a row that is  *)
(* gone are never read again (ids are not reused) and are left out.        *)
(***************************************************************************)
EXTENDS Naturals, FiniteSets

CONSTANTS
    Requests,       \* handlers of requests in flight
    Readers,        \* bound: the requests that may read the domain
    Job,            \* the worker of the hourly job (concurrency 1)
    Unsettled,      \* the values of DomainStatus but SUCCESS and FAILED
    Mixes,          \* the sets of requests, changes and faults of a behaviour
    MaxAsks,        \* bound: requests, where they come "again"
    MaxChanges,     \* bound: changes of the identity's status at SES
    MaxStops        \* bound: handlers that stop and mails that fail

ASSUME NumbersAssumption ==
    /\ MaxAsks \in Nat /\ MaxChanges \in Nat /\ MaxStops \in Nat
    /\ Readers \subseteq Requests /\ Job \notin Requests

\* The others are NOT_STARTED and TEMPORARY_FAILURE.
ASSUME StatusAssumption == "PENDING" \in Unsettled /\ "none" \notin Unsettled

VARIABLES
    mix,        \* of this behaviour: "create", "delete", "get" come in, another "region"
                \* adds and deletes the name, "ses" changes its mind, "stop": a handler
                \* dies or an await rejects, "mail": a mail fails or cannot be recorded,
                \* "again": another create, delete or get comes after the first request
    identity,   \* the identity at SES: which addDomain made it, and its status
    elsewhere,  \* the name has a row of another region
    row,        \* the row of Domain: its id, the key it shows, status, isVerifying
    keys,       \* Redis: last-check, last-notified-status, has-ever-verified
    locks,      \* Redis: notification-lock of each status
    run,        \* where each handler is, and what it read; id: the row it works on, or
                \* the key of the identity that it has to insert a row for
    told,       \* history: the status of the last webhook event of the row
    mailed,     \* history: the status of the last mail of the row
    adds,       \* addDomain calls that made an identity
    ids,        \* the last id of a row
    asks, changes, stops,   \* counts for the bounds
    orphaned,   \* history: why an identity was made and its row was not: its request
                \* "stopped", or the name had a row, of a domain being "deleted" or
                \* of a domain "elsewhere"
    cut,        \* history: an identity was deleted and its row was not
    broken,     \* history: a refresh stopped after it wrote the row, or its mail failed
    overlapped, \* history: a refresh wrote a row that another one was at
    crossed,    \* history: a status was recorded as mailed after a mail of another one
    slow        \* history: a lock expired under a refresh

counts == <<asks, changes, stops>>
made == <<adds, ids>>
redis == <<keys, locks>>
hist == <<told, mailed>>
faulty == <<orphaned, cut, broken, overlapped, crossed, slow>>
vars == <<mix, elsewhere, identity, row, redis, run, hist, made, counts, faulty>>

Slots == Requests \cup {Job}

Status == Unsettled \cup {"SUCCESS", "FAILED"}

NoIdentity == [key |-> 0, status |-> "PENDING"]
NoRow == [id |-> 0, key |-> 0, status |-> "PENDING", verifying |-> FALSE]
NoKeys == [checked |-> "none", notified |-> "none", ever |-> FALSE]
Idle == [pc |-> "idle", id |-> 0, prev |-> "PENDING", verifying |-> FALSE,
         ever |-> FALSE, notified |-> "none", got |-> "PENDING"]

\* Nothing yet, or a domain as createDomain leaves it.
Init ==
    /\ mix \in Mixes
    /\ elsewhere = FALSE
    /\ \/ identity = NoIdentity /\ row = NoRow /\ adds = 0 /\ ids = 0
       \/ /\ identity = [NoIdentity EXCEPT !.key = 1]
          /\ row = [NoRow EXCEPT !.id = 1, !.key = 1]
          /\ adds = 1 /\ ids = 1
    /\ keys = NoKeys /\ locks = {}
    /\ run = [r \in Slots |-> Idle]
    /\ told = "PENDING" /\ mailed = "none"
    /\ asks = 0 /\ changes = 0 /\ stops = 0
    /\ orphaned = {} /\ cut = FALSE /\ broken = FALSE
    /\ overlapped = FALSE /\ crossed = FALSE /\ slow = FALSE

GoesTo(r, point) == run' = [run EXCEPT ![r].pc = point]
Ends(r) == run' = [run EXCEPT ![r] = Idle]

\* A request of this kind comes in.
Asks(r, kind, locals) ==
    /\ kind \in mix
    /\ run[r].pc = "idle"
    /\ asks < MaxAsks /\ (asks = 0 \/ "again" \in mix)
    /\ asks' = asks + 1
    /\ run' = [run EXCEPT ![r] = locals]
    /\ UNCHANGED <<mix, elsewhere, identity, row, redis, hist, made, changes, stops, faulty>>

Same == <<mix, elsewhere, asks, changes, stops>>

-----------------------------------------------------------------------------
(***************************************************************************)
(* createDomain and deleteDomain.                                          *)
(***************************************************************************)

AskCreate(r) == Asks(r, "create", [Idle EXCEPT !.pc = "add"])

\* Mutant: an identity that SES has already is given another key.
AddAgain(r) ==
    /\ run[r].pc = "add"
    /\ adds' = adds + 1
    /\ identity' = [NoIdentity EXCEPT !.key = adds + 1]
    /\ run' = [run EXCEPT ![r].pc = "insert", ![r].id = adds + 1]
    /\ UNCHANGED <<Same, row, redis, hist, ids, faulty>>

\* ses.addDomain, which throws when SES has the identity.
AddIdentity(r) ==
    /\ run[r].pc = "add"
    /\ \/ identity.key # 0 /\ Ends(r) /\ UNCHANGED <<identity, adds>>
       \/ /\ identity.key = 0
          /\ adds' = adds + 1
          /\ identity' = [NoIdentity EXCEPT !.key = adds + 1]
          /\ run' = [run EXCEPT ![r].pc = "insert", ![r].id = adds + 1]
    /\ UNCHANGED <<Same, row, redis, hist, ids, faulty>>

\* Mutant: an upsert by the name.
InsertOrUpdate(r) ==
    /\ run[r].pc = "insert"
    /\ IF row # NoRow
       THEN row' = [row EXCEPT !.key = run[r].id] /\ UNCHANGED <<redis, hist, ids>>
       ELSE /\ ids' = ids + 1
            /\ row' = [NoRow EXCEPT !.id = ids + 1, !.key = run[r].id]
            /\ keys' = NoKeys /\ locks' = {}
            /\ told' = "PENDING" /\ mailed' = "none"
    /\ Ends(r)
    /\ UNCHANGED <<Same, identity, adds, faulty>>

\* domain.create, whose name is unique among the domains of all regions; the event
\* says PENDING.
InsertRow(r) ==
    /\ run[r].pc = "insert"
    /\ \/ /\ row # NoRow \/ elsewhere
          /\ orphaned' = orphaned \cup {IF elsewhere THEN "elsewhere" ELSE "deleted"}
          /\ UNCHANGED <<row, redis, hist, ids>>
       \/ /\ row = NoRow /\ ~elsewhere
          /\ ids' = ids + 1
          /\ row' = [NoRow EXCEPT !.id = ids + 1, !.key = run[r].id]
          /\ keys' = NoKeys /\ locks' = {}
          /\ told' = "PENDING" /\ mailed' = "none"
          /\ UNCHANGED orphaned
    /\ Ends(r)
    /\ UNCHANGED <<Same, identity, adds, cut, broken, overlapped, crossed, slow>>

\* domain.findUnique.
AskDelete(r) ==
    row # NoRow /\ Asks(r, "delete", [Idle EXCEPT !.pc = "drop", !.id = row.id])

\* ses.deleteDomain, by the name; it throws when SES has no identity.
DropIdentity(r) ==
    /\ run[r].pc = "drop"
    /\ \/ identity.key = 0 /\ Ends(r) /\ UNCHANGED identity
       \/ identity.key # 0 /\ identity' = NoIdentity /\ GoesTo(r, "remove")
    /\ UNCHANGED <<Same, row, redis, hist, made, faulty>>

\* domain.delete by the id, then the keys are cleared.
RemoveRow(r) ==
    /\ run[r].pc = "remove"
    /\ \/ row.id # run[r].id /\ cut' = TRUE /\ UNCHANGED row
       \/ row.id = run[r].id /\ row' = NoRow /\ UNCHANGED cut
    /\ Ends(r)
    /\ UNCHANGED <<Same, identity, redis, hist, made, orphaned, broken, overlapped, crossed,
                   slow>>

\* startVerification.
StartVerification ==
    /\ "get" \in mix
    /\ row # NoRow /\ ~row.verifying
    /\ asks < MaxAsks
    /\ asks' = asks + 1
    /\ row' = [row EXCEPT !.verifying = TRUE]
    /\ UNCHANGED <<mix, elsewhere, identity, redis, run, hist, made, changes, stops, faulty>>

\* The same requests add the name in another region, or delete it there.
ElsewhereChanges ==
    /\ "region" \in mix
    /\ row = NoRow
    /\ elsewhere' = ~elsewhere
    /\ UNCHANGED <<mix, counts, identity, row, redis, run, hist, made, faulty>>

-----------------------------------------------------------------------------
(***************************************************************************)
(* refreshDomainVerification, from getDomain or the job.                   *)
(***************************************************************************)

Found == [Idle EXCEPT !.id = row.id, !.prev = row.status, !.verifying = row.verifying]

\* getDomain: domain.findUnique; a row that is verifying is refreshed.
AskGet(r) ==
    r \in Readers /\ row.verifying /\ Asks(r, "get", [Found EXCEPT !.pc = "state", !.verifying = FALSE])

\* The job's domain.findMany; other domains may take a while before this one.
JobRead ==
    /\ run[Job].pc = "idle"
    /\ row # NoRow
    /\ run' = [run EXCEPT ![Job] = [Found EXCEPT !.pc = "due"]]
    /\ UNCHANGED <<Same, identity, row, redis, hist, made, faulty>>

\* The keys of a row, none when it is gone.
KeysOf(id) == IF row.id = id THEN keys ELSE NoKeys

\* Mutant: only a row that is verifying is due.
IsDueVerifying(d, k) == d.verifying /\ k.checked # "fresh"

\* isDomainVerificationDue: not for a row that FAILED and was never verified, and
\* once the interval since the last check is over.
IsDue(d, k) ==
    /\ ~(~k.ever /\ d.prev = "FAILED" /\ ~d.verifying)
    /\ k.checked # "fresh"

JobDue ==
    /\ run[Job].pc = "due"
    /\ run' = [run EXCEPT ![Job] =
                  IF IsDue(@, KeysOf(@.id)) THEN [@ EXCEPT !.pc = "state", !.verifying = FALSE]
                  ELSE Idle]
    /\ UNCHANGED <<Same, identity, row, redis, hist, made, faulty>>

\* getDomainVerificationState.
ReadState(r) ==
    /\ run[r].pc = "state"
    /\ LET k == KeysOf(run[r].id) IN
       run' = [run EXCEPT ![r].pc = "ask", ![r].ever = k.ever, ![r].notified = k.notified]
    /\ UNCHANGED <<Same, identity, row, redis, hist, made, faulty>>

\* ses.getDomainIdentity, which throws when there is none.
AskSes(r) ==
    /\ run[r].pc = "ask"
    /\ \/ identity.key = 0 /\ Ends(r)
       \/ /\ identity.key # 0
          /\ run' = [run EXCEPT ![r].pc = "update", ![r].got = identity.status]
    /\ UNCHANGED <<Same, identity, row, redis, hist, made, faulty>>

\* The row that r works on is still there.
HasRow(r) == row # NoRow /\ row.id = run[r].id

\* A refresh that has written the row and has yet to emit its event.
At(r) == run[r].pc \in {"checked", "ever", "reserve", "mail", "note", "emit"}

\* domain.update, which throws when the row is gone.  shouldContinueVerifying.
UpdateRow(r) ==
    /\ run[r].pc = "update"
    /\ LET d == run[r] IN
       \/ ~HasRow(r) /\ Ends(r) /\ UNCHANGED <<row, overlapped>>
       \/ /\ HasRow(r)
          /\ \E v \in IF d.got = "SUCCESS" THEN BOOLEAN ELSE {d.got # "FAILED"} :
                row' = [row EXCEPT !.status = d.got, !.verifying = v]
          /\ overlapped' = (overlapped \/ row.status # d.prev \/ \E q \in Slots : At(q))
          /\ GoesTo(r, "checked")
    /\ UNCHANGED <<Same, identity, redis, hist, made, orphaned, cut, broken, crossed,
                   slow>>

\* Writes the keys of r's row, if that is still there.
Keys(r, k) == keys' = IF HasRow(r) THEN k ELSE keys

\* setDomainVerificationCheckedAt.
SetChecked(r) ==
    /\ run[r].pc = "checked"
    /\ Keys(r, [keys EXCEPT !.checked = "fresh"])
    /\ GoesTo(r, IF run[r].got = "SUCCESS" THEN "ever" ELSE "reserve")
    /\ UNCHANGED <<Same, identity, row, locks, hist, made, faulty>>

\* markDomainEverVerified.
MarkEver(r) ==
    /\ run[r].pc = "ever"
    /\ Keys(r, [keys EXCEPT !.ever = TRUE])
    /\ GoesTo(r, "reserve")
    /\ UNCHANGED <<Same, identity, row, locks, hist, made, faulty>>

\* Mutant: whether it was ever verified is what was read before this check.
ShouldSendLater(d) ==
    /\ ~(d.notified = "none" /\ d.got = d.prev)
    /\ d.ever \/ d.got = "FAILED"
    /\ d.got # d.notified

\* shouldSendDomainStatusNotification, with what the refresh read.
ShouldSend(d) ==
    /\ ~(d.notified = "none" /\ d.got = d.prev)
    /\ d.ever \/ d.got \in {"SUCCESS", "FAILED"}
    /\ d.got # d.notified

\* What a refresh still needs after that.
Forget(r, point) ==
    run' = [run EXCEPT ![r] = [@ EXCEPT !.pc = point, !.ever = FALSE, !.notified = "none"]]

\* Mutant: whoever should send sends.
ReserveNothing(r) ==
    /\ run[r].pc = "reserve"
    /\ Forget(r, IF ShouldSend(run[r]) THEN "mail" ELSE "emit")
    /\ UNCHANGED <<Same, identity, row, redis, hist, made, faulty>>

\* reserveDomainStatusNotification: SET NX, for 300 s.
Reserve(r) ==
    /\ run[r].pc = "reserve"
    /\ LET d == run[r] IN
       \/ /\ ShouldSend(d) /\ d.got \notin locks
          /\ locks' = IF HasRow(r) THEN locks \cup {d.got} ELSE locks
          /\ Forget(r, "mail")
       \/ ~(ShouldSend(d) /\ d.got \notin locks) /\ Forget(r, "emit") /\ UNCHANGED locks
    /\ UNCHANGED <<Same, identity, row, keys, hist, made, faulty>>

MailFails == "mail" \in mix /\ stops < MaxStops /\ stops' = stops + 1

\* sendDomainStatusNotification to the team's members; its error is logged.
Mail(r) ==
    /\ run[r].pc = "mail"
    /\ \/ /\ mailed' = IF HasRow(r) THEN run[r].got ELSE mailed
          /\ GoesTo(r, "note")
          /\ UNCHANGED <<broken, stops>>
       \/ MailFails /\ broken' = TRUE /\ GoesTo(r, "emit") /\ UNCHANGED mailed
    /\ UNCHANGED <<mix, elsewhere, asks, changes, identity, row, redis, told, made, orphaned, cut,
                   overlapped, crossed, slow>>

\* setLastNotifiedDomainStatus, in the same try.
SetNotified(r) ==
    /\ run[r].pc = "note"
    /\ \/ /\ Keys(r, [keys EXCEPT !.notified = run[r].got])
          /\ crossed' = (crossed \/ mailed # run[r].got)
          /\ UNCHANGED <<broken, stops>>
       \/ MailFails /\ broken' = TRUE /\ UNCHANGED <<keys, crossed>>
    /\ GoesTo(r, "emit")
    /\ UNCHANGED <<mix, elsewhere, asks, changes, identity, row, locks, hist, made, orphaned, cut,
                   overlapped, slow>>

\* Mutant: only a verified domain has an event.
EmitVerified(r) ==
    /\ run[r].pc = "emit"
    /\ told' = IF HasRow(r) /\ run[r].prev # run[r].got /\ run[r].got = "SUCCESS"
               THEN run[r].got ELSE told
    /\ Ends(r)
    /\ UNCHANGED <<Same, identity, row, redis, mailed, made, faulty>>

\* emitDomainEvent, when the status is not the one that was read.
Emit(r) ==
    /\ run[r].pc = "emit"
    /\ told' = IF HasRow(r) /\ run[r].prev # run[r].got THEN run[r].got ELSE told
    /\ Ends(r)
    /\ UNCHANGED <<Same, identity, row, redis, mailed, made, faulty>>

-----------------------------------------------------------------------------
(***************************************************************************)
(* The environment.                                                        *)
(***************************************************************************)

\* SES changes the status of the identity.
SesChanges ==
    /\ "ses" \in mix
    /\ identity.key # 0 /\ changes < MaxChanges
    /\ changes' = changes + 1
    /\ \E s \in Status \ {identity.status} : identity' = [identity EXCEPT !.status = s]
    /\ UNCHANGED <<mix, elsewhere, row, redis, run, hist, made, asks, stops, faulty>>

\* The interval of 6 hours or 30 days since the last check is over.
CheckAges ==
    /\ keys.checked = "fresh"
    /\ keys' = [keys EXCEPT !.checked = "old"]
    /\ UNCHANGED <<Same, identity, row, locks, run, hist, made, faulty>>

\* The 300 s of a lock are over.
LockExpires(s) ==
    /\ s \in locks
    /\ locks' = locks \ {s}
    /\ slow' = (slow \/ \E r \in Slots : At(r) \/ run[r].pc \in {"ask", "update"})
    /\ UNCHANGED <<Same, identity, row, keys, run, hist, made, orphaned, cut, broken, overlapped,
                   crossed>>

\* A handler dies or an await of it rejects.
Stops(r) ==
    /\ "stop" \in mix /\ stops < MaxStops
    /\ run[r].pc # "idle"
    /\ stops' = stops + 1
    /\ orphaned' = IF run[r].pc = "insert" THEN orphaned \cup {"stopped"} ELSE orphaned
    /\ cut' = (cut \/ run[r].pc = "remove")
    /\ broken' = (broken \/ At(r))
    /\ Ends(r)
    /\ UNCHANGED <<mix, elsewhere, identity, row, redis, hist, made, asks, changes, overlapped,
                   crossed, slow>>

Requested(r) == AskCreate(r) \/ AskDelete(r) \/ AskGet(r)
Refresh(r) ==
    \/ ReadState(r) \/ AskSes(r) \/ UpdateRow(r) \/ SetChecked(r) \/ MarkEver(r)
    \/ Reserve(r) \/ Mail(r) \/ SetNotified(r) \/ Emit(r)
Handler(r) == AddIdentity(r) \/ InsertRow(r) \/ DropIdentity(r) \/ RemoveRow(r) \/ Refresh(r)

Next ==
    \/ \E r \in Requests : Requested(r)
    \/ \E r \in Slots : Handler(r) \/ Stops(r)
    \/ StartVerification \/ ElsewhereChanges \/ JobRead \/ JobDue
    \/ SesChanges \/ CheckAges \/ \E s \in Status : LockExpires(s)

Spec == Init /\ [][Next]_vars

\* Handlers go on, the job runs every hour and time passes.
FairSpec ==
    /\ Spec
    /\ \A r \in Slots : WF_vars(Handler(r))
    /\ WF_vars(JobRead) /\ WF_vars(JobDue)
    /\ WF_vars(CheckAges)
    /\ \A s \in Status : WF_vars(LockExpires(s))

-----------------------------------------------------------------------------
Points == {"idle", "add", "insert", "drop", "remove", "due", "state", "ask", "update",
           "checked", "ever", "reserve", "mail", "note", "emit"}
Locals == [pc : Points, id : Nat, prev : Status, verifying : BOOLEAN, ever : BOOLEAN,
           notified : Status \cup {"none"}, got : Status]

TypeOK ==
    /\ mix \in Mixes /\ elsewhere \in BOOLEAN
    /\ identity \in [key : 0..adds, status : Status]
    /\ row \in [id : 0..ids, key : 0..adds, status : Status, verifying : BOOLEAN]
    /\ keys \in [checked : {"none", "fresh", "old"}, notified : Status \cup {"none"},
                 ever : BOOLEAN]
    /\ locks \in SUBSET Status
    /\ run \in [Slots -> Locals]
    /\ told \in Status /\ mailed \in Status \cup {"none"}
    /\ adds \in Nat /\ ids \in Nat
    /\ asks \in 0..MaxAsks /\ changes \in 0..MaxChanges /\ stops \in 0..MaxStops
    /\ orphaned \in SUBSET {"stopped", "deleted", "elsewhere"} /\ cut \in BOOLEAN /\ broken \in BOOLEAN
    /\ overlapped \in BOOLEAN /\ crossed \in BOOLEAN /\ slow \in BOOLEAN

\* A row shows the key of the identity that SES has, or DNS records made from it can
\* never verify: only a delete parts them, while it runs or when it stops between the
\* two or finds another row than it read.
RowHasIdentity ==
    row # NoRow /\ identity.key # row.key => cut \/ \E r \in Slots : run[r].pc = "remove"

\* SES has no identity without a row, which nobody could delete and which keeps the
\* name from being added: only a createDomain leaves one, while it runs or when it
\* stops before the row, or finds the row of a domain that is being deleted, or that
\* of a domain of this name in another region, which it does not look for before.
IdentityHasRow ==
    row = NoRow /\ identity.key # 0 =>
        orphaned # {} \/ \E r \in Slots : run[r].pc = "insert"

\* Who subscribes to domain events knows the row's status, once no refresh is at it,
\* unless a refresh stopped after it wrote the row or two of them overlapped.
EventsFollowRow ==
    row # NoRow /\ (\A r \in Slots : ~At(r)) /\ ~broken /\ ~overlapped => told = row.status

\* The team is not mailed the same status twice in a row, by however many refreshes at
\* once, unless a mail was not recorded, or was recorded after the mail of another status,
\* or a refresh outlived the lock.
MailNotRepeated ==
    [][\A r \in Slots :
          run[r].pc = "mail" /\ run'[r].pc = "note" /\ HasRow(r)
              => mailed # run[r].got \/ broken \/ crossed \/ slow]_vars

\* The job leaves such a row alone until its verification is started again.
GivenUp == row.status = "FAILED" /\ ~row.verifying /\ ~keys.ever

\* The row comes to show what SES says, except that the job gives up on a domain that
\* failed before it was ever verified.
RowFollowsSes ==
    []<>(row = NoRow \/ identity.key # row.key \/ row.status = identity.status \/ GivenUp)

\* A verified domain comes to be one that the team was mailed about, a mail that failed
\* included: the next check mails again, except when the first mail of all failed.
VerifiedIsMailed ==
    []<>(row.status = "SUCCESS" => keys.notified = "SUCCESS" \/ (keys.notified = "none" /\ broken))

=============================================================================
