------------------------ MODULE ContactSubscription ------------------------
(***************************************************************************)
(* Whether one address is subscribed to one contact book: the requests     *)
(* that write contact.subscribed and unsubscribeReason, from the API, the  *)
(* dashboard, the bulk-add queue, the links in mails and SES's bounces     *)
(* (contact-service.ts, contact-queue-service.ts, double-opt-in-service.ts *)
(* and unsubscribeContact, subscribeContact in campaign-service.ts).       *)
(*                                                                         *)
(* A contact is "subscribed", "pending" (not subscribed, no reason) or     *)
(* "left" (not subscribed, with a reason).  A row that is deleted and      *)
(* added again has a new id.  One action per await on the database; a job  *)
(* of the queue that stalls and runs again is a further request.           *)
(***************************************************************************)
EXTENDS Integers

CONSTANTS
    Requests,       \* handlers and jobs
    Ops,            \* what they may be
    Answers,        \* the field subscribed of an add or update: "yes", "no", "unset"
    Changes,        \* "optin": the team switches double opt-in
    Faults,         \* "stop": a handler dies or a call of it rejects; "mail" fails
    MaxRows         \* bound: rows ever created for the address

AllOps == {"add", "update", "delete", "resend", "confirm", "leave", "bounce", "rejoin"}

ASSUME ContactAssumption ==
    /\ Ops \in SUBSET AllOps
    /\ Answers \in SUBSET {"yes", "no", "unset"}
    /\ MaxRows \in Nat

VARIABLES
    op,         \* what each request is
    asked,      \* its field subscribed
    pc,         \* where it is
    book,       \* the doubleOptInEnabled it read
    seen,       \* the contact it read
    of,         \* the contact id it works on, 0 for none
    optIn,      \* contactBook.doubleOptInEnabled
    id,         \* id of the last row created
    status,     \* the row's status, "none" when there is no row
    links,      \* ids that were mailed a confirmation link which has not expired
    mailed,     \* ids that were mailed a campaign, with its unsubscribe link
    left,       \* the campaign's counter unsubscribed
    confirmed,  \* history: ids whose confirmation link was used
    overlap,    \* history: requests that were to write when the contact left
    back,       \* history: adds and confirmations that subscribed a contact that had left
    waived      \* history: ids subscribed by a decision other than the contact's own

request == <<op, asked, pc, book, seen, of>>
history == <<confirmed, overlap, back, waived>>
vars == <<request, optIn, id, status, links, mailed, left, history>>

Init ==
    /\ op \in [Requests -> Ops]
    /\ asked \in [Requests -> Answers]
    /\ pc = [r \in Requests |-> "new"]
    /\ book = [r \in Requests |-> FALSE]
    /\ seen = [r \in Requests |-> "none"]
    /\ of = [r \in Requests |-> 0]
    /\ optIn = TRUE
    /\ id = 0
    /\ status = "none"
    /\ links = {} /\ mailed = {} /\ left = 0
    /\ confirmed = {} /\ overlap = {} /\ back = {} /\ waived = {}

GoesTo(r, point) == pc' = [pc EXCEPT ![r] = point]
Writing == {q \in Requests : pc[q] = "write"}

\* The team decides for a contact; so does an add that found double opt-in off, or one
\* that no longer finds the contact as it read it.
Waives(r) == op[r] = "update" \/ (op[r] = "add" /\ (~book[r] \/ seen[r] # status))

\* The row, which may be a new one, gets a status, by r.
Becomes(r, s) ==
    /\ status' = s
    /\ overlap' = IF s = "left" THEN overlap \cup Writing ELSE overlap
    /\ back' = IF status = "left" /\ s = "subscribed" /\ op[r] \in {"add", "confirm"}
               THEN back \cup {r} ELSE back
    /\ waived' = IF status # "subscribed" /\ s = "subscribed" /\ Waives(r)
                 THEN waived \cup {IF status = "none" THEN id + 1 ELSE id} ELSE waived

-----------------------------------------------------------------------------
\* addOrUpdateContact: contactBook.findUnique.
ReadBook(r) ==
    /\ pc[r] = "new" /\ op[r] = "add"
    /\ book' = [book EXCEPT ![r] = optIn]
    /\ GoesTo(r, "read")
    /\ UNCHANGED <<op, asked, seen, of, optIn, id, status, links, mailed, left, history>>

\* addOrUpdateContact: contact.findUnique by the address.
ReadExisting(r) ==
    /\ pc[r] = "read"
    /\ seen' = [seen EXCEPT ![r] = status]
    /\ GoesTo(r, "write")
    /\ UNCHANGED <<op, asked, book, of, optIn, id, status, links, mailed, left, history>>

\* Mutant: an explicit "yes" of a new contact is taken as its confirmation.
CreatedAsAsked(r) ==
    IF asked[r] = "no" THEN "left"
    ELSE IF book[r] /\ seen[r] = "none" /\ asked[r] = "unset" THEN "pending" ELSE "subscribed"

\* The create of the upsert: pending only if no contact was read.
Created(r) ==
    IF asked[r] = "no" THEN "left"
    ELSE IF book[r] /\ seen[r] = "none" THEN "pending" ELSE "subscribed"

\* Mutant: "yes" is written whatever was read.
UpdatedAsAsked(r) ==
    IF asked[r] = "no" THEN "left" ELSE IF asked[r] = "yes" THEN "subscribed" ELSE status

\* Its update: no write of "yes" if the contact that was read was not subscribed.
Updated(r) ==
    IF asked[r] = "no" THEN "left"
    ELSE IF asked[r] = "yes" /\ seen[r] \in {"none", "subscribed"} THEN "subscribed"
    ELSE status

Confirms(r) == book[r] /\ asked[r] # "no" /\ seen[r] \in {"none", "pending"}

\* addOrUpdateContact: the upsert, by what was read before.
Upsert(r) ==
    /\ pc[r] = "write" /\ op[r] = "add"
    /\ \/ /\ status = "none" /\ id < MaxRows
          /\ id' = id + 1
          /\ Becomes(r, Created(r))
       \/ status # "none" /\ Becomes(r, Updated(r)) /\ UNCHANGED id
    /\ of' = [of EXCEPT ![r] = id']
    /\ GoesTo(r, IF Confirms(r) THEN "mail" ELSE "done")
    /\ UNCHANGED <<op, asked, book, seen, optIn, links, mailed, left, confirmed>>

\* sendDoubleOptInConfirmationEmail, for an existing row of a book that (still) has
\* double opt-in; an add swallows its error.
SendConfirmation(r) ==
    /\ pc[r] = "mail"
    /\ \/ of[r] = id /\ status # "none" /\ optIn /\ links' = links \cup {id}
       \/ ~(of[r] = id /\ status # "none" /\ optIn) /\ UNCHANGED links
       \/ "mail" \in Faults /\ UNCHANGED links
    /\ GoesTo(r, "done")
    /\ UNCHANGED <<op, asked, book, seen, of, optIn, id, status, mailed, left, history>>

-----------------------------------------------------------------------------
\* The contact with id i as a query finds it.
Found(i) == IF i = id THEN status ELSE "none"

\* The ids a request may name: a page shows them, a link carries them; a bounce
\* looks the address up.
Names(r) ==
    CASE op[r] \in {"update", "delete", "resend"} -> 1..id
      [] op[r] = "confirm" -> links
      [] op[r] \in {"leave", "rejoin"} -> mailed
      [] op[r] = "bounce" -> {i \in {id} : status # "none"}
      [] OTHER -> {}

\* Whether a request that found s writes, or mails, at all.
Proceeds(r, s) ==
    CASE op[r] \in {"update", "delete"} -> s # "none"
      [] op[r] \in {"resend", "confirm"} -> s = "pending"
      [] op[r] \in {"leave", "bounce"} -> s = "subscribed"
      [] op[r] = "rejoin" -> s \in {"pending", "left"}
      [] OTHER -> FALSE

\* The read of a request that names a contact, and its checks.
ReadNamed(r) ==
    /\ pc[r] = "new"
    /\ \E i \in Names(r) :
          /\ of' = [of EXCEPT ![r] = i]
          /\ seen' = [seen EXCEPT ![r] = Found(i)]
          /\ GoesTo(r, IF ~Proceeds(r, Found(i)) THEN "done"
                       ELSE IF op[r] = "resend" THEN "mail" ELSE "write")
          /\ confirmed' = IF op[r] = "confirm" THEN confirmed \cup {i} ELSE confirmed
    /\ UNCHANGED <<op, asked, book, optIn, id, status, links, mailed, left, overlap, back, waived>>

\* What a request that named a contact writes.
Written(r) ==
    CASE op[r] = "update" /\ asked[r] = "unset" -> status
      [] op[r] = "update" /\ asked[r] = "no" -> "left"
      [] op[r] = "delete" -> "none"
      [] op[r] \in {"leave", "bounce"} -> "left"
      [] OTHER -> "subscribed"

\* The campaign counts those who leave or come back by its links, and a bounce of
\* its own mail, not that of the address in another book.
AfterWrite(r) ==
    CASE op[r] \in {"leave", "rejoin"} -> {"count"}
      [] op[r] = "bounce" -> {"count", "done"}
      [] OTHER -> {"done"}

\* Its update or delete by id, which rejects when the row is gone.
WriteNamed(r) ==
    /\ pc[r] = "write" /\ op[r] # "add"
    /\ \/ /\ of[r] = id /\ status # "none"
          /\ Becomes(r, Written(r))
          /\ \E point \in AfterWrite(r) : GoesTo(r, point)
       \/ ~(of[r] = id /\ status # "none") /\ GoesTo(r, "done") /\ UNCHANGED <<status, overlap, back, waived>>
    /\ UNCHANGED <<op, asked, book, seen, of, optIn, id, links, mailed, left, confirmed>>

\* The campaign's counter.
CountLeft(r) ==
    /\ pc[r] = "count"
    /\ left' = IF op[r] = "rejoin" THEN left - 1 ELSE left + 1
    /\ GoesTo(r, "done")
    /\ UNCHANGED <<op, asked, book, seen, of, optIn, id, status, links, mailed, history>>

\* A handler or job dies, or a call of it rejects: what it had left is not done.
Stops(r) ==
    /\ "stop" \in Faults
    /\ pc[r] \notin {"new", "done"}
    /\ GoesTo(r, "done")
    /\ UNCHANGED <<op, asked, book, seen, of, optIn, id, status, links, mailed, left, history>>

-----------------------------------------------------------------------------
\* updateContactBook.
SwitchOptIn ==
    /\ "optin" \in Changes
    /\ optIn' = ~optIn
    /\ UNCHANGED <<request, id, status, links, mailed, left, history>>

\* A campaign mails the contact.
CampaignMails ==
    /\ status = "subscribed"
    /\ mailed' = mailed \cup {id}
    /\ UNCHANGED <<request, optIn, id, status, links, left, history>>

\* The 7 days of a link are over.
LinkExpires ==
    /\ \E i \in links : links' = links \ {i}
    /\ UNCHANGED <<request, optIn, id, status, mailed, left, history>>

Request(r) ==
    \/ ReadBook(r) \/ ReadExisting(r) \/ Upsert(r) \/ SendConfirmation(r)
    \/ ReadNamed(r) \/ WriteNamed(r) \/ CountLeft(r) \/ Stops(r)

Next == (\E r \in Requests : Request(r)) \/ SwitchOptIn \/ CampaignMails \/ LinkExpires

Spec == Init /\ [][Next]_vars

-----------------------------------------------------------------------------
Statuses == {"none", "subscribed", "pending", "left"}
Points == {"new", "read", "write", "mail", "count", "done"}

\* The variables have their types; links and mails are for rows that existed.
TypeOK ==
    /\ op \in [Requests -> Ops]
    /\ asked \in [Requests -> Answers]
    /\ pc \in [Requests -> Points]
    /\ book \in [Requests -> BOOLEAN]
    /\ seen \in [Requests -> Statuses]
    /\ of \in [Requests -> 0..MaxRows]
    /\ optIn \in BOOLEAN
    /\ id \in 0..MaxRows
    /\ status \in Statuses
    /\ links \in SUBSET (1..id)
    /\ mailed \in SUBSET (1..id)
    /\ left \in Int
    /\ confirmed \in SUBSET (1..id)
    /\ overlap \in SUBSET Requests
    /\ back \in SUBSET Requests
    /\ waived \in SUBSET (1..id)
    /\ id = 0 => status = "none"

\* A contact that left is brought back by an add or a confirmation link only if that
\* request had read the contact when it left and had not written yet: one that
\* starts later never does, whatever it asks for.
OnlyOverlapBringsBack == back \subseteq overlap

\* Its inductive form: an add or a confirmation about to subscribe a contact that
\* has left was there when it left.
StaleWriters ==
    \A r \in Requests :
        /\ pc[r] = "read" => op[r] = "add"
        /\ pc[r] = "write" /\ op[r] = "confirm" => seen[r] = "pending"
        /\ pc[r] = "write" /\ status = "left" /\ op[r] = "add" /\ seen[r] # "left" => r \in overlap
        /\ pc[r] = "write" /\ status = "left" /\ op[r] = "confirm" /\ of[r] = id => r \in overlap

\* A contact is subscribed only after its own confirmation link was used, unless the
\* team subscribed it, or an add that found double opt-in off or no longer found the
\* contact as it had read it; whoever else writes, in whatever order, never skips the
\* link, and neither do the links of campaigns (addOrUpdateContact, subscribeContact).
SubscribedWasAsked == status = "subscribed" => id \in confirmed \cup waived

\* Its inductive form: the link of a confirmation was used, and campaigns mail only
\* contacts that used theirs, or did not have to.
LinksAreUsed ==
    /\ SubscribedWasAsked
    /\ mailed \subseteq confirmed \cup waived
    /\ \A r \in Requests :
          /\ pc[r] = "read" => op[r] = "add"
          /\ pc[r] = "write" => op[r] # "resend"
          /\ pc[r] = "write" /\ op[r] \in {"confirm", "rejoin"} => of[r] \in confirmed \cup waived

=============================================================================
