---------------------------- MODULE Idempotency ----------------------------
(***************************************************************************)
(* IdempotencyService.withIdempotency (service/idempotency-service.ts) as  *)
(* the send and batch endpoints use it: the requests of one team with one  *)
(* Idempotency-Key, within the 24 hours a stored result lives.             *)
(*                                                                         *)
(* One action per await.  A payload is its canonical hash; the email a     *)
(* request creates is named by the request.                                *)
(***************************************************************************)
EXTENDS Naturals, FiniteSets

CONSTANTS
    Requests,       \* requests with this key, retries of the client included
    Bodies,         \* canonical payload hashes
    KeyFaults,      \* "crash", "redis", or "slow": an operation over 60 s
    NoRequest       \* no request

Refusals == {"conflict", "busy", "error"}

ASSUME RequestsAssumption ==
    /\ NoRequest \notin Requests
    /\ Requests \cap (Refusals \cup {"none"}) = {}

VARIABLES
    pc,         \* where each request is
    body,       \* its payload hash
    answer,     \* the email it answered with, or "conflict", "busy", "error"
    result,     \* redis idem:<team>:<key>: the request whose email is stored
    lock,       \* redis idemlock:<team>:<key>: set or not
    holder,     \* history: the request that set the lock last
    sent,       \* emails sent, each named by its request
    known,      \* history: the requests answered with an email before r started
    lostBy      \* history: how the lock of a request went before it was done with it

keyVars == <<pc, body, answer, result, lock, holder, sent, known, lostBy>>

KeyInit ==
    /\ pc = [r \in Requests |-> "new"]
    /\ body \in [Requests -> Bodies]
    /\ answer = [r \in Requests |-> "none"]
    /\ result = NoRequest
    /\ lock = FALSE
    /\ holder = NoRequest
    /\ sent = {}
    /\ known = [r \in Requests |-> {}]
    /\ lostBy = [r \in Requests |-> "no"]

KeyGoesTo(r, point) == pc' = [pc EXCEPT ![r] = point]
Answers(r, a) == KeyGoesTo(r, "done") /\ answer' = [answer EXCEPT ![r] = a]

\* A Redis call before the operation rejects: the request fails there.
RedisFails(r) == "redis" \in KeyFaults /\ Answers(r, "error")

\* Mutant: the hashes are not compared.
ReplyUnchecked(r) == result

\* A stored record answers a request: its email for the same payload, else 409.
Reply(r) == IF body[result] = body[r] THEN result ELSE "conflict"

\* The first getResult.
ReadResult(r) ==
    /\ pc[r] = "new"
    /\ known' = [known EXCEPT ![r] = {q \in Requests : pc[q] = "done" /\ answer[q] \in Requests}]
    /\ \/ result # NoRequest /\ Answers(r, Reply(r))
       \/ result = NoRequest /\ KeyGoesTo(r, "lock") /\ UNCHANGED answer
       \/ RedisFails(r)
    /\ UNCHANGED <<body, result, lock, holder, sent, lostBy>>

\* Mutant: SET without NX.
TakeLock(r) ==
    /\ pc[r] = "lock"
    /\ lock' = TRUE
    /\ holder' = r
    /\ KeyGoesTo(r, "run")
    /\ UNCHANGED <<body, answer, result, sent, known, lostBy>>

\* acquireLock: SET key 1 EX 60 NX.  Its reply may be lost after it set the lock: the
\* request fails, or its SET, sent again after a reconnect, finds the lock it set.
AcquireLock(r) ==
    /\ pc[r] = "lock"
    /\ \/ lock /\ KeyGoesTo(r, "again") /\ UNCHANGED <<answer, lock, holder>>
       \/ ~lock /\ lock' = TRUE /\ holder' = r /\ KeyGoesTo(r, "run") /\ UNCHANGED answer
       \/ RedisFails(r) /\ UNCHANGED <<lock, holder>>
       \/ /\ "redis" \in KeyFaults /\ ~lock /\ lock' = TRUE /\ holder' = r
          /\ Answers(r, "error") \/ (KeyGoesTo(r, "again") /\ UNCHANGED answer)
    /\ UNCHANGED <<body, result, sent, known, lostBy>>

\* The lock is taken: getResult again, and 409 "in progress" without a result.
ReadAgain(r) ==
    /\ pc[r] = "again"
    /\ \/ Answers(r, IF result # NoRequest THEN Reply(r) ELSE "busy")
       \/ RedisFails(r)
    /\ UNCHANGED <<body, result, lock, holder, sent, known, lostBy>>

\* operation(): sends the email, or throws, with nothing sent unless the reply of
\* the email queue was lost.
Operate(r) ==
    /\ pc[r] = "run"
    /\ \/ sent' = sent \cup {r} /\ KeyGoesTo(r, "store") /\ UNCHANGED answer
       \/ /\ KeyGoesTo(r, "release")
          /\ answer' = [answer EXCEPT ![r] = "error"]
          /\ UNCHANGED sent \/ ("redis" \in KeyFaults /\ sent' = sent \cup {r})
    /\ UNCHANGED <<body, result, lock, holder, known, lostBy>>

\* Mutant: the result is not stored.
ForgetResult(r) ==
    /\ pc[r] = "store"
    /\ answer' = [answer EXCEPT ![r] = r]
    /\ KeyGoesTo(r, "release")
    /\ UNCHANGED <<body, result, lock, holder, sent, known, lostBy>>

\* setResult; when Redis fails the request throws although its email was sent.
StoreResult(r) ==
    /\ pc[r] = "store"
    /\ \/ result' = r /\ answer' = [answer EXCEPT ![r] = r]
       \/ "redis" \in KeyFaults /\ answer' = [answer EXCEPT ![r] = "error"] /\ UNCHANGED result
    /\ KeyGoesTo(r, "release")
    /\ UNCHANGED <<body, lock, holder, sent, known, lostBy>>

InOperation(r) == pc[r] \in {"run", "store", "release"}
Loses(r, how) == lostBy' = [lostBy EXCEPT ![r] = how]

\* The lock r deletes was set by another request, which still needs it.
NotItsOwn(r) == lock /\ holder # r /\ InOperation(holder)

Deletes(r) ==
    /\ lock' = FALSE
    /\ IF NotItsOwn(r) THEN Loses(holder, "deleted") ELSE UNCHANGED lostBy

\* finally: DEL of the lock, whoever set it.  When it rejects, its error replaces
\* the answer; when its reply is lost it may be sent again after a reconnect.
ReleaseLock(r) ==
    /\ pc[r] = "release"
    /\ \/ Deletes(r) /\ KeyGoesTo(r, "done") /\ UNCHANGED answer
       \/ Deletes(r) /\ RedisFails(r)
       \/ UNCHANGED <<lock, lostBy>> /\ RedisFails(r)
       \/ /\ "redis" \in KeyFaults
          /\ lock /\ lock' = FALSE
          /\ IF NotItsOwn(r) THEN Loses(holder, "deleted") ELSE Loses(r, "resent")
          /\ UNCHANGED <<pc, answer>>
    /\ UNCHANGED <<body, result, holder, sent, known>>

\* The process dies; its lock stays until its TTL.
KeyCrash(r) ==
    /\ "crash" \in KeyFaults
    /\ pc[r] \notin {"new", "done"}
    /\ Answers(r, "error")
    /\ UNCHANGED <<body, result, lock, holder, sent, known, lostBy>>

\* Mutant: the lock is set without EX.
NoExpiry == lock /\ UNCHANGED keyVars

\* The lock's 60 s run out; under a live holder only if the operation is slow.
LockExpires ==
    /\ lock
    /\ "slow" \in KeyFaults \/ ~InOperation(holder)
    /\ lock' = FALSE
    /\ IF InOperation(holder) THEN Loses(holder, "ttl") ELSE UNCHANGED lostBy
    /\ UNCHANGED <<pc, body, answer, result, holder, sent, known>>

Step(r) ==
    \/ ReadResult(r) \/ AcquireLock(r) \/ ReadAgain(r)
    \/ Operate(r) \/ StoreResult(r) \/ ReleaseLock(r)

\* All requests are answered and the lock is gone.
Done ==
    /\ \A r \in Requests : pc[r] = "done"
    /\ ~lock
    /\ UNCHANGED keyVars

KeyNext ==
    \/ \E r \in Requests : Step(r) \/ KeyCrash(r)
    \/ LockExpires
    \/ Done

KeySpec == KeyInit /\ [][KeyNext]_keyVars

\* A request that started runs on; the key's TTL passes.
KeyFairSpec ==
    /\ KeySpec
    /\ \A r \in Requests : WF_keyVars(pc[r] # "new" /\ Step(r))
    /\ WF_keyVars(LockExpires)

-----------------------------------------------------------------------------
KeyPoints == {"new", "lock", "again", "run", "store", "release", "done"}

\* The variables have their types; only sent emails are stored or answered.
KeyTypeOK ==
    /\ pc \in [Requests -> KeyPoints]
    /\ body \in [Requests -> Bodies]
    /\ answer \in [Requests -> Requests \cup Refusals \cup {"none"}]
    /\ result \in Requests \cup {NoRequest}
    /\ lock \in BOOLEAN
    /\ holder \in Requests \cup {NoRequest}
    /\ sent \in SUBSET Requests
    /\ known \in [Requests -> SUBSET Requests]
    /\ lostBy \in [Requests -> {"no", "ttl", "resent", "deleted"}]

\* Two operations of one key overlap only if one of the two runs on without its lock,
\* and a request has its lock deleted by another one (releaseLock looks at no token)
\* only after some operation outlived the lock's 60 s or a DEL was sent twice.
OneOperation ==
    /\ \A r, q \in Requests : InOperation(r) /\ InOperation(q) /\ r # q =>
          lostBy[r] # "no" \/ lostBy[q] # "no"
    /\ (\E r \in Requests : lostBy[r] = "deleted") =>
          \E q \in Requests : lostBy[q] \in {"ttl", "resent"}

\* Its inductive form: a request in its operation that did not lose the lock set it,
\* and only such a request is the holder of a lock that is set.
HolderOperates ==
    /\ OneOperation
    /\ \A r \in Requests :
          /\ InOperation(r) /\ lostBy[r] = "no" => lock /\ holder = r
          /\ pc[r] \in {"new", "lock"} => lostBy[r] = "no"
    /\ lock => holder \in Requests /\ (InOperation(holder) => lostBy[holder] = "no")

\* A client that repeats a request it got an answer for sends nothing: whatever
\* crashes in between, a request that starts after an email was answered for
\* this key never sends one.
RetrySendsNothing == \A r \in sent : known[r] = {}

\* Its inductive form: an answered email is stored, so that a request past its
\* first read saw none answered.
AnswersAreStored ==
    /\ \A q \in Requests : answer[q] \in Requests => result # NoRequest
    /\ \A r \in Requests : pc[r] \in {"lock", "run", "store"} => known[r] = {}
    /\ \A r \in sent : pc[r] # "new"
    /\ RetrySendsNothing

\* An answered email was sent, and for the payload the request carries.
AnswerMatches ==
    \A r \in Requests : answer[r] \in Requests =>
        answer[r] \in sent /\ body[answer[r]] = body[r]

\* Its inductive form: what is stored, or about to be, was sent.
StoredWasSent ==
    /\ result # NoRequest => result \in sent
    /\ \A r \in Requests : pc[r] = "store" => r \in sent
    /\ AnswerMatches

\* A lock left by a crash does not block the key for ever.
LockIsReturned == lock ~> ~lock

\* "Same key + same request body -> returns the original emailId with 200 OK
\* without re-sending": one email at most is sent for the key.
SentOnce == Cardinality(sent) <= 1

=============================================================================
