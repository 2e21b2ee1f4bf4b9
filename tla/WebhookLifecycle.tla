-------------------------- MODULE WebhookLifecycle --------------------------
(***************************************************************************)
(* What the webhook queue promises for a call that is not excused: the     *)
(* status machine of the call's row.  An attempt is numbered one above the *)
(* last, an attempt that ends leaves the call in a status of its own, and  *)
(* the final statuses are never left.  Where writes may be lost an attempt *)
(* may leave no trace, and a final status still holds.  WebhookDispatch    *)
(* implements it, whatever its slots, locks and producers do between two   *)
(* of these steps and whatever becomes of the excused calls.               *)
(***************************************************************************)
EXTENDS Naturals

CONSTANTS Calls, MaxAttempts

VARIABLES
    status, attempt,
    excused,    \* the calls that need not follow it any more
    lossy       \* writes of a row may be lost

lifecycleVars == <<status, attempt, excused, lossy>>

Statuses == {"none", "PENDING", "IN_PROGRESS", "DELIVERED", "FAILED", "DISCARDED", "deleted"}

Init ==
    /\ status = [c \in Calls |-> "none"]
    /\ attempt = [c \in Calls |-> 0]
    /\ excused \in SUBSET Calls
    /\ lossy \in BOOLEAN

Moves(c, from, to) ==
    /\ status[c] = from
    /\ status' = [status EXCEPT ![c] = to]
    /\ UNCHANGED <<excused, lossy>>

Create(c) == Moves(c, "none", "PENDING") /\ UNCHANGED attempt

\* The next attempt starts, or finds the webhook inactive: the code discards a call that
\* is still PENDING, where webhook-architecture.md draws DISCARDED after IN_PROGRESS.
NextAttempt(c) ==
    /\ attempt[c] < MaxAttempts
    /\ attempt' = [attempt EXCEPT ![c] = @ + 1]
Start(c) == Moves(c, "PENDING", "IN_PROGRESS") /\ NextAttempt(c)
Discard(c) == Moves(c, "PENDING", "DISCARDED") /\ NextAttempt(c)

\* An attempt starts after some of which the row shows less than all.
StartLate(c) ==
    /\ lossy
    /\ \E n \in attempt[c] + 1..MaxAttempts : attempt' = [attempt EXCEPT ![c] = n]
    /\ \E from \in {"PENDING", "IN_PROGRESS"}, to \in {"IN_PROGRESS", "DISCARDED"} :
          Moves(c, from, to)

\* The attempt ends: delivered, failed for good, or to be tried again.
Deliver(c) == Moves(c, "IN_PROGRESS", "DELIVERED") /\ UNCHANGED attempt
Fail(c) ==
    /\ attempt[c] = MaxAttempts
    /\ Moves(c, "IN_PROGRESS", "FAILED")
    /\ UNCHANGED attempt
TryAgain(c) == Moves(c, "IN_PROGRESS", "PENDING") /\ UNCHANGED attempt

\* The row goes with its webhook or with the retention job, in any status, and
\* possibly with others.
Delete(C) ==
    /\ \A c \in C : status[c] \notin {"none", "deleted"}
    /\ status' = [c \in Calls |-> IF c \in C THEN "deleted" ELSE status[c]]
    /\ attempt' = [c \in Calls |-> IF c \in C THEN 0 ELSE attempt[c]]
    /\ UNCHANGED <<excused, lossy>>

\* The call is excused, and its row is whatever it becomes.
Slip(c) ==
    /\ excused' = excused \cup {c}
    /\ \E s \in Statuses, n \in 0..MaxAttempts :
          /\ status' = [status EXCEPT ![c] = s]
          /\ attempt' = [attempt EXCEPT ![c] = n]
    /\ UNCHANGED lossy

Next ==
    \/ \E c \in Calls :
        \/ Create(c) \/ Start(c) \/ Discard(c) \/ StartLate(c)
        \/ Deliver(c) \/ Fail(c) \/ TryAgain(c)
        \/ Slip(c)
    \/ \E C \in SUBSET Calls : Delete(C)

Spec == Init /\ [][Next]_lifecycleVars
=============================================================================
