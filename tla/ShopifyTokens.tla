---------------------------- MODULE ShopifyTokens ----------------------------
(***************************************************************************)
(* The token set of one Shopify store: shopify-token-service.ts, and the   *)
(* install, disconnect and uninstall handlers of shopify-service.ts that   *)
(* write the same row.  ShopifyMarketing composes it with the handlers     *)
(* that ask for a client.                                                  *)
(*                                                                         *)
(* Token sets are numbered in the order Shopify hands them out; 0 is the   *)
(* access token of a store installed before refresh tokens.  One action    *)
(* per await on the database or Shopify.  refreshLocks is a Map of one     *)
(* process: lock[q] is the handler whose promise it holds.                 *)
(***************************************************************************)
EXTENDS Naturals, FiniteSets

CONSTANTS
    Handlers,       \* requests and runs in flight
    Mixes,          \* sets of what may happen in one behaviour, see mix
    MaxAsks,        \* bound: handlers ever begun
    MaxIssued,      \* bound: token sets Shopify hands out
    MaxFaults       \* bound: errors and stopped processes

\* refreshLocks.get gives a promise or nothing; a store has a first token set.
ASSUME TokensAssumption == "free" \notin Handlers /\ MaxIssued \in Nat \ {0}

VARIABLES
    mix,        \* of this behaviour: the kinds of handlers, and "apart": each of them in
                \* a process of its own, where otherwise they share one
    at,         \* where each handler is
    goal,       \* where it goes once it has a client
    copy,       \* the token set it read or was handed
    active,     \* the store's status is ACTIVE
    token,      \* the token set of its row
    due,        \* its access token ends within the buffer, or has ended
    issued,     \* the newest token set of the store at Shopify
    lock,       \* refreshLocks
    asks, faults,   \* counts for the bounds
    crossed     \* history: two exchanges crossed, or an answered one was not saved

handler == <<mix, at, goal, copy>>
store == <<active, token, due>>
tokenVars == <<handler, store, issued, lock, asks, faults, crossed>>

Processes == Handlers \cup {"web"}
Home(h) == IF "apart" \in mix THEN h ELSE "web"

TokenInit ==
    /\ mix \in Mixes
    /\ at = [h \in Handlers |-> "idle"]
    /\ goal = [h \in Handlers |-> "idle"]
    /\ copy = [h \in Handlers |-> 0]
    /\ active = TRUE /\ due = FALSE
    /\ token \in {1} \cup IF "call" \in mix THEN {0} ELSE {}
    /\ issued = token
    /\ lock = [q \in Processes |-> "free"]
    /\ asks = 0 /\ faults = 0 /\ crossed = FALSE

GoesTo(h, point) == at' = [at EXCEPT ![h] = point]

\* A handler of some kind begins at a point; then is where it wants a client for.
Begins(h, kind, point, then) ==
    /\ at[h] = "idle" /\ kind \in mix /\ asks < MaxAsks
    /\ asks' = asks + 1
    /\ GoesTo(h, point)
    /\ goal' = [goal EXCEPT ![h] = then]
    /\ UNCHANGED <<mix, copy>>

\* Handlers end: they answer, throw or die with their process.
End(H) ==
    /\ at' = [h \in Handlers |-> IF h \in H THEN "idle" ELSE at[h]]
    /\ goal' = [h \in Handlers |-> IF h \in H THEN "idle" ELSE goal[h]]
    /\ copy' = [h \in Handlers |-> IF h \in H THEN 0 ELSE copy[h]]
    /\ UNCHANGED mix

\* Those that fail when h throws: with the promise of the lock, all that await it.
Holds(h) == lock[Home(h)] = h
FailWith(h) ==
    {h} \cup {g \in Handlers : Holds(h) /\ at[g] = "wait" /\ Home(g) = Home(h)}

\* finally: refreshLocks.delete.
Released(h) == IF Holds(h) THEN [lock EXCEPT ![Home(h)] = "free"] ELSE lock

Throws(h) == End(FailWith(h)) /\ lock' = Released(h)

\* Points at which a handler has a token set that is not in the row yet.
Unsaved(h) == at[h] \in {"save", "saveSwap", "saveInstall"}

-----------------------------------------------------------------------------
(***************************************************************************)
(* getClientForStore.                                                      *)
(***************************************************************************)

\* A handler needs a client for something the model does not follow: products and
\* their webhooks, registerWebhooks.
AskClient(h) ==
    /\ Begins(h, "call", "client", "idle")
    /\ UNCHANGED <<store, issued, lock, faults, crossed>>

\* getClientForStore: shopifyStore.findUnique.
ReadStore(h) ==
    /\ at[h] = "client"
    /\ \/ ~active /\ Throws(h)
       \/ active /\ GoesTo(h, IF token = 0 THEN "swap" ELSE "ensure")
          /\ UNCHANGED <<mix, goal, copy, lock>>
    /\ UNCHANGED <<store, issued, asks, faults, crossed>>

\* cycleLegacyTokenIfNeeded: it reads the row again; another may have cycled it.
ReadLegacy(h) ==
    /\ at[h] = "swap"
    /\ \/ ~active /\ Throws(h)
       \/ active /\ GoesTo(h, IF token = 0 THEN "cycle" ELSE "ensure")
          /\ UNCHANGED <<mix, goal, copy, lock>>
    /\ UNCHANGED <<store, issued, asks, faults, crossed>>

\* Shopify hands h a new token set.  Two refreshes of one process cannot cross.
Crosses(g, h) ==
    /\ g # h /\ Unsaved(g)
    /\ Home(g) # Home(h) \/ at[g] # "save" \/ at[h] # "exchange"
Issues(h, point) ==
    /\ issued < MaxIssued
    /\ issued' = issued + 1
    /\ copy' = [copy EXCEPT ![h] = issued + 1]
    /\ GoesTo(h, point)
    /\ crossed' = (crossed \/ \E g \in Handlers : Crosses(g, h))
    /\ UNCHANGED <<mix, goal, lock>>

\* cycleToExpiringOfflineToken; a token that was cycled before may be refused.
CycleLegacy(h) ==
    /\ at[h] = "cycle"
    /\ \/ Issues(h, "saveSwap")
       \/ issued > 0 /\ Throws(h) /\ UNCHANGED <<issued, crossed>>
    /\ UNCHANGED <<store, asks, faults>>

\* ensureValidAccessToken: shopifyStore.findUnique, shouldRefreshAccessToken.
MustRefresh == due /\ token # 0

\* Mutant: no lock in the process.
RefreshAnyway(h) ==
    /\ at[h] = "ensure" /\ active
    /\ GoesTo(h, IF MustRefresh THEN "refresh" ELSE goal[h])
    /\ UNCHANGED <<mix, goal, copy, lock, store, issued, asks, faults, crossed>>

\* refreshStoreToken: the promise of another handler is awaited, or one's own is set.
Ensure(h) ==
    /\ at[h] = "ensure"
    /\ \/ ~active /\ Throws(h)
       \/ active /\ ~MustRefresh /\ GoesTo(h, goal[h]) /\ UNCHANGED <<mix, goal, copy, lock>>
       \/ /\ active /\ MustRefresh
          /\ IF lock[Home(h)] = "free"
             THEN GoesTo(h, "refresh") /\ lock' = [lock EXCEPT ![Home(h)] = h]
             ELSE GoesTo(h, "wait") /\ UNCHANGED lock
          /\ UNCHANGED <<mix, goal, copy>>
    /\ UNCHANGED <<store, issued, asks, faults, crossed>>

\* refreshStoreTokenInternal: shopifyStore.findUnique.
ReadRefresh(h) ==
    /\ at[h] = "refresh"
    /\ \/ (~active \/ token = 0) /\ Throws(h)
       \/ /\ active /\ token # 0
          /\ copy' = [copy EXCEPT ![h] = token]
          /\ GoesTo(h, "exchange")
          /\ UNCHANGED <<mix, goal, lock>>
    /\ UNCHANGED <<store, issued, asks, faults, crossed>>

\* refreshOfflineAccessToken: a refresh token that is not the newest may get 401.
Exchange(h) ==
    /\ at[h] = "exchange"
    /\ \/ Issues(h, "save")
       \/ copy[h] # issued /\ Throws(h) /\ UNCHANGED <<issued, crossed>>
    /\ UNCHANGED <<store, asks, faults>>

\* persistTokenSet, whatever the row holds by now.
Persist(h) == token' = copy[h] /\ due' = FALSE /\ UNCHANGED active

\* The refresh is over: those that await it go on with it, to read the row again.
SaveRefresh(h) ==
    /\ at[h] = "save"
    /\ Persist(h)
    /\ at' = [g \in Handlers |-> IF g \in FailWith(h) THEN "reread" ELSE at[g]]
    /\ lock' = Released(h)
    /\ UNCHANGED <<mix, goal, copy, issued, asks, faults, crossed>>

SaveLegacy(h) ==
    /\ at[h] = "saveSwap"
    /\ Persist(h)
    /\ GoesTo(h, "ensure")
    /\ UNCHANGED <<mix, goal, copy, issued, lock, asks, faults, crossed>>

\* ensureValidAccessToken reads the refreshed row; its status is not checked again.
Reread(h) ==
    /\ at[h] = "reread"
    /\ GoesTo(h, goal[h])
    /\ UNCHANGED <<mix, goal, copy, store, issued, lock, asks, faults, crossed>>

-----------------------------------------------------------------------------
(***************************************************************************)
(* The connection.                                                         *)
(***************************************************************************)

\* handleOAuthCallback, once its checks let it through.
Install(h) ==
    /\ Begins(h, "install", "grant", "idle")
    /\ UNCHANGED <<store, issued, lock, faults, crossed>>

\* exchangeAccessToken.
ExchangeCode(h) ==
    /\ at[h] = "grant"
    /\ Issues(h, "saveInstall")
    /\ UNCHANGED <<store, asks, faults>>

\* shopifyStore.upsert; the sync it schedules is a handler of its own.
SaveInstall(h) ==
    /\ at[h] = "saveInstall"
    /\ active' = TRUE /\ token' = copy[h] /\ due' = FALSE
    /\ End({h})
    /\ UNCHANGED <<issued, lock, asks, faults, crossed>>

\* disconnectStore, markUninstalled.
Disconnect ==
    /\ active /\ "install" \in mix
    /\ active' = FALSE
    /\ UNCHANGED <<handler, token, due, issued, lock, asks, faults, crossed>>

\* The access token comes within SHOPIFY_ACCESS_TOKEN_REFRESH_BUFFER_MS of its end.
TokenAges ==
    /\ "call" \in mix /\ token # 0 /\ ~due
    /\ due' = TRUE
    /\ UNCHANGED <<handler, active, token, issued, lock, asks, faults, crossed>>

-----------------------------------------------------------------------------
\* A call to the database or to Shopify throws.
ClientPoints == {"client", "swap", "cycle", "saveSwap", "ensure", "refresh", "exchange",
                 "save", "reread", "grant", "saveInstall"}

\* Mutant: the promise is deleted only when the refresh succeeds.  Those that await it
\* fail with it, and it stays in the Map.
KeepLock(h) ==
    /\ at[h] \in ClientPoints /\ faults < MaxFaults
    /\ faults' = faults + 1
    /\ crossed' = (crossed \/ Unsaved(h))
    /\ End(FailWith(h)) /\ UNCHANGED lock
    /\ UNCHANGED <<store, issued, asks>>

CallFails(h) ==
    /\ at[h] \in ClientPoints /\ faults < MaxFaults
    /\ faults' = faults + 1
    /\ crossed' = (crossed \/ Unsaved(h))
    /\ Throws(h)
    /\ UNCHANGED <<store, issued, asks>>

\* A process stops, with its handlers and its Map.
At(q) == {h \in Handlers : Home(h) = q}
ProcessStops(q) ==
    /\ faults < MaxFaults /\ \E h \in At(q) : at[h] # "idle"
    /\ faults' = faults + 1
    /\ crossed' = (crossed \/ \E h \in At(q) : Unsaved(h))
    /\ End(At(q))
    /\ lock' = [lock EXCEPT ![q] = "free"]
    /\ UNCHANGED <<store, issued, asks>>

ClientStep(h) ==
    \/ ReadStore(h) \/ ReadLegacy(h) \/ CycleLegacy(h) \/ SaveLegacy(h)
    \/ Ensure(h) \/ ReadRefresh(h) \/ Exchange(h) \/ SaveRefresh(h) \/ Reread(h)
    \/ ExchangeCode(h) \/ SaveInstall(h)

Connection ==
    \/ \E h \in Handlers : AskClient(h) \/ Install(h)
    \/ Disconnect \/ TokenAges

-----------------------------------------------------------------------------
\* Nobody is between an exchange and its save.
Settled == ~\E h \in Handlers : Unsaved(h)

\* The row holds the newest token set, without which Shopify asks the team to
\* reconnect, unless exchanges of two processes, or a refresh and an install or a
\* legacy swap, crossed or an answer was not saved (refreshStoreToken).
TokenIsCurrent == Settled /\ ~crossed => token = issued

\* A promise in refreshLocks is that of a refresh under way in its process, and whoever
\* waits, waits for one: no promise that is settled stays there, to fail every refresh of
\* the process from then on, and none goes while it is awaited (refreshStoreToken).
RefreshesRun ==
    /\ \A q \in Processes : lock[q] # "free" =>
          at[lock[q]] \in {"refresh", "exchange", "save"} /\ Home(lock[q]) = q
    /\ \A h \in Handlers : at[h] = "wait" => lock[Home(h)] # "free"

=============================================================================
