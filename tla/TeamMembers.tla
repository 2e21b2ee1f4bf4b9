---------------------------- MODULE TeamMembers ----------------------------
(***************************************************************************)
(* The members and invitations of one team (team-service.ts and the        *)
(* invitation router), composed with its plan: the member limit is that of *)
(* the cached team.  A user and the address an invitation is for are one   *)
(* value; whoever has an invitation's link may accept it.                  *)
(*                                                                         *)
(* One action per await.  Not in the model: passwords, mails of an         *)
(* invitation (their failure leaves the row as it is) and users of other   *)
(* teams.                                                                  *)
(***************************************************************************)
EXTENDS TeamPlan

CONSTANTS
    Users,
    MaxInvites      \* bound: invitations ever made

ASSUME TeamAssumption ==
    /\ IsFiniteSet(Users)
    /\ Customers \cap {"none"} = {}
    /\ MaxInvites \in Nat

VARIABLES
    role,       \* each user's role in the team, "none" for no member
    invites,    \* rows of TeamInvite: [id, email, role]
    lastId,     \* id of the last invitation
    work,       \* what each request is about: [user, role, id]
    seen,       \* the role of the member it read
    shaky,      \* history: removals whose reads an admin's coming or going has overtaken
    headless,   \* history: one of those took an admin away
    joined,     \* history: who joined by which invitation
    leaked      \* history: invitations accepted by two at once, or left behind by a stop

members == <<role, invites, lastId, work, seen, shaky, headless, joined, leaked>>
rows == <<role, invites, lastId>>
vars == <<planVars, members>>

NoWork == [user |-> "none", role |-> "none", id |-> 0]
Admins == {u \in Users : role[u] = "ADMIN"}
Members == {u \in Users : role[u] # "none"}
Roles == {"MEMBER", "ADMIN"}

\* Any team that has an admin.
Init ==
    /\ PlanInit
    /\ role \in [Users -> Roles \cup {"none"}] /\ Admins # {}
    /\ invites = {} /\ lastId = 0
    /\ work = [r \in Requests |-> NoWork]
    /\ seen = [r \in Requests |-> "none"]
    /\ shaky = {} /\ headless = FALSE /\ joined = {} /\ leaked = {}

\* A request that ends forgets what it was about.
Leaves(r) ==
    /\ Ends(r)
    /\ work' = [work EXCEPT ![r] = NoWork]
    /\ seen' = [seen EXCEPT ![r] = "none"]
    /\ shaky' = shaky \ {r}

Plain == <<team, stripes, saved, asks, stops>>
Locals == <<mix, op, then, hand, who, ans>>

\* u's role becomes s, written by r: removals that read before it are shaky.
Becomes(r, u, s) ==
    /\ role' = [role EXCEPT ![u] = s]
    /\ shaky' = IF (role[u] = "ADMIN") # (s = "ADMIN")
                THEN (shaky \cup {q \in Requests : at[q] \in {"admins", "write"}}) \ {r}
                ELSE shaky \ {r}
    /\ headless' = (headless \/ (r \in shaky /\ role[u] = "ADMIN" /\ s # "ADMIN"))

-----------------------------------------------------------------------------
(***************************************************************************)
(* Requests and who may make them: admins, and members for themselves.     *)
(***************************************************************************)
Asked(r, o, point, w) ==
    /\ Begins(r, o, point)
    /\ work' = [work EXCEPT ![r] = w]
    /\ UNCHANGED <<hand, who, ans, team, stripes, saved, stops,
                   rows, seen, shaky, headless, joined, leaked>>

\* createTeamInvite, by an admin.
AskInvite(r) ==
    /\ Admins # {}
    /\ \E u \in Users, s \in Roles :
          Asked(r, "invite", "cache", [user |-> u, role |-> s, id |-> 0])
    /\ then' = [then EXCEPT ![r] = "count"]

\* createPasswordMember, by an admin: user.findUnique with its memberships.
AskPassword(r) ==
    /\ Admins # {}
    /\ \E u \in Users, s \in Roles :
          Asked(r, "password", IF role[u] = "none" THEN "cache" ELSE "purge",
                [user |-> u, role |-> s, id |-> 0])
    /\ then' = [then EXCEPT ![r] = "count"]

\* updateTeamUserRole, by an admin.
AskRole(r) ==
    /\ Admins # {}
    /\ \E u \in Users, s \in Roles : Asked(r, "setRole", "find", [user |-> u, role |-> s, id |-> 0])
    /\ UNCHANGED then

\* deleteTeamUser, by an admin or the member.
AskRemove(r) ==
    /\ \E u \in Users :
          /\ Admins # {} \/ u \in Members
          /\ Asked(r, "remove", "find", [user |-> u, role |-> "none", id |-> 0])
    /\ UNCHANGED then

\* acceptTeamInvite, by whoever has the link.
AskAccept(r) ==
    /\ \E u \in Users, i \in 1..lastId :
          Asked(r, "accept", "invite", [user |-> u, role |-> "none", id |-> i])
    /\ UNCHANGED then

\* deleteTeamInvite, by an admin.
AskRevoke(r) ==
    /\ Admins # {}
    /\ \E i \in 1..lastId : Asked(r, "revoke", "invite", [user |-> "none", role |-> "none", id |-> i])
    /\ UNCHANGED then

-----------------------------------------------------------------------------
\* checkTeamMemberLimit: teamUser.count against the cached plan's limit, FREE's one
\* member; an invitation then looks the user up and refuses a member.
CountMembers(r) ==
    /\ at[r] = "count"
    /\ LET free == hand[r] = "FREE" /\ Cardinality(Members) >= 1
           taken == op[r] = "invite" /\ role[work[r].user] # "none" IN
       \/ /\ free \/ taken
          /\ Leaves(r)
          /\ UNCHANGED <<rows, headless, joined, leaked>>
       \/ /\ ~free /\ ~taken
          /\ GoesTo(r, IF op[r] = "invite" THEN "create" ELSE "add")
          /\ UNCHANGED <<Locals, members>>
    /\ UNCHANGED Plain

\* teamInvite.create: one per address.  Its mail is not modelled.
CreateInvite(r) ==
    /\ at[r] = "create"
    /\ LET u == work[r].user IN
       \/ /\ ~\E i \in invites : i.email = u
          /\ lastId < MaxInvites
          /\ lastId' = lastId + 1
          /\ invites' = invites \cup {[id |-> lastId + 1, email |-> u, role |-> work[r].role]}
       \/ (\E i \in invites : i.email = u) /\ UNCHANGED <<invites, lastId>>
    /\ Leaves(r)
    /\ UNCHANGED <<Plain, role, headless, joined, leaked>>

\* createPasswordMember: teamUser.create, unless the user has become a member.
AddMember(r) ==
    /\ at[r] = "add"
    /\ LET u == work[r].user IN
       \/ /\ role[u] = "none"
          /\ Becomes(r, u, work[r].role)
          /\ GoesTo(r, "purge")
          /\ UNCHANGED <<Locals, work, seen>>
       \/ role[u] # "none" /\ Leaves(r) /\ UNCHANGED <<role, headless>>
    /\ UNCHANGED <<Plain, invites, lastId, joined, leaked>>

\* Its teamInvite.deleteMany of the address.
PurgeInvites(r) ==
    /\ at[r] = "purge"
    /\ invites' = {i \in invites : i.email # work[r].user}
    /\ Leaves(r)
    /\ UNCHANGED <<Plain, role, lastId, headless, joined, leaked>>

-----------------------------------------------------------------------------
\* updateTeamUserRole and deleteTeamUser: teamUser.findFirst.
FindMember(r) ==
    /\ at[r] = "find"
    /\ LET u == work[r].user IN
       \/ role[u] = "none" /\ Leaves(r)
       \/ /\ role[u] # "none"
          /\ seen' = [seen EXCEPT ![r] = role[u]]
          /\ GoesTo(r, "admins")
          /\ UNCHANGED <<Locals, work, shaky>>
    /\ UNCHANGED <<Plain, rows, headless, joined, leaked>>

\* Mutant: the count is compared with none, not with one.
CountNone(r) ==
    /\ at[r] = "admins"
    /\ \/ Cardinality(Admins) = 0 /\ seen[r] = "ADMIN" /\ Leaves(r)
       \/ /\ ~(Cardinality(Admins) = 0 /\ seen[r] = "ADMIN")
          /\ GoesTo(r, "write")
          /\ UNCHANGED <<Locals, work, seen, shaky>>
    /\ UNCHANGED <<Plain, rows, headless, joined, leaked>>

\* Their teamUser.count of the admins: the last one stays.
CountAdmins(r) ==
    /\ at[r] = "admins"
    /\ \/ Cardinality(Admins) = 1 /\ seen[r] = "ADMIN" /\ Leaves(r)
       \/ /\ ~(Cardinality(Admins) = 1 /\ seen[r] = "ADMIN")
          /\ GoesTo(r, "write")
          /\ UNCHANGED <<Locals, work, seen, shaky>>
    /\ UNCHANGED <<Plain, rows, headless, joined, leaked>>

\* teamUser.update or delete by team and user, whatever the row has become.
WriteMember(r) ==
    /\ at[r] = "write"
    /\ LET u == work[r].user IN
       \/ /\ role[u] # "none"
          /\ Becomes(r, u, work[r].role)
          /\ GoesTo(r, "invalidate")
          /\ UNCHANGED <<Locals, work, seen>>
       \/ role[u] = "none" /\ Leaves(r) /\ UNCHANGED <<role, headless>>
    /\ UNCHANGED <<Plain, invites, lastId, joined, leaked>>

-----------------------------------------------------------------------------
\* Requests that found the invitation i and have it to use or to delete.
Using(i) == {q \in Requests : at[q] \in {"join", "consume"} /\ work[q].id = i}

\* acceptTeamInvite and deleteTeamInvite: teamInvite.find by the id.
FindInvite(r) ==
    /\ at[r] = "invite"
    /\ LET id == work[r].id IN
       \/ (\A i \in invites : i.id # id) /\ Leaves(r) /\ UNCHANGED leaked
       \/ \E i \in invites :
             /\ i.id = id
             /\ work' = [work EXCEPT ![r] = [user |-> IF op[r] = "revoke" THEN i.email ELSE @.user,
                                             role |-> i.role, id |-> id]]
             /\ GoesTo(r, IF op[r] = "revoke" THEN "purge" ELSE "join")
             /\ leaked' = IF op[r] = "accept" /\ Using(id) # {} THEN leaked \cup {id} ELSE leaked
             /\ UNCHANGED <<Locals, seen, shaky>>
    /\ UNCHANGED <<Plain, rows, headless, joined>>

\* teamUser.create with the invitation's role, unless the user is a member.
Join(r) ==
    /\ at[r] = "join"
    /\ LET u == work[r].user IN
       \/ /\ role[u] = "none"
          /\ Becomes(r, u, work[r].role)
          /\ joined' = joined \cup {<<work[r].id, u>>}
          /\ GoesTo(r, "consume")
          /\ UNCHANGED <<Locals, work, seen>>
       \/ role[u] # "none" /\ Leaves(r) /\ UNCHANGED <<role, headless, joined>>
    /\ UNCHANGED <<Plain, invites, lastId, leaked>>

\* Mutant: the accepted invitation stays.
KeepInvite(r) ==
    /\ at[r] = "consume"
    /\ Leaves(r)
    /\ UNCHANGED <<Plain, rows, headless, joined, leaked>>

\* teamInvite.delete by the id.
ConsumeInvite(r) ==
    /\ at[r] = "consume"
    /\ invites' = {i \in invites : i.id # work[r].id}
    /\ Leaves(r)
    /\ UNCHANGED <<Plain, role, lastId, headless, joined, leaked>>

-----------------------------------------------------------------------------
\* A handler stops: an accepted invitation that it had to delete is left behind.
MemberStops(r) ==
    /\ Stops(r)
    /\ leaked' = IF at[r] = "consume" THEN leaked \cup {work[r].id} ELSE leaked
    /\ work' = [work EXCEPT ![r] = NoWork]
    /\ seen' = [seen EXCEPT ![r] = "none"]
    /\ shaky' = shaky \ {r}
    /\ UNCHANGED <<rows, headless, joined>>

\* The plan's steps; a request that InvalidateCache ends forgets its work.
PlanStep(r) ==
    /\ PlanSteps(r)
    /\ work' = [work EXCEPT ![r] = IF at'[r] = "idle" THEN NoWork ELSE @]
    /\ seen' = [seen EXCEPT ![r] = IF at'[r] = "idle" THEN "none" ELSE @]
    /\ UNCHANGED <<rows, shaky, headless, joined, leaked>>

MemberAsks(r) ==
    AskInvite(r) \/ AskPassword(r) \/ AskRole(r) \/ AskRemove(r) \/ AskAccept(r) \/ AskRevoke(r)
MemberSteps(r) ==
    \/ CountMembers(r) \/ CreateInvite(r) \/ AddMember(r) \/ PurgeInvites(r)
    \/ FindMember(r) \/ CountAdmins(r) \/ WriteMember(r)
    \/ FindInvite(r) \/ Join(r) \/ ConsumeInvite(r)

Next ==
    \/ \E r \in Requests : PlanStep(r) \/ MemberSteps(r) \/ MemberAsks(r) \/ MemberStops(r)
    \/ (CacheExpires \/ Stripe \/ \E r \in Requests : Asks(r)) /\ UNCHANGED members

Spec == Init /\ [][Next]_vars

-----------------------------------------------------------------------------
Points == PlanPoints \cup {"count", "create", "add", "purge", "find", "admins", "write",
                           "invite", "join", "consume"}

TypeOK ==
    /\ PlanTypeOK
    /\ op \in [Requests -> {"none", "limit", "admin", "checkout", "sync", "invite", "password",
                            "setRole", "remove", "accept", "revoke"}]
    /\ at \in [Requests -> Points] /\ then \in [Requests -> Points]
    /\ role \in [Users -> Roles \cup {"none"}]
    /\ lastId \in Nat
    /\ invites \subseteq [id : 1..lastId, email : Users, role : Roles]
    /\ work \in [Requests -> [user : Users \cup {"none"}, role : Roles \cup {"none"}, id : Nat]]
    /\ seen \in [Requests -> Roles \cup {"none"}]
    /\ shaky \subseteq Requests /\ headless \in BOOLEAN
    /\ joined \subseteq Nat \X Users /\ leaked \subseteq Nat

\* "Need at least one admin": the team keeps an admin unless a removal or a change of
\* role took one away after another request had changed the admins since its reads
\* (the count and the member's own role are read before the write, with no lock).
OnlyOverlapTakesLastAdmin == Admins = {} => headless

\* An invitation admits one user, unless two accepted it at once or the first accept
\* stopped between the new member and the invitation's deletion.
InviteAdmitsOne ==
    \A i \in 1..lastId : Cardinality({u \in Users : <<i, u>> \in joined}) > 1 => i \in leaked

=============================================================================
