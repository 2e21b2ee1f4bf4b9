---------------------- MODULE DomainVerificationProofs ----------------------
(***************************************************************************)
(* Theorems about DomainVerification, for every set of requests and every  *)
(* bound.                                                                  *)
(***************************************************************************)
EXTENDS DomainVerification, TLAPS

-----------------------------------------------------------------------------
(***************************************************************************)
(* Types, and the numbers of rows and keys.                                *)
(***************************************************************************)

\* Numbers are given once, and a handler that has a row to make or to remove has one.
Numbers ==
    /\ row = NoRow \/ (row.id \in 1..ids /\ row.key \in 1..adds)
    /\ \A r \in Slots :
          /\ run[r].pc = "insert" => run[r].id \in 1..adds
          /\ run[r].pc \in {"drop", "remove"} => run[r].id \in 1..ids

Typed == TypeOK /\ Numbers

\* The points where a handler has a row to make or to remove.
Owing == {"insert", "drop", "remove"}

\* A step that leaves the making and the removing of the row alone.
Calm ==
    /\ UNCHANGED <<identity.key, row.id, row.key, adds, ids, orphaned, cut>>
    /\ (row' = NoRow) <=> (row = NoRow)
    /\ \A r \in Slots : run[r].pc \in Owing \/ run'[r].pc \in Owing => run'[r] = run[r]

\* One handler moves, and owes nothing before and after.
Moves ==
    /\ run' \in [Slots -> Locals]
    /\ \A r \in Slots : run[r].pc \in Owing \/ run'[r].pc \in Owing => run'[r] = run[r]

LEMMA RunMoves ==
    ASSUME TypeOK, NEW r \in Slots, NEW v \in Locals, run' = [run EXCEPT ![r] = v],
           run[r].pc \notin Owing, v.pc \notin Owing
    PROVE  Moves
BY DEF Moves, TypeOK

LEMMA IdleIsLocal == Idle \in Locals /\ Idle.pc \notin Owing
BY StatusAssumption DEF Idle, Locals, Points, Status, Owing

LEMMA GoesToIsLocal ==
    ASSUME TypeOK, NEW r \in Slots, NEW p \in Points \ Owing
    PROVE  [run[r] EXCEPT !.pc = p] \in Locals /\ [run[r] EXCEPT !.pc = p].pc \notin Owing
BY DEF TypeOK, Locals, Owing

LEMMA ForgetIsLocal ==
    ASSUME TypeOK, NEW r \in Slots, NEW p \in Points \ Owing
    PROVE  LET v == [run[r] EXCEPT !.pc = p, !.ever = FALSE, !.notified = "none"]
           IN  v \in Locals /\ v.pc \notin Owing
<1>1. run[r] \in Locals
  BY DEF TypeOK
<1> QED
  BY <1>1 DEF Locals

LEMMA CalmKeepsNumbers == Numbers /\ Calm => Numbers'
BY DEF Numbers, Calm, Owing

\* What a refresh takes from the row.
LEMMA FoundIsLocal == TypeOK => Found \in Locals
<1> SUFFICES ASSUME TypeOK PROVE Found \in Locals
  OBVIOUS
<1>1. row.id \in Nat /\ row.status \in Status /\ row.verifying \in BOOLEAN
  BY DEF TypeOK
<1> QED BY <1>1, IdleIsLocal DEF Found, Locals

LEMMA InitTyped == Init => Typed
<1> SUFFICES ASSUME Init PROVE Typed
  OBVIOUS
<1> USE NumbersAssumption, StatusAssumption
<1>1. run \in [Slots -> Locals]
  BY IdleIsLocal DEF Init
<1>2. Numbers
  <2>1. \A r \in Slots : run[r].pc = "idle"
    BY DEF Init, Idle
  <2>2. row = NoRow \/ (row.id = 1 /\ row.key = 1 /\ ids = 1 /\ adds = 1)
    BY DEF Init, NoRow
  <2> QED BY <2>1, <2>2 DEF Numbers
<1>3. identity \in [key : 0..adds, status : Status]
  BY DEF Init, NoIdentity, Status
<1>4. row \in [id : 0..ids, key : 0..adds, status : Status, verifying : BOOLEAN]
  <2>1. CASE row = NoRow
    <3>1. ids \in Nat /\ adds \in Nat
      BY DEF Init
    <3> QED BY <2>1, <3>1 DEF NoRow, Status
  <2>2. CASE row = [NoRow EXCEPT !.id = 1, !.key = 1] /\ adds = 1 /\ ids = 1
    <3>1. row = [id |-> 1, key |-> 1, status |-> "PENDING", verifying |-> FALSE]
      BY <2>2 DEF NoRow
    <3>2. 1 \in 0..ids /\ 1 \in 0..adds /\ "PENDING" \in Status
      BY <2>2 DEF Status
    <3> HIDE <2>2
    <3> QED BY <3>1, <3>2
  <2> QED BY <2>1, <2>2 DEF Init
<1>5. keys \in [checked : {"none", "fresh", "old"}, notified : Status \cup {"none"},
                ever : BOOLEAN]
  BY DEF Init, NoKeys
<1>6. /\ mix \in Mixes /\ elsewhere \in BOOLEAN /\ locks \in SUBSET Status
      /\ told \in Status /\ mailed \in Status \cup {"none"}
  BY DEF Init, Status
<1>9. adds \in Nat /\ ids \in Nat
  BY DEF Init
<1>7. asks \in 0..MaxAsks /\ changes \in 0..MaxChanges /\ stops \in 0..MaxStops
  BY DEF Init
<1>8. /\ orphaned \in SUBSET {"stopped", "deleted", "elsewhere"} /\ cut \in BOOLEAN /\ broken \in BOOLEAN
      /\ overlapped \in BOOLEAN /\ crossed \in BOOLEAN /\ slow \in BOOLEAN
  BY DEF Init
<1> QED BY <1>1, <1>2, <1>3, <1>4, <1>5, <1>6, <1>7, <1>8, <1>9 DEF Typed, TypeOK


-----------------------------------------------------------------------------
(***************************************************************************)
(* The steps that owe nothing.                                             *)
(***************************************************************************)

LEMMA RefreshMoves ==
    ASSUME TypeOK, NEW r \in Slots, AskGet(r) \/ Refresh(r)
    PROVE  Moves
<1>1. CASE AskGet(r)
  <2> DEFINE v == [Found EXCEPT !.pc = "state", !.verifying = FALSE]
  <2>1. v \in Locals /\ v.pc \notin Owing
    BY FoundIsLocal DEF Locals, Points, Owing
  <2>2. run' = [run EXCEPT ![r] = v] /\ run[r].pc \notin Owing
    BY <1>1 DEF AskGet, Asks, Owing
  <2> QED BY <2>1, <2>2, RunMoves
<1>2. CASE ReadState(r)
  <2> DEFINE k == KeysOf(run[r].id)
             v == [run[r] EXCEPT !.pc = "ask", !.ever = k.ever, !.notified = k.notified]
  <2>1. v \in Locals /\ v.pc \notin Owing
    <3>1. k.ever \in BOOLEAN /\ k.notified \in Status \cup {"none"} /\ run[r] \in Locals
      BY DEF TypeOK, KeysOf, NoKeys
    <3> HIDE DEF k
    <3> QED BY <3>1 DEF Locals, Points, Owing
  <2>2. run' = [run EXCEPT ![r] = v] /\ run[r].pc \notin Owing
    BY <1>2 DEF ReadState, Owing
  <2> QED BY <2>1, <2>2, RunMoves
<1>3. CASE AskSes(r)
  <2> DEFINE v == [run[r] EXCEPT !.pc = "update", !.got = identity.status]
  <2>1. v \in Locals /\ v.pc \notin Owing
    <3>1. identity.status \in Status /\ run[r] \in Locals
      BY DEF TypeOK
    <3> QED BY <3>1 DEF Locals, Points, Owing
  <2>2. run' = [run EXCEPT ![r] = v] \/ run' = [run EXCEPT ![r] = Idle]
    BY <1>3 DEF AskSes, Ends
  <2>3. run[r].pc \notin Owing
    BY <1>3 DEF AskSes, Owing
  <2> QED BY <2>1, <2>2, <2>3, RunMoves, IdleIsLocal
<1>4. CASE UpdateRow(r) \/ SetChecked(r) \/ MarkEver(r) \/ Mail(r) \/ SetNotified(r) \/ Emit(r)
  <2>1. run[r].pc \notin Owing
    BY <1>4 DEF UpdateRow, SetChecked, MarkEver, Mail, SetNotified, Emit, Owing
  <2>2. Ends(r) \/ \E p \in Points \ Owing : GoesTo(r, p)
    BY <1>4 DEF UpdateRow, SetChecked, MarkEver, Mail, SetNotified, Emit, Owing, Points
  <2>3. \/ run' = [run EXCEPT ![r] = Idle]
        \/ \E p \in Points \ Owing : run' = [run EXCEPT ![r] = [run[r] EXCEPT !.pc = p]]
    BY <2>2 DEF Ends, GoesTo
  <2> QED BY <2>1, <2>3, RunMoves, IdleIsLocal, GoesToIsLocal
<1>5. CASE Reserve(r)
  <2>1. run[r].pc \notin Owing
    BY <1>5 DEF Reserve, Owing
  <2>2. \E p \in Points \ Owing : Forget(r, p)
    BY <1>5 DEF Reserve, Owing, Points
  <2> QED BY <2>1, <2>2, RunMoves, ForgetIsLocal DEF Forget
<1> QED BY <1>1, <1>2, <1>3, <1>4, <1>5 DEF Refresh

LEMMA JobMoves ==
    ASSUME TypeOK, JobRead \/ JobDue
    PROVE  Moves
<1>1. Job \in Slots /\ run[Job].pc \notin Owing
  BY DEF Slots, JobRead, JobDue, Owing
<1>2. CASE JobRead
  <2> DEFINE v == [Found EXCEPT !.pc = "due"]
  <2>1. v \in Locals /\ v.pc \notin Owing
    BY FoundIsLocal DEF Locals, Points, Owing
  <2> QED BY <1>1, <1>2, <2>1, RunMoves DEF JobRead
<1>3. CASE JobDue
  <2> DEFINE v == [run[Job] EXCEPT !.pc = "state", !.verifying = FALSE]
  <2>1. v \in Locals /\ v.pc \notin Owing
    <3>1. run[Job] \in Locals
      BY <1>1 DEF TypeOK
    <3> QED BY <3>1 DEF Locals, Points, Owing
  <2>2. run' = [run EXCEPT ![Job] = v] \/ run' = [run EXCEPT ![Job] = Idle]
    BY <1>3 DEF JobDue
  <2> QED BY <1>1, <2>1, <2>2, RunMoves, IdleIsLocal
<1> QED BY <1>2, <1>3

\* When the row, the identity and the owing handlers are as they were.
LEMMA CalmWhenUnchanged ==
    ASSUME Moves, UNCHANGED <<identity, row, made, orphaned, cut>>
    PROVE  Calm
BY DEF Moves, Calm, made

\* Reads, by a refresh or the job.
LEMMA ReadsAreCalm ==
    ASSUME TypeOK, NEW r \in Slots,
           AskGet(r) \/ ReadState(r) \/ AskSes(r) \/ JobRead \/ JobDue
    PROVE  TypeOK' /\ Calm
<1>1. Moves
  BY RefreshMoves, JobMoves DEF Refresh
<1>2. UNCHANGED <<mix, elsewhere, identity, row, redis, hist, made, changes, stops, faulty>>
  BY DEF AskGet, Asks, ReadState, AskSes, JobRead, JobDue, Same
<1>3. asks' \in 0..MaxAsks
  BY NumbersAssumption DEF AskGet, Asks, ReadState, AskSes, JobRead, JobDue, Same, TypeOK
<1>4. TypeOK'
  BY <1>1, <1>2, <1>3 DEF TypeOK, Moves, redis, hist, made, faulty
<1> QED BY <1>1, <1>2, <1>4, CalmWhenUnchanged DEF faulty

LEMMA UpdateIsCalm ==
    ASSUME Typed, NEW r \in Slots, UpdateRow(r)
    PROVE  TypeOK' /\ Calm
<1> USE DEF Typed
<1>1. Moves
  BY RefreshMoves DEF Refresh
<1>2. UNCHANGED <<Same, identity, redis, hist, made, orphaned, cut, broken, crossed, slow>>
  BY DEF UpdateRow
<1>3. overlapped' \in BOOLEAN
  BY DEF UpdateRow, TypeOK
<1>4. \/ UNCHANGED row
      \/ row # NoRow /\ \E v \in BOOLEAN : row' = [row EXCEPT !.status = run[r].got, !.verifying = v]
  BY DEF UpdateRow, HasRow
<1>5. /\ row' \in [id : 0..ids, key : 0..adds, status : Status, verifying : BOOLEAN]
      /\ UNCHANGED <<row.id, row.key>>
  <2>1. run[r].got \in Status
    BY DEF TypeOK, Locals
  <2> QED BY <1>4, <2>1 DEF TypeOK
<1>6. TypeOK'
  BY <1>1, <1>2, <1>3, <1>5 DEF TypeOK, Moves, Same, redis, hist, made
<1>7. (row' = NoRow) <=> (row = NoRow)
  <2>1. row # NoRow => row'.id # NoRow.id
    BY <1>5 DEF Numbers, NoRow
  <2> QED BY <1>4, <2>1
<1> QED BY <1>1, <1>2, <1>5, <1>6, <1>7 DEF Calm, Moves, made

\* What a refresh does once it has written the row.
LEMMA NotifyIsCalm ==
    ASSUME TypeOK, NEW r \in Slots,
           SetChecked(r) \/ MarkEver(r) \/ Reserve(r) \/ Mail(r) \/ SetNotified(r) \/ Emit(r)
    PROVE  TypeOK' /\ Calm
<1> DEFINE Kept == UNCHANGED <<mix, elsewhere, identity, row, made, asks, changes, orphaned, cut, overlapped,
                               slow>>
<1>1. Moves
  BY RefreshMoves DEF Refresh
<1>2. run[r].got \in Status
  BY DEF TypeOK, Locals
<1>3. CASE SetChecked(r)
  <2>1. keys' \in [checked : {"none", "fresh", "old"}, notified : Status \cup {"none"},
                   ever : BOOLEAN]
    BY <1>3 DEF SetChecked, Keys, TypeOK
  <2>2. Kept /\ UNCHANGED <<locks, hist, broken, crossed, stops>>
    BY <1>3 DEF SetChecked, Same, faulty
  <2>3. TypeOK'
    BY <1>1, <2>1, <2>2 DEF TypeOK, Moves, hist, made
  <2> QED BY <1>1, <2>2, <2>3, CalmWhenUnchanged
<1>4. CASE MarkEver(r)
  <2>1. keys' \in [checked : {"none", "fresh", "old"}, notified : Status \cup {"none"},
                   ever : BOOLEAN]
    BY <1>4 DEF MarkEver, Keys, TypeOK
  <2>2. Kept /\ UNCHANGED <<locks, hist, broken, crossed, stops>>
    BY <1>4 DEF MarkEver, Same, faulty
  <2>3. TypeOK'
    BY <1>1, <2>1, <2>2 DEF TypeOK, Moves, hist, made
  <2> QED BY <1>1, <2>2, <2>3, CalmWhenUnchanged
<1>5. CASE Reserve(r)
  <2>1. locks' \in SUBSET Status
    BY <1>2, <1>5 DEF Reserve, TypeOK
  <2>2. Kept /\ UNCHANGED <<keys, hist, broken, crossed, stops>>
    BY <1>5 DEF Reserve, Same, faulty
  <2>3. TypeOK'
    BY <1>1, <2>1, <2>2 DEF TypeOK, Moves, hist, made
  <2> QED BY <1>1, <2>2, <2>3, CalmWhenUnchanged
<1>6. CASE Mail(r)
  <2>1. mailed' \in Status \cup {"none"} /\ broken' \in BOOLEAN
    BY <1>2, <1>6 DEF Mail, TypeOK
  <2>2. Kept /\ UNCHANGED <<keys, locks, told, crossed>>
    BY <1>6 DEF Mail, redis
  <2>3. stops' \in 0..MaxStops
    BY <1>6, NumbersAssumption DEF Mail, MailFails, TypeOK
  <2>4. TypeOK'
    BY <1>1, <2>1, <2>2, <2>3 DEF TypeOK, Moves, made
  <2> QED BY <1>1, <2>2, <2>4, CalmWhenUnchanged
<1>7. CASE SetNotified(r)
  <2>1. keys' \in [checked : {"none", "fresh", "old"}, notified : Status \cup {"none"},
                   ever : BOOLEAN]
    BY <1>2, <1>7 DEF SetNotified, Keys, TypeOK
  <2>2. broken' \in BOOLEAN /\ crossed' \in BOOLEAN
    BY <1>7 DEF SetNotified, TypeOK
  <2>3. Kept /\ UNCHANGED <<locks, hist>>
    BY <1>7 DEF SetNotified
  <2>4. stops' \in 0..MaxStops
    BY <1>7, NumbersAssumption DEF SetNotified, MailFails, TypeOK
  <2>5. TypeOK'
    BY <1>1, <2>1, <2>2, <2>3, <2>4 DEF TypeOK, Moves, hist, made
  <2> QED BY <1>1, <2>3, <2>5, CalmWhenUnchanged
<1>8. CASE Emit(r)
  <2>1. told' \in Status
    BY <1>2, <1>8 DEF Emit, TypeOK
  <2>2. Kept /\ UNCHANGED <<keys, locks, mailed, broken, crossed, stops>>
    BY <1>8 DEF Emit, Same, redis, faulty
  <2>3. TypeOK'
    BY <1>1, <2>1, <2>2 DEF TypeOK, Moves, made
  <2> QED BY <1>1, <2>2, <2>3, CalmWhenUnchanged
<1> QED BY <1>3, <1>4, <1>5, <1>6, <1>7, <1>8

\* The environment and startVerification move no handler.
LEMMA OthersAreCalm ==
    ASSUME Typed,
           \/ StartVerification \/ ElsewhereChanges \/ SesChanges \/ CheckAges
           \/ (\E s \in Status : LockExpires(s)) \/ UNCHANGED vars
    PROVE  TypeOK' /\ Calm
<1> USE DEF Typed
<1>1. CASE StartVerification
  <2>1. row # NoRow /\ row' = [row EXCEPT !.verifying = TRUE]
    BY <1>1 DEF StartVerification
  <2>2. row' \in [id : 0..ids, key : 0..adds, status : Status, verifying : BOOLEAN]
    BY <2>1 DEF TypeOK
  <2>3. UNCHANGED <<row.id, row.key>> /\ row'.id # 0
    BY <2>1 DEF TypeOK, Numbers
  <2>4. UNCHANGED <<mix, elsewhere, identity, redis, run, hist, made, changes, stops, faulty>>
    BY <1>1 DEF StartVerification
  <2>5. asks' \in 0..MaxAsks
    BY <1>1, NumbersAssumption DEF StartVerification, TypeOK
  <2>6. TypeOK'
    BY <2>2, <2>4, <2>5 DEF TypeOK, redis, hist, made, faulty
  <2>7. row' # NoRow
    BY <2>3 DEF NoRow
  <2> QED BY <2>1, <2>3, <2>4, <2>6, <2>7 DEF Calm, made, faulty
<1>2. CASE SesChanges
  <2>1. PICK s \in Status : identity' = [identity EXCEPT !.status = s]
    BY <1>2 DEF SesChanges
  <2>2. identity' \in [key : 0..adds, status : Status] /\ UNCHANGED identity.key
    BY <2>1 DEF TypeOK
  <2>3. UNCHANGED <<mix, elsewhere, row, redis, run, hist, made, asks, stops, faulty>>
    BY <1>2 DEF SesChanges
  <2>4. changes' \in 0..MaxChanges
    BY <1>2, NumbersAssumption DEF SesChanges, TypeOK
  <2>5. TypeOK'
    BY <2>2, <2>3, <2>4 DEF TypeOK, redis, hist, made, faulty
  <2> QED BY <2>2, <2>3, <2>5 DEF Calm, made, faulty
<1>3. CASE CheckAges
  <2>1. keys' \in [checked : {"none", "fresh", "old"}, notified : Status \cup {"none"},
                   ever : BOOLEAN]
    BY <1>3 DEF CheckAges, TypeOK
  <2>2. UNCHANGED <<Same, identity, row, locks, run, hist, made, faulty>>
    BY <1>3 DEF CheckAges
  <2>3. TypeOK'
    BY <2>1, <2>2 DEF TypeOK, Same, hist, made, faulty
  <2> QED BY <2>2, <2>3 DEF Calm, made, faulty
<1>4. CASE \E s \in Status : LockExpires(s)
  <2>1. locks' \in SUBSET Status /\ slow' \in BOOLEAN
    BY <1>4 DEF LockExpires, TypeOK
  <2>2. UNCHANGED <<Same, identity, row, keys, run, hist, made, orphaned, cut, broken, overlapped,
                    crossed>>
    BY <1>4 DEF LockExpires
  <2>3. TypeOK'
    BY <2>1, <2>2 DEF TypeOK, Same, hist, made
  <2> QED BY <2>2, <2>3 DEF Calm, made
<1>5. CASE UNCHANGED vars
  BY <1>5 DEF vars, TypeOK, Calm, redis, hist, made, counts, faulty
<1>6. CASE ElsewhereChanges
  <2>1. elsewhere' \in BOOLEAN /\ UNCHANGED <<mix, counts, identity, row, redis, run, hist, made, faulty>>
    BY <1>6 DEF ElsewhereChanges, TypeOK
  <2>2. TypeOK'
    BY <2>1 DEF TypeOK, redis, hist, made, counts, faulty
  <2> QED BY <2>1, <2>2 DEF Calm, made, faulty
<1> QED BY <1>1, <1>2, <1>3, <1>4, <1>5, <1>6

-----------------------------------------------------------------------------
(***************************************************************************)
(* The identity and its row.                                               *)
(***************************************************************************)

Inserting == {r \in Slots : run[r].pc = "insert"}
Removing == {r \in Slots : run[r].pc = "remove"}

\* Each key is for one row.
KeysDiffer ==
    /\ \A r, q \in Inserting : run[r].id = run[q].id => r = q
    /\ \A r \in Inserting : row.key # run[r].id

\* An identity that is not the row's is one whose createDomain has its row to insert, or
\* has lost it.
StrayIdentity ==
    identity.key \notin {0, row.key}
        => orphaned # {} \/ \E r \in Inserting : run[r].id = identity.key

\* Who is to remove the row has dropped its identity.
RemovedIsDropped == \A q \in Removing : run[q].id = row.id => identity.key # row.key

\* The identity of a row that is still to be inserted was dropped by a delete that will
\* find another row, or no row once a second delete is done with it.
DropsAreLeft ==
    \A r \in Inserting : identity.key # run[r].id
        => \/ cut
           \/ \E q \in Removing : run[q].id # row.id
           \/ \E q, p \in Removing : q # p

Accounted ==
    /\ KeysDiffer /\ StrayIdentity /\ RemovedIsDropped /\ DropsAreLeft /\ RowHasIdentity

LEMMA CalmKeepsAccounted == Typed /\ Accounted /\ Calm => Accounted'
<1> SUFFICES ASSUME Typed, Accounted, Calm PROVE Accounted'
  OBVIOUS
<1>1. Inserting' = Inserting /\ Removing' = Removing
  BY DEF Calm, Owing, Inserting, Removing
<1>2. \A r \in Inserting \cup Removing : run'[r] = run[r]
  BY DEF Calm, Owing, Inserting, Removing
<1>3. UNCHANGED <<identity.key, row.id, row.key, orphaned, cut>> /\ (row' = NoRow <=> row = NoRow)
  BY DEF Calm
<1>4. KeysDiffer'
  BY <1>1, <1>2, <1>3 DEF Accounted, KeysDiffer
<1>5. StrayIdentity'
  BY <1>1, <1>2, <1>3 DEF Accounted, StrayIdentity
<1>6. RemovedIsDropped'
  BY <1>1, <1>2, <1>3 DEF Accounted, RemovedIsDropped
<1>7. DropsAreLeft'
  BY <1>1, <1>2, <1>3 DEF Accounted, DropsAreLeft
<1>8. RowHasIdentity'
  BY <1>2, <1>3 DEF Accounted, RowHasIdentity, Removing
<1> QED BY <1>4, <1>5, <1>6, <1>7, <1>8 DEF Accounted

LEMMA AskCreateIsCalm ==
    ASSUME Typed, NEW r \in Slots, AskCreate(r)
    PROVE  TypeOK' /\ Calm
<1> DEFINE v == [Idle EXCEPT !.pc = "add"]
<1>1. v \in Locals /\ v.pc \notin Owing
  BY StatusAssumption DEF Idle, Locals, Points, Status, Owing
<1>2. run' = [run EXCEPT ![r] = v] /\ run[r].pc \notin Owing
  BY DEF AskCreate, Asks, Owing
<1>3. Moves
  BY <1>1, <1>2, RunMoves DEF Typed
<1>4. UNCHANGED <<mix, elsewhere, identity, row, redis, hist, made, changes, stops, faulty>>
  BY DEF AskCreate, Asks
<1>5. asks' \in 0..MaxAsks
  BY NumbersAssumption DEF AskCreate, Asks, Typed, TypeOK
<1>6. TypeOK'
  BY <1>3, <1>4, <1>5 DEF Typed, TypeOK, Moves, redis, hist, made, faulty
<1> QED BY <1>3, <1>4, <1>6, CalmWhenUnchanged DEF faulty

LEMMA AddKeeps ==
    ASSUME Typed, Accounted, NEW r \in Slots, AddIdentity(r)
    PROVE  Typed' /\ Accounted'
<1> USE DEF Typed
<1>1. CASE identity.key # 0
  <2>1. Moves
    <3>1. run' = [run EXCEPT ![r] = Idle] /\ run[r].pc \notin Owing
      BY <1>1 DEF AddIdentity, Ends, Owing
    <3> QED BY <3>1, IdleIsLocal, RunMoves
  <2>2. UNCHANGED <<Same, identity, row, redis, hist, made, faulty>>
    BY <1>1 DEF AddIdentity, made
  <2>3. TypeOK'
    BY <2>1, <2>2 DEF TypeOK, Moves, Same, redis, hist, made, faulty
  <2> QED BY <2>1, <2>2, <2>3, CalmWhenUnchanged, CalmKeepsNumbers, CalmKeepsAccounted DEF faulty
<1>2. CASE identity.key = 0
  <2> DEFINE v == [run[r] EXCEPT !.pc = "insert", !.id = adds + 1]
  <2>1. adds \in Nat /\ adds' = adds + 1
    BY <1>2 DEF AddIdentity, TypeOK
  <2>2. run' = [run EXCEPT ![r] = v] /\ run[r].pc = "add"
    BY <1>2 DEF AddIdentity
  <2>3. v \in Locals /\ v.pc = "insert" /\ v.id = adds + 1
    <3>1. run[r] \in Locals /\ adds + 1 \in Nat
      BY <2>1 DEF TypeOK
    <3> QED BY <3>1 DEF Locals, Points
  <2>4. identity' \in [key : 0..adds', status : Status] /\ identity'.key = adds + 1
    BY <1>2, <2>1, StatusAssumption DEF AddIdentity, NoIdentity, Status
  <2>5. UNCHANGED <<Same, row, redis, hist, ids, faulty>>
    BY DEF AddIdentity
  <2>6. /\ run' \in [Slots -> Locals] /\ run'[r] = v
        /\ \A q \in Slots \ {r} : run'[q] = run[q]
    BY <2>2, <2>3 DEF TypeOK
  <2> HIDE DEF v
  <2>7. TypeOK'
    <3>1. row' \in [id : 0..ids', key : 0..adds', status : Status, verifying : BOOLEAN]
      BY <2>1, <2>5 DEF TypeOK
    <3> QED BY <2>1, <2>4, <2>5, <2>6, <3>1 DEF TypeOK, Same, redis, hist, faulty
  <2>8. Numbers'
    BY <2>1, <2>3, <2>5, <2>6 DEF Numbers
  <2>9. Inserting' = Inserting \cup {r} /\ Removing' = Removing /\ r \notin Inserting
    BY <2>2, <2>3, <2>6 DEF Inserting, Removing
  <2>10. /\ \A q \in Inserting : run'[q] = run[q] /\ run[q].id \in 1..adds
         /\ \A q \in Removing : run'[q] = run[q]
    BY <2>2, <2>6 DEF Inserting, Removing, Numbers
  <2>11. row' = row /\ row.key \in 0..adds /\ orphaned' = orphaned /\ cut' = cut
    BY <2>5 DEF TypeOK, faulty
  <2>12. KeysDiffer'
    BY <2>1, <2>3, <2>6, <2>9, <2>10, <2>11 DEF Accounted, KeysDiffer
  <2>13. StrayIdentity'
    BY <2>3, <2>4, <2>6, <2>9 DEF StrayIdentity
  <2>14. RemovedIsDropped'
    BY <2>1, <2>4, <2>11 DEF RemovedIsDropped
  <2>15. DropsAreLeft'
    <3>1. ASSUME NEW q \in Inserting', identity'.key # run'[q].id
          PROVE  q \in Inserting /\ identity.key # run[q].id
      BY <1>2, <2>1, <2>3, <2>4, <2>6, <2>9, <2>10, <3>1
    <3> QED BY <2>9, <2>10, <2>11, <3>1 DEF Accounted, DropsAreLeft
  <2>16. RowHasIdentity'
    <3>1. row # NoRow => identity.key # row.key
      BY <1>2 DEF Numbers
    <3> QED BY <2>9, <2>10, <2>11, <3>1 DEF Accounted, RowHasIdentity, Removing
  <2> QED BY <2>7, <2>8, <2>12, <2>13, <2>14, <2>15, <2>16 DEF Accounted
<1> QED BY <1>1, <1>2

\* A handler that is done with its row, or stops.
LEMMA EndsFacts ==
    ASSUME TypeOK, NEW r \in Slots, Ends(r)
    PROVE  /\ run' \in [Slots -> Locals]
           /\ \A q \in Slots \ {r} : run'[q] = run[q]
           /\ Inserting' = Inserting \ {r} /\ Removing' = Removing \ {r}
           /\ run'[r].pc = "idle"
<1>1. run' = [run EXCEPT ![r] = Idle] /\ Idle \in Locals /\ Idle.pc = "idle"
  BY IdleIsLocal DEF Ends, Idle
<1>2. run' \in [Slots -> Locals] /\ run'[r] = Idle /\ \A q \in Slots \ {r} : run'[q] = run[q]
  BY <1>1 DEF TypeOK
<1> QED BY <1>1, <1>2 DEF Inserting, Removing

LEMMA InsertKeeps ==
    ASSUME Typed, Accounted, NEW r \in Slots, InsertRow(r)
    PROVE  Typed' /\ Accounted'
<1> USE DEF Typed
<1>1. /\ run' \in [Slots -> Locals]
      /\ \A q \in Slots \ {r} : run'[q] = run[q]
      /\ Inserting' = Inserting \ {r} /\ Removing' = Removing \ {r}
      /\ run'[r].pc = "idle"
  BY EndsFacts DEF InsertRow
<1>2. r \in Inserting /\ r \notin Removing
  BY DEF InsertRow, Inserting, Removing
<1>3. /\ \A q \in Inserting : run[q].id \in 1..adds
      /\ \A q \in Removing : run[q].id \in 1..ids
  BY DEF Numbers, Inserting, Removing
<1>4. UNCHANGED <<Same, identity, adds, cut, broken, overlapped, crossed, slow>>
  BY DEF InsertRow
<1>5. CASE row # NoRow \/ elsewhere
  <2>1. /\ UNCHANGED <<row, redis, hist, ids>>
        /\ orphaned' \in SUBSET {"stopped", "deleted", "elsewhere"} /\ orphaned' # {}
    BY <1>5 DEF InsertRow, TypeOK
  <2>2. TypeOK'
    BY <1>1, <1>4, <2>1 DEF TypeOK, Same, redis, hist
  <2>3. Numbers'
    BY <1>1, <1>4, <2>1 DEF Numbers
  <2>4. Accounted'
    <3>1. KeysDiffer' /\ StrayIdentity' /\ RemovedIsDropped' /\ DropsAreLeft'
      BY <1>1, <1>2, <1>4, <2>1
         DEF Accounted, KeysDiffer, StrayIdentity, RemovedIsDropped, DropsAreLeft,
             Inserting, Removing
    <3>2. RowHasIdentity'
      BY <1>1, <1>2, <1>4, <2>1 DEF Accounted, RowHasIdentity, Removing
    <3> QED BY <3>1, <3>2 DEF Accounted
  <2> QED BY <2>2, <2>3, <2>4
<1>6. CASE row = NoRow /\ ~elsewhere
  <2>1. /\ ids \in Nat /\ ids' = ids + 1
        /\ row' = [id |-> ids + 1, key |-> run[r].id, status |-> "PENDING", verifying |-> FALSE]
        /\ keys' = NoKeys /\ locks' = {} /\ told' = "PENDING" /\ mailed' = "none"
        /\ UNCHANGED orphaned
    BY <1>6 DEF InsertRow, NoRow, TypeOK
  <2>2. run[r].id \in 1..adds /\ row'.id = ids + 1 /\ row'.key = run[r].id /\ adds \in Nat
    BY <1>2, <1>3, <2>1 DEF TypeOK
  <2>3. row' \in [id : 0..ids', key : 0..adds', status : Status, verifying : BOOLEAN]
    BY <1>4, <2>1, <2>2, StatusAssumption DEF Status
  <2>4. TypeOK'
    <3>1. keys' \in [checked : {"none", "fresh", "old"}, notified : Status \cup {"none"},
                     ever : BOOLEAN]
      BY <2>1 DEF NoKeys
    <3>2. told' \in Status
      BY <2>1, StatusAssumption DEF Status
    <3> QED BY <1>1, <1>4, <2>1, <2>3, <3>1, <3>2 DEF TypeOK, Same
  <2>5. Numbers'
    BY <1>1, <1>4, <2>1, <2>2 DEF Numbers
  <2>6. row.key = 0
    BY <1>6 DEF NoRow
  <2>7. KeysDiffer'
    BY <1>1, <1>2, <2>2 DEF Accounted, KeysDiffer, Inserting
  <2>8. StrayIdentity'
    BY <1>1, <1>4, <2>1, <2>2, <2>6 DEF Accounted, StrayIdentity, Inserting
  <2>9. RemovedIsDropped'
    BY <1>1, <1>2, <1>3, <2>1, <2>2 DEF RemovedIsDropped, Removing
  <2>10. ASSUME NEW q \in Inserting, identity.key # run[q].id
         PROVE  cut \/ \E p \in Removing : TRUE
    BY <2>10 DEF Accounted, DropsAreLeft
  <2>11. DropsAreLeft'
    <3>1. \A p \in Removing : p \in Removing' /\ run'[p].id # row'.id
      BY <1>1, <1>2, <1>3, <2>1, <2>2 DEF Removing
    <3> QED BY <1>1, <1>4, <2>10, <3>1 DEF DropsAreLeft, Inserting
  <2>12. RowHasIdentity'
    BY <1>1, <1>2, <1>4, <2>2, <2>10 DEF RowHasIdentity, Removing
  <2> QED BY <2>4, <2>5, <2>7, <2>8, <2>9, <2>11, <2>12 DEF Accounted
<1> QED BY <1>5, <1>6

LEMMA AskDeleteKeeps ==
    ASSUME Typed, Accounted, NEW r \in Slots, AskDelete(r)
    PROVE  Typed' /\ Accounted'
<1> USE DEF Typed
<1> DEFINE v == [Idle EXCEPT !.pc = "drop", !.id = row.id]
<1>1. row.id \in 1..ids /\ ids \in Nat
  BY DEF AskDelete, Numbers, TypeOK
<1>2. run' = [run EXCEPT ![r] = v] /\ run[r].pc = "idle"
  BY DEF AskDelete, Asks
<1>3. v \in Locals /\ v.pc = "drop" /\ v.id = row.id
  <2>1. row.id \in Nat
    BY <1>1
  <2> QED BY <2>1, StatusAssumption DEF Idle, Locals, Points, Status
<1>4. UNCHANGED <<mix, elsewhere, identity, row, redis, hist, made, changes, stops, faulty>>
  BY DEF AskDelete, Asks
<1>5. asks' \in 0..MaxAsks
  BY NumbersAssumption DEF AskDelete, Asks, TypeOK
<1> HIDE DEF v
<1>6. run' \in [Slots -> Locals] /\ run'[r] = v /\ \A q \in Slots \ {r} : run'[q] = run[q]
  BY <1>2, <1>3 DEF TypeOK
<1>7. TypeOK'
  BY <1>4, <1>5, <1>6 DEF TypeOK, redis, hist, made, faulty
<1>8. Numbers'
  BY <1>1, <1>3, <1>4, <1>6 DEF Numbers, made
<1>9. Inserting' = Inserting /\ Removing' = Removing
  BY <1>2, <1>3, <1>6 DEF Inserting, Removing
<1>10. \A q \in Inserting \cup Removing : run'[q] = run[q]
  BY <1>2, <1>6 DEF Inserting, Removing
<1>11. KeysDiffer' /\ StrayIdentity' /\ RemovedIsDropped' /\ DropsAreLeft'
  BY <1>4, <1>9, <1>10
     DEF Accounted, KeysDiffer, StrayIdentity, RemovedIsDropped, DropsAreLeft, faulty
<1>12. RowHasIdentity'
  BY <1>4, <1>9 DEF Accounted, RowHasIdentity, Removing, faulty
<1> QED BY <1>7, <1>8, <1>11, <1>12 DEF Accounted

LEMMA DropKeeps ==
    ASSUME Typed, Accounted, NEW r \in Slots, DropIdentity(r)
    PROVE  Typed' /\ Accounted'
<1> USE DEF Typed
<1>1. UNCHANGED <<Same, row, redis, hist, made, faulty>>
  BY DEF DropIdentity
<1>2. run[r].pc = "drop" /\ run[r].id \in 1..ids
  BY DEF DropIdentity, Numbers
<1>3. CASE identity.key = 0
  <2>1. Ends(r) /\ UNCHANGED identity
    BY <1>3 DEF DropIdentity
  <2>2. /\ run' \in [Slots -> Locals] /\ run'[r].pc = "idle"
        /\ \A q \in Slots \ {r} : run'[q] = run[q]
        /\ Inserting' = Inserting /\ Removing' = Removing
    BY <1>2, <2>1, EndsFacts DEF Inserting, Removing
  <2>3. TypeOK'
    BY <1>1, <2>1, <2>2 DEF TypeOK, Same, redis, hist, made, faulty
  <2>4. Numbers'
    BY <1>1, <2>2 DEF Numbers, made
  <2>5. \A q \in Inserting \cup Removing : run'[q] = run[q]
    BY <1>2, <2>2 DEF Inserting, Removing
  <2>6. KeysDiffer' /\ StrayIdentity' /\ RemovedIsDropped' /\ DropsAreLeft'
    BY <1>1, <2>1, <2>2, <2>5
       DEF Accounted, KeysDiffer, StrayIdentity, RemovedIsDropped, DropsAreLeft, faulty
  <2>7. RowHasIdentity'
    BY <1>1, <2>1, <2>2 DEF Accounted, RowHasIdentity, Removing, faulty
  <2> QED BY <2>3, <2>4, <2>6, <2>7 DEF Accounted
<1>4. CASE identity.key # 0
  <2> DEFINE v == [run[r] EXCEPT !.pc = "remove"]
  <2>1. identity' = NoIdentity /\ run' = [run EXCEPT ![r] = v]
    BY <1>4 DEF DropIdentity, GoesTo
  <2>2. v \in Locals /\ v.pc = "remove" /\ v.id = run[r].id
    BY DEF TypeOK, Locals, Points
  <2> HIDE DEF v
  <2>3. run' \in [Slots -> Locals] /\ run'[r] = v /\ \A q \in Slots \ {r} : run'[q] = run[q]
    BY <2>1, <2>2 DEF TypeOK
  <2>4. identity' \in [key : 0..adds, status : Status] /\ identity'.key = 0
    BY <2>1, StatusAssumption DEF NoIdentity, Status, TypeOK
  <2>5. TypeOK'
    BY <1>1, <2>3, <2>4 DEF TypeOK, Same, redis, hist, made, faulty
  <2>6. Numbers'
    BY <1>1, <1>2, <2>2, <2>3 DEF Numbers, made
  <2>7. Inserting' = Inserting /\ Removing' = Removing \cup {r} /\ r \notin Removing
    BY <1>2, <2>2, <2>3 DEF Inserting, Removing
  <2>8. \A q \in Inserting \cup Removing : run'[q] = run[q]
    BY <1>2, <2>3 DEF Inserting, Removing
  <2>9. KeysDiffer' /\ StrayIdentity'
    BY <1>1, <2>4, <2>7, <2>8 DEF Accounted, KeysDiffer, StrayIdentity
  <2>10. run'[r].id = run[r].id /\ r \in Removing' /\ (row.id = run[r].id => row # NoRow)
    BY <1>2, <2>2, <2>3, <2>7 DEF NoRow
  <2>11. RemovedIsDropped'
    <3>1. row # NoRow => row.key # 0
      BY DEF Numbers
    <3>2. \A q \in Removing' : run'[q].id \in 1..ids
      BY <1>2, <2>7, <2>8, <2>10 DEF Numbers, Removing
    <3> QED BY <1>1, <2>4, <3>1, <3>2 DEF RemovedIsDropped, NoRow
  <2>12. DropsAreLeft'
    <3>1. CASE run[r].id # row.id
      BY <1>1, <2>10, <3>1 DEF DropsAreLeft
    <3>2. CASE run[r].id = row.id
      <4>1. ASSUME NEW q \in Inserting
            PROVE  cut \/ \E p \in Removing : TRUE
        <5>1. CASE identity.key = run[q].id
          BY <2>10, <3>2, <5>1 DEF Accounted, KeysDiffer, RowHasIdentity, Removing
        <5>2. CASE identity.key # run[q].id
          BY <5>2 DEF Accounted, DropsAreLeft
        <5> QED BY <5>1, <5>2
      <4> QED BY <1>1, <2>7, <4>1 DEF DropsAreLeft, faulty
    <3> QED BY <3>1, <3>2
  <2>13. RowHasIdentity'
    BY <2>2, <2>3 DEF RowHasIdentity
  <2> QED BY <2>5, <2>6, <2>9, <2>11, <2>12, <2>13 DEF Accounted
<1> QED BY <1>3, <1>4

LEMMA RemoveKeeps ==
    ASSUME Typed, Accounted, NEW r \in Slots, RemoveRow(r)
    PROVE  Typed' /\ Accounted'
<1> USE DEF Typed
<1>1. UNCHANGED <<Same, identity, redis, hist, made, orphaned, broken, overlapped, crossed, slow>>
  BY DEF RemoveRow
<1>2. /\ run' \in [Slots -> Locals] /\ run'[r].pc = "idle"
      /\ \A q \in Slots \ {r} : run'[q] = run[q]
      /\ Inserting' = Inserting /\ Removing' = Removing \ {r} /\ r \in Removing
  BY EndsFacts DEF RemoveRow, Inserting, Removing
<1>3. \A q \in Removing : run[q].id \in 1..ids
  BY DEF Numbers, Removing
<1>4. \A q \in Inserting \cup Removing' : run'[q] = run[q]
  BY <1>2 DEF Inserting, Removing
<1>5. CASE row.id # run[r].id
  <2>1. cut' = TRUE /\ UNCHANGED row
    BY <1>5 DEF RemoveRow
  <2>2. TypeOK'
    BY <1>1, <1>2, <2>1 DEF TypeOK, Same, redis, hist, made
  <2>3. Numbers'
    BY <1>1, <1>2, <2>1 DEF Numbers, made
  <2>4. KeysDiffer' /\ StrayIdentity' /\ RemovedIsDropped'
    BY <1>1, <1>2, <1>4, <2>1
       DEF Accounted, KeysDiffer, StrayIdentity, RemovedIsDropped
  <2> QED BY <2>1, <2>2, <2>3, <2>4 DEF Accounted, DropsAreLeft, RowHasIdentity
<1>6. CASE row.id = run[r].id
  <2>1. row' = NoRow /\ row'.id = 0 /\ row'.key = 0 /\ UNCHANGED cut
    BY <1>6 DEF RemoveRow, NoRow
  <2>2. row' \in [id : 0..ids, key : 0..adds, status : Status, verifying : BOOLEAN]
    <3>1. ids \in Nat /\ adds \in Nat
      BY DEF TypeOK
    <3> QED BY <2>1, <3>1, StatusAssumption DEF NoRow, Status
  <2>3. TypeOK'
    BY <1>1, <1>2, <2>1, <2>2 DEF TypeOK, Same, redis, hist, made
  <2>4. Numbers'
    BY <1>1, <1>2, <2>1 DEF Numbers, made
  <2>5. KeysDiffer'
    <3>1. \A q \in Inserting : run[q].id # 0
      BY DEF Numbers, Inserting
    <3> QED BY <1>2, <1>4, <2>1, <3>1 DEF Accounted, KeysDiffer
  <2>6. StrayIdentity'
    <3>1. identity.key # row.key
      BY <1>2, <1>6 DEF Accounted, RemovedIsDropped
    <3> QED BY <1>1, <1>2, <1>4, <2>1, <3>1 DEF Accounted, StrayIdentity
  <2>7. \A q \in Removing' : run'[q].id # row'.id
    BY <1>2, <1>3, <1>4, <2>1
  <2>8. RemovedIsDropped'
    BY <2>7 DEF RemovedIsDropped
  <2>9. DropsAreLeft'
    <3>1. ASSUME NEW q \in Inserting, identity.key # run[q].id
          PROVE  cut \/ \E p \in Removing : p # r
      BY <1>2, <1>6, <3>1 DEF Accounted, DropsAreLeft
    <3> QED BY <1>1, <1>2, <1>4, <2>1, <2>7, <3>1 DEF DropsAreLeft
  <2>10. RowHasIdentity'
    BY <2>1 DEF RowHasIdentity
  <2> QED BY <2>3, <2>4, <2>5, <2>6, <2>8, <2>9, <2>10 DEF Accounted
<1> QED BY <1>5, <1>6

LEMMA StopKeeps ==
    ASSUME Typed, Accounted, NEW r \in Slots, Stops(r)
    PROVE  Typed' /\ Accounted'
<1> USE DEF Typed
<1>1. UNCHANGED <<mix, elsewhere, identity, row, redis, hist, made, asks, changes, overlapped, crossed, slow>>
  BY DEF Stops
<1>2. /\ run' \in [Slots -> Locals] /\ run'[r].pc = "idle"
      /\ \A q \in Slots \ {r} : run'[q] = run[q]
      /\ Inserting' = Inserting \ {r} /\ Removing' = Removing \ {r}
  BY EndsFacts DEF Stops
<1>3. /\ orphaned' \in SUBSET {"stopped", "deleted", "elsewhere"} /\ cut' \in BOOLEAN /\ broken' \in BOOLEAN
      /\ orphaned # {} => orphaned' # {}
      /\ cut => cut'
      /\ r \in Inserting => orphaned' # {}
      /\ r \in Removing => cut'
  BY DEF Stops, TypeOK, Inserting, Removing
<1>4. stops' \in 0..MaxStops
  BY NumbersAssumption DEF Stops, TypeOK
<1>5. \A q \in Inserting' \cup Removing' : run'[q] = run[q]
  BY <1>2 DEF Inserting, Removing
<1>6. TypeOK'
  BY <1>1, <1>2, <1>3, <1>4 DEF TypeOK, redis, hist, made
<1>7. Numbers'
  BY <1>1, <1>2 DEF Numbers, made
<1>8. KeysDiffer' /\ RemovedIsDropped'
  BY <1>1, <1>2, <1>5 DEF Accounted, KeysDiffer, RemovedIsDropped
<1>9. StrayIdentity'
  BY <1>1, <1>2, <1>3, <1>5 DEF Accounted, StrayIdentity
<1>10. DropsAreLeft'
  <2>1. CASE r \in Removing
    BY <1>3, <2>1 DEF DropsAreLeft
  <2>2. CASE r \notin Removing
    BY <1>1, <1>2, <1>3, <1>5, <2>2 DEF Accounted, DropsAreLeft
  <2> QED BY <2>1, <2>2
<1>11. RowHasIdentity'
  BY <1>1, <1>2, <1>3 DEF Accounted, RowHasIdentity, Removing
<1> QED BY <1>6, <1>7, <1>8, <1>9, <1>10, <1>11 DEF Accounted

-----------------------------------------------------------------------------
(***************************************************************************)
(* The invariant.                                                          *)
(***************************************************************************)

LEMMA InitAccounted == Init => Accounted
<1> SUFFICES ASSUME Init PROVE Accounted
  OBVIOUS
<1>1. Inserting = {} /\ Removing = {}
  BY DEF Init, Idle, Inserting, Removing
<1>2. identity.key = row.key
  <2>1. [NoIdentity EXCEPT !.key = 1].key = 1
    BY DEF NoIdentity
  <2>2. [NoRow EXCEPT !.id = 1, !.key = 1].key = 1
    BY DEF NoRow
  <2>3. NoIdentity.key = 0 /\ NoRow.key = 0
    BY DEF NoIdentity, NoRow
  <2> HIDE DEF NoIdentity, NoRow
  <2> QED BY <2>1, <2>2, <2>3 DEF Init
<1> QED BY <1>1, <1>2
       DEF Accounted, KeysDiffer, StrayIdentity, RemovedIsDropped, DropsAreLeft, RowHasIdentity

LEMMA NextKeeps == Typed /\ Accounted /\ [Next]_vars => Typed' /\ Accounted'
<1> SUFFICES ASSUME Typed, Accounted, [Next]_vars PROVE Typed' /\ Accounted'
  OBVIOUS
<1> DEFINE Done == Typed' /\ Accounted'
<1>1. TypeOK' /\ Calm => Done
  BY CalmKeepsNumbers, CalmKeepsAccounted DEF Typed
<1>2. ASSUME NEW r \in Requests, Requested(r) PROVE Done
  <2>1. r \in Slots
    BY DEF Slots
  <2> QED BY <1>1, <1>2, <2>1, AskCreateIsCalm, AskDeleteKeeps, ReadsAreCalm DEF Requested, Typed
<1>3. ASSUME NEW r \in Slots, Handler(r) PROVE Done
  BY <1>1, <1>3, AddKeeps, InsertKeeps, DropKeeps, RemoveKeeps, ReadsAreCalm, UpdateIsCalm,
     NotifyIsCalm DEF Handler, Refresh, Typed
<1>4. ASSUME NEW r \in Slots, Stops(r) PROVE Done
  BY <1>4, StopKeeps
<1>5. CASE JobRead \/ JobDue
  <2>1. Job \in Slots
    BY DEF Slots
  <2> QED BY <1>1, <1>5, <2>1, ReadsAreCalm DEF Typed
<1>6. CASE \/ StartVerification \/ ElsewhereChanges \/ SesChanges \/ CheckAges
           \/ (\E s \in Status : LockExpires(s)) \/ UNCHANGED vars
  BY <1>1, <1>6, OthersAreCalm
<1> QED BY <1>2, <1>3, <1>4, <1>5, <1>6 DEF Next

\* A row, an identity and the handlers keep their shapes, whatever refreshes, requests and
\* the job do to them at once.
THEOREM TypesHold == Spec => []TypeOK
<1>1. Init => Typed /\ Accounted
  BY InitTyped, InitAccounted
<1>2. Typed /\ Accounted => TypeOK
  BY DEF Typed
<1> QED BY <1>1, <1>2, NextKeeps, PTL DEF Spec

\* The row of a domain shows the key of the identity that SES has for it, unless a delete
\* is between SES and the database or stopped there (deleteDomain, addDomain).
THEOREM RowsHaveIdentities == Spec => []RowHasIdentity
<1>1. Init => Typed /\ Accounted
  BY InitTyped, InitAccounted
<1>2. Typed /\ Accounted => RowHasIdentity
  BY DEF Accounted
<1> QED BY <1>1, <1>2, NextKeeps, PTL DEF Spec

\* SES has an identity without a row only when createDomain stopped between the two, or
\* its insert met a row of the name: of a domain being deleted, or, with no crash and no
\* overlap at all, of a domain of another region (the name is unique among all rows).
THEOREM IdentitiesHaveRows == Spec => []IdentityHasRow
<1>1. Init => Typed /\ Accounted
  BY InitTyped, InitAccounted
<1>2. Typed /\ Accounted => IdentityHasRow
  BY DEF Accounted, StrayIdentity, IdentityHasRow, Inserting, NoRow
<1> QED BY <1>1, <1>2, NextKeeps, PTL DEF Spec

-----------------------------------------------------------------------------
(***************************************************************************)
(* Events.                                                                 *)
(***************************************************************************)

\* A handler knows no row of the future.
IdsOld == \A r \in Slots : run[r].pc # "insert" => run[r].id <= ids

\* At most one refresh is at the row it wrote, and has yet to tell the status it wrote.
Followed ==
    ~broken /\ ~overlapped =>
        /\ \A r, q \in Slots : At(r) /\ At(q) => r = q
        /\ \A r \in Slots : At(r) /\ HasRow(r) => row.status = run[r].got /\ told = run[r].prev
        /\ row # NoRow /\ (\A r \in Slots : At(r) => ~HasRow(r)) => told = row.status

\* A step that leaves the row's status, the events and the refreshes at the row alone, or
\* breaks one of them.
Steady ==
    /\ UNCHANGED <<row.id, row.status, told, ids>>
    /\ (row' = NoRow) <=> (row = NoRow)
    /\ broken => broken'
    /\ overlapped => overlapped'
    /\ broken' \/ \A r \in Slots :
          /\ At(r)' <=> At(r)
          /\ At(r) => UNCHANGED <<run[r].id, run[r].prev, run[r].got>>
    /\ \A r \in Slots :
          \/ run'[r] = run[r] \/ run'[r].pc = "insert" \/ run'[r].id \in {0, row.id}
          \/ run[r].pc # "insert" /\ run'[r].id = run[r].id

LEMMA SteadyKeepsFollowed == Followed /\ Steady => Followed'
<1> SUFFICES ASSUME Followed, Steady, ~broken' PROVE Followed'
  BY DEF Followed
<1>1. \A r \in Slots : At(r) => (HasRow(r)' <=> HasRow(r))
  BY DEF Steady, HasRow
<1>2. /\ UNCHANGED <<row.status, told>>
      /\ row' # NoRow => row # NoRow
      /\ ~overlapped' => ~broken /\ ~overlapped
  BY DEF Steady
<1>3. \A r \in Slots :
         (At(r)' <=> At(r)) /\ (At(r) => UNCHANGED <<run[r].prev, run[r].got>>)
  BY DEF Steady
<1> QED BY <1>1, <1>2, <1>3 DEF Followed

LEMMA SteadyKeepsIds == TypeOK /\ IdsOld /\ Steady => IdsOld'
BY DEF Steady, IdsOld, TypeOK

\* The points of At.
AtPoints == {"checked", "ever", "reserve", "mail", "note", "emit"}

\* A handler that moves, and does not write the row.
LEMMA MoveIsSteady ==
    ASSUME TypeOK, NEW r \in Slots, NEW v, run' = [run EXCEPT ![r] = v],
           UNCHANGED <<row, told, ids, overlapped>>, broken => broken',
           \/ broken'
           \/ /\ v.pc \in AtPoints <=> run[r].pc \in AtPoints
              /\ At(r) => v.id = run[r].id /\ v.prev = run[r].prev /\ v.got = run[r].got,
           \/ v.pc = "insert" \/ v.id \in {0, row.id}
           \/ run[r].pc # "insert" /\ v.id = run[r].id
    PROVE  Steady
<1>1. run'[r] = v /\ \A q \in Slots \ {r} : run'[q] = run[q]
  BY DEF TypeOK
<1>2. \A q \in Slots : (At(q) <=> run[q].pc \in AtPoints) /\ (At(q)' <=> run'[q].pc \in AtPoints)
  BY DEF At, AtPoints
<1> HIDE DEF AtPoints
<1> QED BY <1>1, <1>2 DEF Steady

LEMMA GoIsSteady ==
    ASSUME TypeOK, NEW r \in Slots, NEW p \in Points, GoesTo(r, p), run[r].pc # "insert",
           UNCHANGED <<row, told, ids, overlapped>>, broken => broken',
           p \in AtPoints <=> run[r].pc \in AtPoints
    PROVE  Steady
<1> DEFINE v == [run[r] EXCEPT !.pc = p]
<1>1. v.pc = p /\ v.id = run[r].id /\ v.prev = run[r].prev /\ v.got = run[r].got
  BY DEF TypeOK, Locals
<1>2. run' = [run EXCEPT ![r] = v]
  BY DEF GoesTo
<1> HIDE DEF v
<1> QED BY <1>1, <1>2, MoveIsSteady

LEMMA EndIsSteady ==
    ASSUME TypeOK, NEW r \in Slots, Ends(r), broken' \/ ~At(r),
           UNCHANGED <<row, told, ids, overlapped>>, broken => broken'
    PROVE  Steady
<1>1. Idle.pc \notin AtPoints /\ Idle.id = 0
  BY DEF Idle, AtPoints
<1>2. run' = [run EXCEPT ![r] = Idle]
  BY DEF Ends
<1>3. broken' \/ run[r].pc \notin AtPoints
  BY DEF At, AtPoints
<1> HIDE DEF Idle, AtPoints
<1> QED BY <1>1, <1>2, <1>3, MoveIsSteady DEF At, AtPoints

\* The steps of requests and of the job, up to the row.
LEMMA BeforeIsSteady ==
    ASSUME TypeOK, NEW r \in Slots,
           \/ Requested(r) \/ AddIdentity(r) \/ DropIdentity(r) \/ ReadState(r) \/ AskSes(r)
           \/ JobRead \/ JobDue
    PROVE  Steady
<1> USE DEF AtPoints
<1>1. UNCHANGED <<row, told, ids, overlapped, broken>>
  BY DEF Requested, AskCreate, AskDelete, AskGet, Asks, AddIdentity, DropIdentity, ReadState, AskSes,
         JobRead, JobDue, hist, made, faulty
<1>2. CASE Requested(r)
  <2>1. PICK v : /\ run' = [run EXCEPT ![r] = v] /\ run[r].pc = "idle"
                 /\ v.pc \in {"add", "drop", "state"} /\ v.id \in {0, row.id}
    <3>1. CASE AskCreate(r)
      <4> DEFINE v == [Idle EXCEPT !.pc = "add"]
      <4>1. v.pc \in {"add", "drop", "state"} /\ v.id \in {0, row.id}
        BY DEF Idle, Found
      <4>2. run' = [run EXCEPT ![r] = v] /\ run[r].pc = "idle"
        BY <3>1 DEF AskCreate, Asks
      <4> HIDE DEF v
      <4> QED BY <4>1, <4>2
    <3>2. CASE AskDelete(r)
      <4> DEFINE v == [Idle EXCEPT !.pc = "drop", !.id = row.id]
      <4>1. v.pc \in {"add", "drop", "state"} /\ v.id \in {0, row.id}
        BY DEF Idle, Found
      <4>2. run' = [run EXCEPT ![r] = v] /\ run[r].pc = "idle"
        BY <3>2 DEF AskDelete, Asks
      <4> HIDE DEF v
      <4> QED BY <4>1, <4>2
    <3>3. CASE AskGet(r)
      <4> DEFINE v == [Found EXCEPT !.pc = "state", !.verifying = FALSE]
      <4>1. v.pc \in {"add", "drop", "state"} /\ v.id \in {0, row.id}
        BY DEF Idle, Found
      <4>2. run' = [run EXCEPT ![r] = v] /\ run[r].pc = "idle"
        BY <3>3 DEF AskGet, Asks
      <4> HIDE DEF v
      <4> QED BY <4>1, <4>2
    <3> QED BY <1>2, <3>1, <3>2, <3>3 DEF Requested
  <2> QED BY <1>1, <2>1, MoveIsSteady DEF At
<1>3. CASE AddIdentity(r)
  <2>1. run[r].pc = "add"
    BY <1>3 DEF AddIdentity
  <2>2. CASE Ends(r)
    BY <1>1, <2>1, <2>2, EndIsSteady DEF At
  <2>3. CASE run' = [run EXCEPT ![r].pc = "insert", ![r].id = adds + 1]
    <3> DEFINE v == [run[r] EXCEPT !.pc = "insert", !.id = adds + 1]
    <3>1. v.pc = "insert"
      BY DEF TypeOK, Locals
    <3>2. run' = [run EXCEPT ![r] = v]
      BY <2>3
    <3> HIDE DEF v
    <3> QED BY <1>1, <2>1, <3>1, <3>2, MoveIsSteady DEF At
  <2> QED BY <1>3, <2>2, <2>3 DEF AddIdentity
<1>4. CASE DropIdentity(r)
  <2>1. run[r].pc = "drop" /\ "remove" \in Points
    BY <1>4 DEF DropIdentity, Points
  <2> QED BY <1>1, <1>4, <2>1, EndIsSteady, GoIsSteady DEF DropIdentity, At
<1>5. CASE ReadState(r)
  <2> DEFINE k == KeysOf(run[r].id)
             v == [run[r] EXCEPT !.pc = "ask", !.ever = k.ever, !.notified = k.notified]
  <2>1. v.pc = "ask" /\ v.id = run[r].id
    BY DEF TypeOK, Locals
  <2>2. run' = [run EXCEPT ![r] = v] /\ run[r].pc = "state"
    BY <1>5 DEF ReadState
  <2> HIDE DEF v
  <2> QED BY <1>1, <2>1, <2>2, MoveIsSteady DEF At
<1>6. CASE AskSes(r)
  <2> DEFINE v == [run[r] EXCEPT !.pc = "update", !.got = identity.status]
  <2>1. v.pc = "update" /\ v.id = run[r].id
    BY DEF TypeOK, Locals
  <2>2. run[r].pc = "ask" /\ (Ends(r) \/ run' = [run EXCEPT ![r] = v])
    BY <1>6 DEF AskSes
  <2> HIDE DEF v
  <2> QED BY <1>1, <2>1, <2>2, MoveIsSteady, EndIsSteady DEF At
<1>7. CASE JobRead
  <2>1. Job \in Slots
    BY DEF Slots
  <2> DEFINE v == [Found EXCEPT !.pc = "due"]
  <2>2. v.pc = "due" /\ v.id = row.id
    BY DEF Found, Idle
  <2>3. run' = [run EXCEPT ![Job] = v] /\ run[Job].pc = "idle"
    BY <1>7 DEF JobRead
  <2> HIDE DEF v
  <2> QED BY <1>1, <2>1, <2>2, <2>3, MoveIsSteady DEF At
<1>8. CASE JobDue
  <2>1. Job \in Slots
    BY DEF Slots
  <2> DEFINE v == [run[Job] EXCEPT !.pc = "state", !.verifying = FALSE]
  <2>2. v.pc = "state" /\ v.id = run[Job].id
    BY <2>1 DEF TypeOK, Locals
  <2>3. run[Job].pc = "due" /\ (Ends(Job) \/ run' = [run EXCEPT ![Job] = v])
    BY <1>8 DEF JobDue, Ends
  <2> HIDE DEF v
  <2> QED BY <1>1, <2>1, <2>2, <2>3, MoveIsSteady, EndIsSteady DEF At
<1> QED BY <1>2, <1>3, <1>4, <1>5, <1>6, <1>7, <1>8

\* What a refresh does at the row before its event, and a handler that stops.
LEMMA AtIsSteady ==
    ASSUME TypeOK, NEW r \in Slots,
           SetChecked(r) \/ MarkEver(r) \/ Reserve(r) \/ Mail(r) \/ SetNotified(r) \/ Stops(r)
    PROVE  Steady
<1>1. /\ UNCHANGED <<row, told, ids, overlapped>>
      /\ broken => broken'
  <2>1. CASE SetChecked(r) \/ MarkEver(r) \/ Reserve(r)
    BY <2>1 DEF SetChecked, MarkEver, Reserve, hist, made, faulty
  <2>2. CASE Mail(r)
    BY <2>2 DEF Mail, made
  <2>3. CASE SetNotified(r)
    BY <2>3 DEF SetNotified, hist, made
  <2>4. CASE Stops(r)
    <3>1. UNCHANGED <<row, hist, made, overlapped>> /\ broken' = (broken \/ At(r))
      BY <2>4 DEF Stops
    <3> QED BY <3>1 DEF hist, made
  <2> QED BY <2>1, <2>2, <2>3, <2>4
<1>2. CASE SetChecked(r) \/ MarkEver(r) \/ Mail(r) \/ SetNotified(r)
  <2>1. \E p \in {"ever", "reserve", "note", "emit"} : GoesTo(r, p)
    BY <1>2 DEF SetChecked, MarkEver, Mail, SetNotified
  <2>2. run[r].pc \in AtPoints
    BY <1>2 DEF SetChecked, MarkEver, Mail, SetNotified, AtPoints
  <2>3. {"ever", "reserve", "note", "emit"} \subseteq Points \cap AtPoints /\ "insert" \notin AtPoints
    BY DEF Points, AtPoints
  <2> QED BY <1>1, <2>1, <2>2, <2>3, GoIsSteady
<1>3. CASE Reserve(r)
  <2>1. PICK p \in {"mail", "emit"} : Forget(r, p)
    BY <1>3 DEF Reserve
  <2> DEFINE v == [run[r] EXCEPT !.pc = p, !.ever = FALSE, !.notified = "none"]
  <2>2. v.pc = p /\ v.id = run[r].id /\ v.prev = run[r].prev /\ v.got = run[r].got
    BY DEF TypeOK, Locals
  <2>3. run' = [run EXCEPT ![r] = v] /\ run[r].pc = "reserve"
    BY <1>3, <2>1 DEF Reserve, Forget
  <2> HIDE DEF v
  <2> QED BY <1>1, <2>2, <2>3, MoveIsSteady DEF AtPoints
<1>4. CASE Stops(r)
  <2>1. Ends(r) /\ (broken' \/ ~At(r))
    BY <1>4 DEF Stops
  <2> QED BY <1>1, <2>1, EndIsSteady
<1> QED BY <1>2, <1>3, <1>4

LEMMA OthersAreSteady ==
    ASSUME Typed,
           \/ StartVerification \/ ElsewhereChanges \/ SesChanges \/ CheckAges
           \/ (\E s \in Status : LockExpires(s)) \/ UNCHANGED vars
    PROVE  Steady
<1>1. UNCHANGED <<run, told, ids, overlapped, broken>>
  BY DEF StartVerification, ElsewhereChanges, SesChanges, CheckAges, LockExpires, vars, hist, made, faulty
<1>2. UNCHANGED row \/ (row # NoRow /\ row' = [row EXCEPT !.verifying = TRUE])
  BY DEF StartVerification, ElsewhereChanges, SesChanges, CheckAges, LockExpires, vars
<1>3. /\ UNCHANGED <<row.id, row.status>>
      /\ (row' = NoRow) <=> (row = NoRow)
  <2>1. row # NoRow => row.id # NoRow.id
    BY DEF Typed, Numbers, TypeOK, NoRow
  <2> QED BY <1>2, <2>1 DEF Typed, TypeOK
<1> QED BY <1>1, <1>3 DEF Steady, At

\* The steps that change the row or tell of it.
LEMMA RowStepsKeepFollowed ==
    ASSUME Typed, IdsOld, Followed, NEW r \in Slots,
           InsertRow(r) \/ RemoveRow(r) \/ UpdateRow(r) \/ Emit(r)
    PROVE  IdsOld' /\ Followed'
<1> USE DEF Typed
<1> DEFINE Left == /\ run'[r].id = 0 /\ run'[r].pc = "idle"
                   /\ \A q \in Slots \ {r} : run'[q] = run[q]
<1>1. Ends(r) => Left
  BY DEF Ends, Idle, TypeOK
<1>2. ids \in Nat /\ \A q \in Slots : run[q].id \in Nat
  BY DEF TypeOK, Locals
<1>3. CASE InsertRow(r)
  <2>1. Left /\ ~At(r) /\ UNCHANGED <<broken, overlapped>>
    BY <1>1, <1>3 DEF InsertRow, At
  <2>2. CASE row # NoRow \/ elsewhere
    <3>1. UNCHANGED <<row, told, ids>>
      BY <1>3, <2>2 DEF InsertRow, hist
    <3>2. IdsOld'
      BY <1>2, <2>1, <3>1 DEF IdsOld
    <3>3. Followed'
      BY <2>1, <3>1 DEF Followed, At, HasRow
    <3> QED BY <3>2, <3>3
  <2>3. CASE row = NoRow /\ ~elsewhere
    <3>1. ids' = ids + 1 /\ told' = "PENDING"
      BY <1>3, <2>3 DEF InsertRow
    <3>2. row'.id = ids + 1 /\ row'.status = "PENDING"
      BY <1>3, <2>3 DEF InsertRow, NoRow
    <3>3. IdsOld'
      BY <1>2, <2>1, <3>1 DEF IdsOld
    <3>4. \A q \in Slots : At(q)' => At(q) /\ run'[q] = run[q]
      BY <2>1 DEF At
    <3>5. \A q \in Slots : At(q)' => ~HasRow(q)'
      BY <1>2, <3>2, <3>4 DEF HasRow, IdsOld, At
    <3>6. ~broken' /\ ~overlapped' => \A p, q \in Slots : At(p)' /\ At(q)' => p = q
      BY <2>1, <3>4 DEF Followed
    <3> QED BY <3>1, <3>2, <3>3, <3>5, <3>6 DEF Followed
  <2> QED BY <2>2, <2>3
<1>4. CASE RemoveRow(r)
  <2>1. Left /\ ~At(r) /\ UNCHANGED <<ids, told, broken, overlapped>>
    BY <1>1, <1>4 DEF RemoveRow, At, made, hist
  <2>2. row' = NoRow \/ UNCHANGED row
    BY <1>4 DEF RemoveRow
  <2>3. IdsOld'
    BY <1>2, <2>1 DEF IdsOld
  <2>4. Followed'
    BY <2>1, <2>2 DEF Followed, At, HasRow
  <2> QED BY <2>3, <2>4
<1>5. CASE UpdateRow(r)
  <2>1. run[r].pc = "update" /\ UNCHANGED <<ids, told, broken>>
    BY <1>5 DEF UpdateRow, made, hist
  <2>2. CASE ~HasRow(r)
    <3>1. Left /\ ~At(r) /\ UNCHANGED <<row, overlapped>>
      BY <1>1, <1>5, <2>1, <2>2 DEF UpdateRow, At
    <3>2. IdsOld'
      BY <1>2, <2>1, <3>1 DEF IdsOld
    <3>3. Followed'
      BY <2>1, <3>1 DEF Followed, At, HasRow
    <3> QED BY <3>2, <3>3
  <2>3. CASE HasRow(r)
    <3>1. row'.status = run[r].got /\ UNCHANGED <<row.id>>
      BY <1>5, <2>3 DEF UpdateRow, TypeOK
    <3>2. overlapped' = (overlapped \/ row.status # run[r].prev \/ \E q \in Slots : At(q))
      BY <1>5, <2>3 DEF UpdateRow
    <3>3. GoesTo(r, "checked")
      BY <1>5, <2>3 DEF UpdateRow
    <3>4. /\ run'[r].pc = "checked" /\ run'[r].id = run[r].id
          /\ run'[r].prev = run[r].prev /\ run'[r].got = run[r].got
          /\ \A q \in Slots \ {r} : run'[q] = run[q]
      BY <3>3 DEF GoesTo, TypeOK, Locals
    <3>5. IdsOld'
      BY <1>2, <2>1, <3>4 DEF IdsOld
    <3>6. ASSUME ~broken', ~overlapped' PROVE Followed'
      <4>1. /\ ~broken /\ ~overlapped /\ row # NoRow /\ row.status = run[r].prev
            /\ \A q \in Slots : ~At(q)
        BY <2>1, <2>3, <3>2, <3>6 DEF HasRow
      <4>2. told' = run'[r].prev
        BY <2>1, <3>4, <4>1 DEF Followed
      <4>3. \A q \in Slots : At(q)' <=> q = r
        BY <3>4, <4>1 DEF At
      <4>4. HasRow(r)'
        <5>1. row.id # NoRow.id
          BY <2>3 DEF HasRow, Numbers, TypeOK, NoRow
        <5> QED BY <2>3, <3>1, <3>4, <5>1 DEF HasRow
      <4> QED BY <3>1, <3>4, <4>2, <4>3, <4>4 DEF Followed
    <3> QED BY <3>5, <3>6 DEF Followed
  <2> QED BY <2>2, <2>3
<1>6. CASE Emit(r)
  <2>1. Left /\ At(r) /\ run[r].pc = "emit" /\ UNCHANGED <<row, ids, broken, overlapped>>
    BY <1>1, <1>6 DEF Emit, At, made, faulty
  <2>2. told' = IF HasRow(r) /\ run[r].prev # run[r].got THEN run[r].got ELSE told
    BY <1>6 DEF Emit
  <2>3. IdsOld'
    BY <1>2, <2>1 DEF IdsOld
  <2>4. ASSUME ~broken, ~overlapped PROVE Followed'
    <3>1. \A q \in Slots : ~At(q)'
      BY <2>1, <2>4 DEF Followed, At
    <3>2. row # NoRow => told' = row.status
      <4>1. CASE HasRow(r)
        BY <2>1, <2>2, <2>4, <4>1 DEF Followed
      <4>2. CASE ~HasRow(r)
        BY <2>1, <2>2, <2>4, <4>2 DEF Followed
      <4> QED BY <4>1, <4>2
    <3> QED BY <2>1, <3>1, <3>2 DEF Followed
  <2>5. Followed'
    BY <2>1, <2>4 DEF Followed
  <2> QED BY <2>3, <2>5
<1> QED BY <1>3, <1>4, <1>5, <1>6

LEMMA InitFollowed == Init => IdsOld /\ Followed
<1> SUFFICES ASSUME Init PROVE IdsOld /\ Followed
  OBVIOUS
<1>1. \A r \in Slots : run[r].pc = "idle" /\ run[r].id = 0
  BY DEF Init, Idle
<1>2. ids \in Nat /\ told = "PENDING"
  BY DEF Init
<1>3. row.status = "PENDING"
  <2>1. [NoRow EXCEPT !.id = 1, !.key = 1].status = "PENDING" /\ NoRow.status = "PENDING"
    BY DEF NoRow
  <2> HIDE DEF NoRow
  <2> QED BY <2>1 DEF Init
<1> QED BY <1>1, <1>2, <1>3 DEF IdsOld, Followed, At

LEMMA NextKeepsFollowed ==
    Typed /\ IdsOld /\ Followed /\ [Next]_vars => IdsOld' /\ Followed'
<1> SUFFICES ASSUME Typed, IdsOld, Followed, [Next]_vars PROVE IdsOld' /\ Followed'
  OBVIOUS
<1>1. Steady => IdsOld' /\ Followed'
  BY SteadyKeepsIds, SteadyKeepsFollowed DEF Typed
<1>2. ASSUME NEW r \in Requests, Requested(r) PROVE Steady
  <2>1. r \in Slots
    BY DEF Slots
  <2> QED BY <1>2, <2>1, BeforeIsSteady DEF Typed
<1>3. ASSUME NEW r \in Slots, Handler(r) \/ Stops(r) PROVE IdsOld' /\ Followed'
  BY <1>1, <1>3, BeforeIsSteady, AtIsSteady, RowStepsKeepFollowed DEF Handler, Refresh, Typed
<1>4. CASE JobRead \/ JobDue
  <2>1. Job \in Slots
    BY DEF Slots
  <2> QED BY <1>1, <1>4, <2>1, BeforeIsSteady DEF Typed
<1>5. CASE \/ StartVerification \/ ElsewhereChanges \/ SesChanges \/ CheckAges
           \/ (\E s \in Status : LockExpires(s)) \/ UNCHANGED vars
  BY <1>1, <1>5, OthersAreSteady
<1> QED BY <1>1, <1>2, <1>3, <1>4, <1>5 DEF Next

\* A subscriber of domain events knows the status that the row shows whenever no refresh is
\* between its update of the row and its event (emitDomainEvent), if no two refreshes of
\* getDomain and the job overlapped there and none stopped there.
THEOREM EventsTellTheRow == Spec => []EventsFollowRow
<1>1. Init => (Typed /\ Accounted) /\ (IdsOld /\ Followed)
  BY InitTyped, InitAccounted, InitFollowed
<1>2. (Typed /\ Accounted) /\ (IdsOld /\ Followed) /\ [Next]_vars
         => (Typed /\ Accounted)' /\ (IdsOld /\ Followed)'
  BY NextKeeps, NextKeepsFollowed
<1>3. IdsOld /\ Followed => EventsFollowRow
  BY DEF Followed, EventsFollowRow
<1> QED BY <1>1, <1>2, <1>3, PTL DEF Spec

-----------------------------------------------------------------------------
(***************************************************************************)
(* Mails.                                                                  *)
(***************************************************************************)

\* From the read of the keys to the reservation, and from there to the record of the mail.
Early == {"ask", "update", "checked", "ever", "reserve"}
Sending == {"mail", "note"}

Sends(r) == run[r].pc \in Sending /\ HasRow(r)
Noted(r) == run[r].pc = "note" /\ HasRow(r)

\* Who sends has the lock of its status, alone; the last mail is recorded or is about to be,
\* and a refresh that read the keys before it finds the lock of its status.
Mailed ==
    ~broken /\ ~crossed /\ ~slow =>
        /\ \A r \in Slots : Sends(r) => run[r].got \in locks
        /\ \A r, q \in Slots : Sends(r) /\ Sends(q) /\ run[r].got = run[q].got => r = q
        /\ row # NoRow => mailed = keys.notified \/ \E r \in Slots : Noted(r) /\ run[r].got = mailed
        /\ \A r \in Slots : run[r].pc \in Early /\ HasRow(r)
                => mailed \in locks \cup {run[r].notified, "none"}
        /\ \A r \in Slots : run[r].pc = "mail" /\ HasRow(r) => mailed # run[r].got

SameRow ==
    /\ UNCHANGED row.id
    /\ (row' = NoRow) <=> (row = NoRow)

FaultsStay == (broken => broken') /\ (crossed => crossed') /\ (slow => slow')

\* A step of one handler that reads no keys, and neither takes a lock nor mails.
LEMMA MoveKeepsMailed ==
    ASSUME Mailed, NEW r \in Slots, \A q \in Slots \ {r} : run'[q] = run[q],
           SameRow, FaultsStay, UNCHANGED <<locks, mailed, keys.notified>>,
           run'[r].pc \notin Sending, broken' \/ run[r].pc # "note",
           run'[r].pc \in Early
              => run[r].pc \in Early /\ run'[r].id = run[r].id /\ run'[r].notified = run[r].notified
    PROVE  Mailed'
<1> SUFFICES ASSUME ~broken', ~crossed', ~slow' PROVE Mailed'
  BY DEF Mailed
<1>1. ~broken /\ ~crossed /\ ~slow /\ run[r].pc # "note"
  BY DEF FaultsStay
<1>2. \A q \in Slots \ {r} : HasRow(q)' <=> HasRow(q)
  BY DEF HasRow, SameRow
<1>3. \A q \in Slots : Sends(q)' => q # r /\ Sends(q)
  BY <1>2 DEF Sends
<1>4. \A q \in Slots : Noted(q) => q # r /\ Noted(q)'
  BY <1>1, <1>2 DEF Noted
<1>5. \A q \in Slots : (run[q].pc \in Early /\ HasRow(q))'
         => run[q].pc \in Early /\ HasRow(q) /\ run'[q].notified = run[q].notified
  BY <1>2 DEF HasRow, SameRow
<1>6. \A q \in Slots : (run[q].pc = "mail" /\ HasRow(q))' => q # r /\ run[q].pc = "mail" /\ HasRow(q)
  BY <1>2 DEF Sending
<1>7. \A q \in Slots : Sends(q)' => run'[q].got \in locks'
  BY <1>1, <1>3 DEF Mailed
<1>8. \A p, q \in Slots : Sends(p)' /\ Sends(q)' /\ run'[p].got = run'[q].got => p = q
  BY <1>1, <1>3 DEF Mailed
<1>9. row' # NoRow =>
         mailed' = keys'.notified \/ \E q \in Slots : Noted(q)' /\ run'[q].got = mailed'
  BY <1>1, <1>4 DEF Mailed, SameRow
<1>10. \A q \in Slots : (run[q].pc \in Early /\ HasRow(q))'
          => mailed' \in locks' \cup {run'[q].notified, "none"}
  BY <1>1, <1>5 DEF Mailed
<1>11. \A q \in Slots : (run[q].pc = "mail" /\ HasRow(q))' => mailed' # run'[q].got
  BY <1>1, <1>6 DEF Mailed
<1> QED BY <1>7, <1>8, <1>9, <1>10, <1>11 DEF Mailed

\* Requests and the job before they read the keys, and the refresh but for its mail.
LEMMA QuietStepsKeepMailed ==
    ASSUME Typed, Mailed, NEW r \in Slots,
           \/ Requested(r) \/ AddIdentity(r) \/ DropIdentity(r) \/ AskSes(r) \/ UpdateRow(r)
           \/ SetChecked(r) \/ MarkEver(r) \/ Emit(r) \/ Stops(r) \/ ((JobRead \/ JobDue) /\ r = Job)
    PROVE  Mailed'
<1> USE DEF Early, Sending, Typed
<1>1. ASSUME NEW v, run' = [run EXCEPT ![r] = v], v.pc \notin Early \cup Sending,
             SameRow, FaultsStay, UNCHANGED <<locks, mailed, keys.notified>>,
             broken' \/ run[r].pc # "note"
      PROVE  Mailed'
  <2>1. run'[r] = v /\ \A q \in Slots \ {r} : run'[q] = run[q]
    BY <1>1 DEF TypeOK
  <2> QED BY <1>1, <2>1, MoveKeepsMailed
<1>2. ASSUME NEW p \in {"update", "checked", "ever", "reserve"}, run[r].pc \in Early,
             \/ GoesTo(r, p)
             \/ \E s \in Status : run' = [run EXCEPT ![r].pc = p, ![r].got = s],
             SameRow, FaultsStay, UNCHANGED <<locks, mailed, keys.notified>>
      PROVE  Mailed'
  <2>1. /\ run'[r].pc = p /\ run'[r].id = run[r].id /\ run'[r].notified = run[r].notified
        /\ \A q \in Slots \ {r} : run'[q] = run[q]
    BY <1>2 DEF TypeOK, Locals, GoesTo
  <2> QED BY <1>2, <2>1, MoveKeepsMailed
<1>3. Idle.pc \notin Early \cup Sending
  BY DEF Idle
<1>4. CASE Requested(r) \/ AddIdentity(r) \/ DropIdentity(r) \/ ((JobRead \/ JobDue) /\ r = Job)
  <2>1. SameRow /\ FaultsStay /\ UNCHANGED <<locks, mailed, keys.notified>>
    BY <1>4 DEF Requested, AskCreate, AskDelete, AskGet, Asks, AddIdentity, DropIdentity, JobRead,
                JobDue, SameRow, FaultsStay, redis, hist, faulty
  <2>2. run[r].pc # "note"
    BY <1>4 DEF Requested, AskCreate, AskDelete, AskGet, Asks, AddIdentity, DropIdentity, JobRead,
                JobDue
  <2>3. PICK v : run' = [run EXCEPT ![r] = v] /\ v.pc \notin Early \cup Sending
    <3>1. CASE Requested(r)
      <4>1. [Idle EXCEPT !.pc = "add"].pc = "add" /\ [Idle EXCEPT !.pc = "drop", !.id = row.id].pc = "drop"
            /\ [Found EXCEPT !.pc = "state", !.verifying = FALSE].pc = "state"
        BY DEF Idle, Found
      <4> QED BY <3>1, <4>1 DEF Requested, AskCreate, AskDelete, AskGet, Asks
    <3>2. CASE AddIdentity(r)
      <4>1. [run[r] EXCEPT !.pc = "insert", !.id = adds + 1].pc = "insert"
        BY DEF TypeOK, Locals
      <4> QED BY <1>3, <3>2, <4>1 DEF AddIdentity, Ends
    <3>3. CASE DropIdentity(r)
      <4>1. [run[r] EXCEPT !.pc = "remove"].pc = "remove"
        BY DEF TypeOK, Locals
      <4> QED BY <1>3, <3>3, <4>1 DEF DropIdentity, Ends, GoesTo
    <3>4. CASE JobRead /\ r = Job
      <4>1. [Found EXCEPT !.pc = "due"].pc = "due"
        BY DEF Idle, Found
      <4> QED BY <3>4, <4>1 DEF JobRead
    <3>5. CASE JobDue /\ r = Job
      <4>1. [run[r] EXCEPT !.pc = "state", !.verifying = FALSE].pc = "state"
        BY DEF TypeOK, Locals
      <4> QED BY <1>3, <3>5, <4>1 DEF JobDue
    <3> QED BY <1>4, <3>1, <3>2, <3>3, <3>4, <3>5
  <2> QED BY <1>1, <2>1, <2>2, <2>3
<1>5. CASE AskSes(r)
  <2>1. SameRow /\ FaultsStay /\ UNCHANGED <<locks, mailed, keys.notified>> /\ run[r].pc = "ask"
    BY <1>5 DEF AskSes, SameRow, FaultsStay, redis, hist, faulty
  <2>2. identity.status \in Status
    BY DEF TypeOK
  <2> QED BY <1>1, <1>2, <1>3, <1>5, <2>1, <2>2 DEF AskSes, Ends
<1>6. CASE UpdateRow(r)
  <2>1. FaultsStay /\ UNCHANGED <<locks, mailed, keys.notified>> /\ run[r].pc = "update"
    BY <1>6 DEF UpdateRow, FaultsStay, redis, hist
  <2>2. CASE ~HasRow(r)
    <3>1. SameRow /\ run' = [run EXCEPT ![r] = Idle]
      BY <1>6, <2>2 DEF UpdateRow, SameRow, Ends
    <3> QED BY <1>1, <1>3, <2>1, <3>1
  <2>3. CASE HasRow(r)
    <3>1. row'.id = row.id /\ row # NoRow /\ GoesTo(r, "checked")
      BY <1>6, <2>3 DEF UpdateRow, TypeOK, HasRow
    <3>2. SameRow
      <4>1. row.id # NoRow.id
        BY <2>3 DEF HasRow, Numbers, TypeOK, NoRow
      <4> QED BY <2>3, <3>1, <4>1 DEF SameRow, HasRow
    <3> QED BY <1>2, <2>1, <3>1, <3>2
  <2> QED BY <2>2, <2>3
<1>7. CASE SetChecked(r) \/ MarkEver(r)
  <2>1. FaultsStay /\ UNCHANGED <<locks, mailed>> /\ run[r].pc \in Early /\ SameRow
    BY <1>7 DEF SetChecked, MarkEver, FaultsStay, hist, faulty, SameRow
  <2>2. keys'.notified = keys.notified
    BY <1>7 DEF SetChecked, MarkEver, Keys, TypeOK
  <2>3. \E p \in {"ever", "reserve"} : GoesTo(r, p)
    BY <1>7 DEF SetChecked, MarkEver
  <2> QED BY <1>2, <2>1, <2>2, <2>3
<1>8. CASE Emit(r) \/ Stops(r)
  <2>1. FaultsStay /\ UNCHANGED <<locks, mailed, keys.notified>> /\ SameRow
    <3>1. CASE Emit(r)
      BY <3>1 DEF Emit, FaultsStay, redis, faulty, SameRow
    <3>2. CASE Stops(r)
      <4>1. UNCHANGED <<row, redis, hist, crossed, slow>> /\ broken' = (broken \/ At(r))
        BY <3>2 DEF Stops
      <4> QED BY <4>1 DEF FaultsStay, redis, hist, SameRow
    <3> QED BY <1>8, <3>1, <3>2
  <2>2. broken' \/ run[r].pc # "note"
    BY <1>8 DEF Emit, Stops, At
  <2>3. run' = [run EXCEPT ![r] = Idle]
    BY <1>8 DEF Emit, Stops, Ends
  <2> QED BY <1>1, <1>3, <2>1, <2>2, <2>3
<1> QED BY <1>4, <1>5, <1>6, <1>7, <1>8

\* A row that is new has no mail and no handler at it; a row that is gone has no handler.
LEMMA RowStepsKeepMailed ==
    ASSUME Typed, IdsOld, Mailed, NEW r \in Slots, InsertRow(r) \/ RemoveRow(r)
    PROVE  Mailed'
<1> USE DEF Typed
<1>1. /\ run'[r].pc = "idle" /\ \A q \in Slots \ {r} : run'[q] = run[q]
      /\ run[r].pc \in {"insert", "remove"} /\ FaultsStay
  BY DEF InsertRow, RemoveRow, Ends, Idle, TypeOK, FaultsStay
<1>2. CASE UNCHANGED row
  <2>1. UNCHANGED <<locks, mailed, keys.notified>>
    <3>1. NoRow.id = 0
      BY DEF NoRow
    <3>2. CASE RemoveRow(r)
      BY <3>2 DEF RemoveRow, redis, hist
    <3>3. CASE InsertRow(r) /\ (row # NoRow \/ elsewhere)
      BY <3>3 DEF InsertRow, redis, hist
    <3>4. CASE InsertRow(r) /\ row = NoRow /\ ~elsewhere
      <4>1. row'.id = ids + 1 /\ ids \in Nat
        BY <3>4 DEF InsertRow, NoRow, TypeOK
      <4> QED BY <1>2, <3>1, <3>4, <4>1
    <3> QED BY <3>2, <3>3, <3>4
  <2>2. SameRow
    BY <1>2 DEF SameRow
  <2> QED BY <1>1, <2>1, <2>2, MoveKeepsMailed DEF Early, Sending
<1>3. CASE ~UNCHANGED row
  <2>1. \A q \in Slots : run'[q].pc \in Early \cup Sending => ~HasRow(q)'
    <3>1. CASE RemoveRow(r)
      BY <1>3, <3>1 DEF RemoveRow, HasRow
    <3>2. CASE InsertRow(r)
      <4>1. row = NoRow /\ ~elsewhere
        BY <1>3, <3>2 DEF InsertRow
      <4>2. row'.id = ids + 1 /\ ids \in Nat
        BY <3>2, <4>1 DEF InsertRow, NoRow, TypeOK
      <4>3. ASSUME NEW q \in Slots, run'[q].pc \in Early \cup Sending PROVE run'[q].id # row'.id
        <5>1. q # r /\ run'[q] = run[q] /\ run[q].pc # "insert"
          BY <1>1, <4>3 DEF Early, Sending
        <5>2. run[q].id \in Nat /\ run[q].id <= ids
          BY <5>1 DEF IdsOld, TypeOK, Locals
        <5> QED BY <4>2, <5>1, <5>2
      <4> QED BY <4>3 DEF HasRow
    <3> QED BY <3>1, <3>2
  <2>2. row' # NoRow => mailed' = "none" /\ keys'.notified = "none"
    BY <1>3 DEF InsertRow, RemoveRow, NoKeys
  <2> QED BY <2>1, <2>2 DEF Mailed, Sends, Noted, Early, Sending
<1> QED BY <1>2, <1>3

\* What a refresh reads is the last mail, or the lock of the last mail is there.
LEMMA ReadStateKeepsMailed ==
    ASSUME TypeOK, Mailed, NEW r \in Slots, ReadState(r)
    PROVE  Mailed'
<1>1. UNCHANGED <<row, keys, locks, mailed, broken, crossed, slow>>
  BY DEF ReadState, redis, hist, faulty
<1>2. /\ run[r].pc = "state" /\ run'[r].pc = "ask" /\ run'[r].id = run[r].id
      /\ run'[r].notified = KeysOf(run[r].id).notified
      /\ \A q \in Slots \ {r} : run'[q] = run[q]
  BY DEF ReadState, TypeOK, Locals
<1> SUFFICES ASSUME ~broken, ~crossed, ~slow PROVE Mailed'
  BY <1>1 DEF Mailed
<1>3. \A q \in Slots : /\ HasRow(q)' <=> HasRow(q)
                       /\ run'[q].pc \in Sending => q # r
                       /\ run[q].pc \in Sending => q # r
  BY <1>1, <1>2 DEF HasRow, Sending
<1>4. \A q \in Slots : /\ Sends(q)' => q # r /\ Sends(q) /\ run'[q] = run[q]
                       /\ Noted(q) => q # r /\ Noted(q)' /\ run'[q] = run[q]
  BY <1>2, <1>3 DEF Sends, Noted, Sending
<1>5. row # NoRow => mailed \in locks \cup {keys.notified}
  <2>1. \A q \in Slots : Noted(q) => run[q].got \in locks
    BY DEF Mailed, Noted, Sends, Sending
  <2> QED BY <2>1 DEF Mailed
<1>6. \A q \in Slots : (run[q].pc \in Early /\ HasRow(q))'
         => mailed' \in locks' \cup {run'[q].notified, "none"}
  <2>1. HasRow(r) => run'[r].notified = keys.notified /\ row # NoRow
    BY <1>2 DEF HasRow, KeysOf
  <2>2. \A q \in Slots \ {r} : (run[q].pc \in Early /\ HasRow(q))' => run[q].pc \in Early /\ HasRow(q)
    BY <1>2, <1>3
  <2> QED BY <1>1, <1>2, <1>3, <1>5, <2>1, <2>2 DEF Mailed
<1>7. \A q \in Slots : (run[q].pc = "mail" /\ HasRow(q))' => q # r /\ run[q].pc = "mail" /\ HasRow(q)
  BY <1>2, <1>3
<1>8. \A q \in Slots : Sends(q)' => run'[q].got \in locks'
  BY <1>1, <1>4 DEF Mailed
<1>9. \A p, q \in Slots : Sends(p)' /\ Sends(q)' /\ run'[p].got = run'[q].got => p = q
  BY <1>4 DEF Mailed
<1>10. row' # NoRow =>
          mailed' = keys'.notified \/ \E q \in Slots : Noted(q)' /\ run'[q].got = mailed'
  BY <1>1, <1>4 DEF Mailed
<1>11. \A q \in Slots : (run[q].pc = "mail" /\ HasRow(q))' => mailed' # run'[q].got
  BY <1>1, <1>2, <1>7 DEF Mailed
<1> QED BY <1>6, <1>8, <1>9, <1>10, <1>11 DEF Mailed

\* Who takes the lock of a status is alone to send it, and it is not the last mail.
LEMMA ReserveKeepsMailed ==
    ASSUME Typed, Mailed, NEW r \in Slots, Reserve(r)
    PROVE  Mailed'
<1> USE DEF Typed
<1>1. /\ run[r].pc = "reserve" /\ UNCHANGED <<row, keys, mailed, broken, crossed, slow>>
  BY DEF Reserve, hist, faulty
<1>2. CASE Forget(r, "emit") /\ UNCHANGED locks
  <2>1. run'[r].pc = "emit" /\ \A q \in Slots \ {r} : run'[q] = run[q]
    BY <1>2 DEF Forget, TypeOK, Locals
  <2>2. SameRow /\ FaultsStay
    BY <1>1 DEF SameRow, FaultsStay
  <2>3. run'[r].pc \notin Sending /\ run'[r].pc \notin Early /\ run[r].pc # "note"
    BY <1>1, <2>1 DEF Sending, Early
  <2> HIDE DEF Typed
  <2> QED BY <1>1, <1>2, <2>1, <2>2, <2>3, MoveKeepsMailed
<1>3. CASE /\ ShouldSend(run[r]) /\ run[r].got \notin locks /\ Forget(r, "mail")
           /\ locks' = IF HasRow(r) THEN locks \cup {run[r].got} ELSE locks
  <2>1. /\ run'[r].pc = "mail" /\ run'[r].id = run[r].id /\ run'[r].got = run[r].got
        /\ \A q \in Slots \ {r} : run'[q] = run[q]
    BY <1>3 DEF Forget, TypeOK, Locals
  <2> SUFFICES ASSUME ~broken, ~crossed, ~slow PROVE Mailed'
    BY <1>1 DEF Mailed
  <2>2. \A q \in Slots : HasRow(q)' <=> HasRow(q)
    BY <1>1, <2>1 DEF HasRow
  <2>3. /\ \A q \in Slots \ {r} : Sends(q)' <=> Sends(q)
        /\ Sends(r)' <=> HasRow(r)
        /\ \A q \in Slots : Noted(q)' <=> Noted(q)
        /\ \A q \in Slots : Noted(q) => q # r
    BY <1>1, <2>1, <2>2 DEF Sends, Noted, Sending
  <2>4. run[r].got # run[r].notified /\ run[r].got \in Status
    BY <1>3 DEF ShouldSend, TypeOK, Locals
  <2>5. locks \subseteq locks' /\ (HasRow(r) => run[r].got \in locks')
    BY <1>3
  <2>6. \A q \in Slots : Sends(q)' => run'[q].got \in locks'
    BY <2>1, <2>3, <2>5 DEF Mailed
  <2>7. \A p, q \in Slots : Sends(p)' /\ Sends(q)' /\ run'[p].got = run'[q].got => p = q
    BY <1>3, <2>1, <2>3 DEF Mailed
  <2>8. row' # NoRow =>
           mailed' = keys'.notified \/ \E q \in Slots : Noted(q)' /\ run'[q].got = mailed'
    BY <1>1, <2>1, <2>3 DEF Mailed
  <2>9. \A q \in Slots : (run[q].pc \in Early /\ HasRow(q))'
            => mailed' \in locks' \cup {run'[q].notified, "none"}
    <3>1. \A q \in Slots : (run[q].pc \in Early /\ HasRow(q))'
             => q # r /\ run[q].pc \in Early /\ HasRow(q)
      BY <2>1, <2>2 DEF Early
    <3> QED BY <1>1, <2>1, <2>5, <3>1 DEF Mailed
  <2>10. \A q \in Slots : (run[q].pc = "mail" /\ HasRow(q))' => mailed' # run'[q].got
    <3>1. HasRow(r) => mailed # run[r].got
      <4>1. run[r].pc \in Early /\ "none" \notin Status
        BY <1>1, StatusAssumption DEF Early, Status
      <4> QED BY <1>3, <2>4, <4>1 DEF Mailed
    <3> QED BY <1>1, <2>1, <2>2, <3>1 DEF Mailed
  <2> QED BY <2>6, <2>7, <2>8, <2>9, <2>10 DEF Mailed
<1> QED BY <1>2, <1>3 DEF Reserve

\* The status that is mailed has its lock, and nobody else is about to mail it.
LEMMA MailKeepsMailed ==
    ASSUME TypeOK, Mailed, NEW r \in Slots, Mail(r)
    PROVE  Mailed'
<1>1. run[r].pc = "mail" /\ UNCHANGED <<row, keys, locks, crossed, slow>>
  BY DEF Mail, redis
<1> SUFFICES ASSUME ~broken', ~crossed, ~slow PROVE Mailed'
  BY <1>1 DEF Mailed
<1>2. /\ ~broken /\ GoesTo(r, "note")
      /\ mailed' = IF HasRow(r) THEN run[r].got ELSE mailed
  BY DEF Mail
<1>3. /\ run'[r].pc = "note" /\ run'[r].id = run[r].id /\ run'[r].got = run[r].got
      /\ \A q \in Slots \ {r} : run'[q] = run[q]
  BY <1>2 DEF GoesTo, TypeOK, Locals
<1>4. \A q \in Slots : /\ HasRow(q)' <=> HasRow(q)
                       /\ run'[q].got = run[q].got
                       /\ Sends(q)' <=> Sends(q)
                       /\ Noted(q) => Noted(q)'
  BY <1>1, <1>3 DEF HasRow, Sends, Noted, Sending
<1>5. \A q \in Slots : /\ (run[q].pc \in Early)' => q # r /\ run[q].pc \in Early /\ run'[q] = run[q]
                       /\ (run[q].pc = "mail")' => q # r /\ run[q].pc = "mail"
  BY <1>1, <1>3 DEF Early
<1>6. HasRow(r) => Sends(r) /\ run[r].got \in locks /\ Noted(r)'
  BY <1>1, <1>2, <1>3, <1>4 DEF Sends, Sending, Mailed, Noted
<1>7. \A q \in Slots : Sends(q)' => run'[q].got \in locks'
  BY <1>1, <1>2, <1>4 DEF Mailed
<1>8. \A p, q \in Slots : Sends(p)' /\ Sends(q)' /\ run'[p].got = run'[q].got => p = q
  BY <1>2, <1>4 DEF Mailed
<1>9. row' # NoRow =>
         mailed' = keys'.notified \/ \E q \in Slots : Noted(q)' /\ run'[q].got = mailed'
  BY <1>1, <1>2, <1>4, <1>6 DEF Mailed
<1>10. \A q \in Slots : (run[q].pc \in Early /\ HasRow(q))'
          => mailed' \in locks' \cup {run'[q].notified, "none"}
  BY <1>1, <1>2, <1>4, <1>5, <1>6 DEF Mailed
<1>11. \A q \in Slots : (run[q].pc = "mail" /\ HasRow(q))' => mailed' # run'[q].got
  <2>1. \A q \in Slots : (run[q].pc = "mail" /\ HasRow(q))' => q # r /\ run[q].pc = "mail" /\ HasRow(q)
    BY <1>4, <1>5
  <2>2. \A q \in Slots : run[q].pc = "mail" /\ HasRow(q) => Sends(q)
    BY DEF Sends, Sending
  <2> QED BY <1>2, <1>4, <1>6, <2>1, <2>2 DEF Mailed
<1> QED BY <1>7, <1>8, <1>9, <1>10, <1>11 DEF Mailed

\* The mail that is recorded is the last one, or the record is crossed.
LEMMA SetNotifiedKeepsMailed ==
    ASSUME TypeOK, Mailed, NEW r \in Slots, SetNotified(r)
    PROVE  Mailed'
<1>1. run[r].pc = "note" /\ UNCHANGED <<row, mailed, locks, slow>> /\ GoesTo(r, "emit")
  BY DEF SetNotified, hist
<1> SUFFICES ASSUME ~broken', ~crossed', ~slow PROVE Mailed'
  BY <1>1 DEF Mailed
<1>2. /\ ~broken /\ ~crossed /\ mailed = run[r].got
      /\ keys' = IF HasRow(r) THEN [keys EXCEPT !.notified = run[r].got] ELSE keys
  <2>1. (broken' = TRUE) \/ UNCHANGED broken
    BY DEF SetNotified
  <2>2. Keys(r, [keys EXCEPT !.notified = run[r].got])
        /\ crossed' = (crossed \/ mailed # run[r].got) /\ UNCHANGED broken
    BY DEF SetNotified
  <2> QED BY <2>2 DEF Keys
<1>3. /\ run'[r].pc = "emit" /\ run'[r].id = run[r].id /\ run'[r].got = run[r].got
      /\ \A q \in Slots \ {r} : run'[q] = run[q]
  BY <1>1 DEF GoesTo, TypeOK, Locals
<1>4. \A q \in Slots : /\ HasRow(q)' <=> HasRow(q)
                       /\ run'[q].got = run[q].got
                       /\ Sends(q)' => Sends(q)
                       /\ q # r /\ Noted(q) => Noted(q)'
  BY <1>1, <1>3 DEF HasRow, Sends, Noted, Sending
<1>5. \A q \in Slots : /\ (run[q].pc \in Early)' => run[q].pc \in Early /\ run'[q] = run[q]
                       /\ (run[q].pc = "mail")' => run[q].pc = "mail"
  BY <1>1, <1>3 DEF Early
<1>6. \A q \in Slots : Sends(q)' => run'[q].got \in locks'
  BY <1>1, <1>2, <1>4 DEF Mailed
<1>7. \A p, q \in Slots : Sends(p)' /\ Sends(q)' /\ run'[p].got = run'[q].got => p = q
  BY <1>1, <1>2, <1>4 DEF Mailed
<1>8. row' # NoRow =>
         mailed' = keys'.notified \/ \E q \in Slots : Noted(q)' /\ run'[q].got = mailed'
  <2>1. CASE HasRow(r)
    <3>1. keys'.notified = run[r].got
      BY <1>2, <2>1 DEF TypeOK
    <3> QED BY <1>1, <1>2, <3>1
  <2>2. CASE ~HasRow(r)
    <3>1. ~Noted(r) /\ keys' = keys
      BY <1>2, <2>2 DEF Noted
    <3> QED BY <1>1, <1>2, <1>4, <3>1 DEF Mailed
  <2> QED BY <2>1, <2>2
<1>9. \A q \in Slots : (run[q].pc \in Early /\ HasRow(q))'
         => mailed' \in locks' \cup {run'[q].notified, "none"}
  BY <1>1, <1>2, <1>4, <1>5 DEF Mailed
<1>10. \A q \in Slots : (run[q].pc = "mail" /\ HasRow(q))' => mailed' # run'[q].got
  BY <1>1, <1>2, <1>4, <1>5 DEF Mailed
<1> QED BY <1>6, <1>7, <1>8, <1>9, <1>10 DEF Mailed

\* A lock expires under a refresh, which is slow then, or under none.
LEMMA LockExpiresKeepsMailed ==
    ASSUME TypeOK, Mailed, NEW s \in Status, LockExpires(s)
    PROVE  Mailed'
<1>1. UNCHANGED <<row, keys, run, mailed, broken, crossed>>
  BY DEF LockExpires, hist
<1>2. slow' = (slow \/ \E r \in Slots : At(r) \/ run[r].pc \in {"ask", "update"})
  BY DEF LockExpires
<1> SUFFICES ASSUME ~broken, ~crossed, ~slow' PROVE Mailed'
  BY <1>1 DEF Mailed
<1>3. \A q \in Slots : run[q].pc \notin Early \cup Sending
  BY <1>2 DEF At, Early, Sending
<1>4. row # NoRow => mailed = keys.notified
  BY <1>2, <1>3 DEF Mailed, Noted, Sending
<1>5. \A q \in Slots : run'[q].pc \notin Early \cup Sending
  BY <1>1, <1>3
<1>6. \A q \in Slots : ~Sends(q)' /\ run'[q].pc # "mail"
  BY <1>5 DEF Sends, Sending
<1> QED BY <1>1, <1>4, <1>5, <1>6 DEF Mailed

LEMMA OthersKeepMailed ==
    ASSUME Typed, Mailed, StartVerification \/ ElsewhereChanges \/ SesChanges \/ CheckAges \/ UNCHANGED vars
    PROVE  Mailed'
<1>1. UNCHANGED <<run, locks, mailed, broken, crossed, slow>>
  BY DEF StartVerification, ElsewhereChanges, SesChanges, CheckAges, vars, redis, hist, faulty
<1>2. UNCHANGED keys.notified
  <2>1. CASE CheckAges
    BY <2>1 DEF CheckAges, Typed, TypeOK
  <2>2. CASE StartVerification \/ ElsewhereChanges \/ SesChanges \/ UNCHANGED vars
    BY <2>2 DEF StartVerification, ElsewhereChanges, SesChanges, vars, redis
  <2> QED BY <2>1, <2>2
<1>3. SameRow
  <2>1. UNCHANGED row \/ (row # NoRow /\ row' = [row EXCEPT !.verifying = TRUE])
    BY DEF StartVerification, ElsewhereChanges, SesChanges, CheckAges, vars
  <2>2. row # NoRow => row.id # NoRow.id
    BY DEF Typed, Numbers, TypeOK, NoRow
  <2> QED BY <2>1, <2>2 DEF SameRow, Typed, TypeOK
<1>4. \A q \in Slots : (HasRow(q)' <=> HasRow(q)) /\ run'[q] = run[q]
  BY <1>1, <1>3 DEF HasRow, SameRow
<1>5. \A q \in Slots : (Sends(q)' <=> Sends(q)) /\ (Noted(q)' <=> Noted(q))
  BY <1>4 DEF Sends, Noted
<1> QED BY <1>1, <1>2, <1>3, <1>4, <1>5 DEF Mailed, SameRow

LEMMA InitMailed == Init => Mailed
<1> SUFFICES ASSUME Init PROVE Mailed
  OBVIOUS
<1>1. \A r \in Slots : run[r].pc = "idle"
  BY DEF Init, Idle
<1>2. mailed = "none" /\ keys.notified = "none"
  BY DEF Init, NoKeys
<1> QED BY <1>1, <1>2 DEF Mailed, Sends, Noted, Early, Sending

LEMMA NextKeepsMailed == Typed /\ IdsOld /\ Mailed /\ [Next]_vars => Mailed'
<1> SUFFICES ASSUME Typed, IdsOld, Mailed, [Next]_vars PROVE Mailed'
  OBVIOUS
<1>1. ASSUME NEW r \in Requests, Requested(r) PROVE Mailed'
  <2>1. r \in Slots
    BY DEF Slots
  <2> QED BY <1>1, <2>1, QuietStepsKeepMailed
<1>2. ASSUME NEW r \in Slots, Handler(r) \/ Stops(r) PROVE Mailed'
  BY <1>2, QuietStepsKeepMailed, RowStepsKeepMailed, ReadStateKeepsMailed, ReserveKeepsMailed,
     MailKeepsMailed, SetNotifiedKeepsMailed DEF Handler, Refresh, Typed
<1>3. CASE JobRead \/ JobDue
  <2>1. Job \in Slots
    BY DEF Slots
  <2> QED BY <1>3, <2>1, QuietStepsKeepMailed
<1>4. CASE \E s \in Status : LockExpires(s)
  BY <1>4, LockExpiresKeepsMailed DEF Typed
<1>5. CASE StartVerification \/ ElsewhereChanges \/ SesChanges \/ CheckAges \/ UNCHANGED vars
  BY <1>5, OthersKeepMailed
<1> QED BY <1>1, <1>2, <1>3, <1>4, <1>5 DEF Next

\* The team is not mailed the status of its domain twice in a row: of the refreshes that
\* find it changed, one gets the lock of it (reserveDomainStatusNotification), and none that
\* read the last mail before that one's mail was recorded gets it later.
THEOREM MailsDiffer == Spec => MailNotRepeated
<1>1. Init => (Typed /\ Accounted) /\ (IdsOld /\ Followed) /\ Mailed
  BY InitTyped, InitAccounted, InitFollowed, InitMailed
<1>2. (Typed /\ Accounted) /\ (IdsOld /\ Followed) /\ Mailed /\ [Next]_vars
         => (Typed /\ Accounted)' /\ (IdsOld /\ Followed)' /\ Mailed'
  BY NextKeeps, NextKeepsFollowed, NextKeepsMailed
<1>3. Mailed => [\A r \in Slots :
                   run[r].pc = "mail" /\ run'[r].pc = "note" /\ HasRow(r)
                       => mailed # run[r].got \/ broken \/ crossed \/ slow]_vars
  BY DEF Mailed
<1> QED BY <1>1, <1>2, <1>3, PTL DEF Spec, MailNotRepeated

=============================================================================
