--------------------- MODULE ContactSubscriptionProofs ---------------------
(***************************************************************************)
(* Theorems about ContactSubscription, for any requests and any number of  *)
(* rows.                                                                   *)
(***************************************************************************)
EXTENDS ContactSubscription, TLAPS

\* Where a request goes that named a contact.
LEMMA AfterNamed ==
    ASSUME NEW r \in Requests, WriteNamed(r)
    PROVE  pc' = [pc EXCEPT ![r] = "count"] \/ pc' = [pc EXCEPT ![r] = "done"]
BY DEF WriteNamed, AfterWrite, GoesTo

LEMMA InitType == Init => TypeOK
BY ContactAssumption DEF Init, TypeOK, Points, Statuses

\* A request names rows that were created.
LEMMA NamesType ==
    ASSUME TypeOK, NEW r \in Requests, NEW i \in Names(r)
    PROVE  i \in 1..id
<1>1. CASE op[r] \in {"update", "delete", "resend"}
  BY <1>1 DEF Names
<1>2. CASE op[r] = "confirm"
  BY <1>2 DEF Names, TypeOK
<1>3. CASE op[r] \in {"leave", "rejoin"}
  BY <1>3 DEF Names, TypeOK
<1>4. CASE op[r] = "bounce"
  BY <1>4, ContactAssumption DEF Names, TypeOK
<1>5. CASE op[r] = "add"
  BY <1>5 DEF Names
<1> QED
  BY <1>1, <1>2, <1>3, <1>4, <1>5, ContactAssumption DEF TypeOK, AllOps

LEMMA FoundType == ASSUME TypeOK, NEW i PROVE Found(i) \in Statuses
BY DEF Found, TypeOK, Statuses

LEMMA StatusTypes ==
    ASSUME TypeOK, NEW r \in Requests
    PROVE  Created(r) \in Statuses \ {"none"} /\ Updated(r) \in Statuses /\ Written(r) \in Statuses
BY DEF TypeOK, Statuses, Created, Updated, Written

\* A row that gets a status and may waive the link is one that was created.
LEMMA WaivedRow ==
    ASSUME TypeOK, NEW r, NEW s, status # "none", Becomes(r, s)
    PROVE  waived' \in SUBSET (1..id)
<1>1. id \in 1..id
  BY ContactAssumption DEF TypeOK
<1> QED BY <1>1 DEF Becomes, TypeOK

\* What a request does to itself and to the row leaves the types.
LEMMA RequestType ==
    ASSUME TypeOK, NEW r \in Requests, Request(r)
    PROVE  TypeOK'
<1> USE DEF Points, GoesTo, history
<1>1. CASE ReadBook(r)
  BY <1>1 DEF ReadBook, TypeOK
<1>2. CASE ReadExisting(r)
  BY <1>2 DEF ReadExisting, TypeOK
<1>3. CASE Upsert(r)
  <2>1. CASE status = "none" /\ id < MaxRows /\ id' = id + 1 /\ Becomes(r, Created(r))
    <3>1. id' \in 1..MaxRows /\ 1..id \subseteq 1..id' /\ id + 1 \in 1..id'
      BY <2>1, ContactAssumption DEF TypeOK
    <3>2. status' \in Statuses /\ overlap' \in SUBSET Requests /\ back' \in SUBSET Requests
      BY <2>1, StatusTypes DEF Becomes, Writing, TypeOK
    <3>3. waived' \in SUBSET (1..id')
      BY <2>1, <3>1 DEF Becomes, TypeOK
    <3> QED BY <1>3, <3>1, <3>2, <3>3 DEF Upsert, TypeOK
  <2>2. CASE status # "none" /\ Becomes(r, Updated(r)) /\ UNCHANGED id
    <3>1. status' \in Statuses /\ overlap' \in SUBSET Requests /\ back' \in SUBSET Requests
      BY <2>2, StatusTypes DEF Becomes, Writing, TypeOK
    <3>2. waived' \in SUBSET (1..id)
      BY <2>2, WaivedRow
    <3> QED BY <1>3, <2>2, <3>1, <3>2 DEF Upsert, TypeOK
  <2> QED BY <1>3, <2>1, <2>2 DEF Upsert
<1>4. CASE SendConfirmation(r)
  <2>1. links' \in SUBSET (1..id)
    <3>1. status # "none" => id \in 1..id
      BY ContactAssumption DEF TypeOK
    <3>2. links' = links \/ (links' = links \cup {id} /\ status # "none")
      BY <1>4 DEF SendConfirmation
    <3> QED BY <3>1, <3>2 DEF TypeOK
  <2> QED BY <1>4, <2>1 DEF SendConfirmation, TypeOK
<1>5. CASE ReadNamed(r)
  <2>1. PICK i \in Names(r) :
            /\ of' = [of EXCEPT ![r] = i]
            /\ seen' = [seen EXCEPT ![r] = Found(i)]
            /\ GoesTo(r, IF ~Proceeds(r, Found(i)) THEN "done"
                         ELSE IF op[r] = "resend" THEN "mail" ELSE "write")
            /\ confirmed' = IF op[r] = "confirm" THEN confirmed \cup {i} ELSE confirmed
    BY <1>5 DEF ReadNamed
  <2>2. i \in 1..id /\ i \in 0..MaxRows
    BY NamesType, ContactAssumption DEF TypeOK
  <2> QED BY <1>5, <2>1, <2>2, FoundType DEF ReadNamed, TypeOK
<1>6. CASE WriteNamed(r)
  <2>1. status' \in Statuses /\ overlap' \in SUBSET Requests /\ back' \in SUBSET Requests
    BY <1>6, StatusTypes DEF WriteNamed, Becomes, Writing, TypeOK
  <2>2. pc' \in [Requests -> Points]
    BY <1>6, AfterNamed DEF WriteNamed, TypeOK
  <2>3. id = 0 => status' = "none"
    BY <1>6, ContactAssumption DEF WriteNamed, TypeOK
  <2>4. waived' \in SUBSET (1..id)
    BY <1>6, WaivedRow DEF WriteNamed, TypeOK
  <2> QED BY <1>6, <2>1, <2>2, <2>3, <2>4 DEF WriteNamed, TypeOK
<1>7. CASE CountLeft(r)
  BY <1>7 DEF CountLeft, TypeOK
<1>8. CASE Stops(r)
  BY <1>8 DEF Stops, TypeOK
<1> QED
  BY <1>1, <1>2, <1>3, <1>4, <1>5, <1>6, <1>7, <1>8 DEF Request

LEMMA NextType == TypeOK /\ [Next]_vars => TypeOK'
<1> SUFFICES ASSUME TypeOK, [Next]_vars PROVE TypeOK'
  OBVIOUS
<1> USE DEF request, history
<1>1. ASSUME NEW r \in Requests, Request(r) PROVE TypeOK'
  BY <1>1, RequestType
<1>2. CASE SwitchOptIn
  BY <1>2 DEF SwitchOptIn, TypeOK
<1>3. CASE CampaignMails
  <2>1. id \in 1..id
    BY <1>3, ContactAssumption DEF CampaignMails, TypeOK
  <2> QED BY <1>3, <2>1 DEF CampaignMails, TypeOK
<1>4. CASE LinkExpires
  BY <1>4 DEF LinkExpires, TypeOK
<1>5. CASE UNCHANGED vars
  BY <1>5 DEF vars, TypeOK
<1> QED BY <1>1, <1>2, <1>3, <1>4, <1>5 DEF Next

\* Every variable keeps its type, and links and campaign mails name rows that were
\* created.
THEOREM TypeCorrect == Spec => []TypeOK
<1>1. Init => TypeOK
  BY InitType
<1>2. TypeOK /\ [Next]_vars => TypeOK'
  BY NextType
<1> QED BY <1>1, <1>2, PTL DEF Spec

-----------------------------------------------------------------------------
Kept == StaleWriters /\ OnlyOverlapBringsBack

\* A write to the row keeps track of the writers it overtakes: after it, a contact
\* that has left was just left, or had left before.
LEMMA BecomesKept ==
    ASSUME TypeOK, Kept, NEW r \in Requests, NEW s, Becomes(r, s),
           pc[r] = "write",
           op[r] = "add" => (s = "subscribed" => seen[r] # "left" \/ status # "left"),
           op[r] = "confirm" => of[r] = id,
           id' = id \/ (id' = id + 1 /\ status = "none" /\ s # "none"),
           UNCHANGED <<op, seen>>,
           \A q \in Requests : pc'[q] # pc[q] => q = r /\ pc'[q] \notin {"read", "write"},
           \A q \in Requests : of'[q] # of[q] => q = r /\ pc'[q] # "write"
    PROVE  Kept'
<1> USE DEF Kept, StaleWriters, OnlyOverlapBringsBack, Becomes, Writing
<1>1. OnlyOverlapBringsBack'
  <2>1. CASE status = "left" /\ s = "subscribed" /\ op[r] \in {"add", "confirm"}
    <3>1. r \in overlap
      BY <2>1
    <3> QED BY <2>1, <3>1
  <2> QED BY <2>1
<1>2. StaleWriters'
  <2> SUFFICES ASSUME NEW q \in Requests
               PROVE  /\ pc'[q] = "read" => op[q] = "add"
                      /\ pc'[q] = "write" /\ op[q] = "confirm" => seen[q] = "pending"
                      /\ pc'[q] = "write" /\ s = "left" /\ op[q] = "add" /\ seen[q] # "left"
                            => q \in overlap'
                      /\ pc'[q] = "write" /\ s = "left" /\ op[q] = "confirm" /\ of'[q] = id'
                            => q \in overlap'
    OBVIOUS
  <2>1. pc'[q] \in {"read", "write"} => pc'[q] = pc[q]
    OBVIOUS
  <2> QED BY <2>1
<1> QED BY <1>1, <1>2

\* A step that writes no row, and starts no writer but one that has just read it.
LEMMA ReadKept ==
    ASSUME TypeOK, Kept, NEW r \in Requests,
           UNCHANGED <<op, id, status, overlap, back>>,
           \A q \in Requests \ {r} : pc'[q] = pc[q] /\ seen'[q] = seen[q] /\ of'[q] = of[q],
           pc'[r] = "read" => op[r] = "add",
           pc'[r] = "write" /\ op[r] = "add" => seen'[r] = status,
           pc'[r] = "write" /\ op[r] = "confirm" =>
               seen'[r] = "pending" /\ (of'[r] = id => status = "pending")
    PROVE  Kept'
<1> USE DEF Kept, StaleWriters, OnlyOverlapBringsBack
<1>1. ASSUME NEW q \in Requests
      PROVE  /\ pc'[q] = "read" => op[q] = "add"
             /\ pc'[q] = "write" /\ op[q] = "confirm" => seen'[q] = "pending"
             /\ pc'[q] = "write" /\ status = "left" /\ op[q] = "add" /\ seen'[q] # "left"
                   => q \in overlap
             /\ pc'[q] = "write" /\ status = "left" /\ op[q] = "confirm" /\ of'[q] = id
                   => q \in overlap
  <2>1. CASE q = r
    BY <2>1
  <2>2. CASE q # r
    BY <2>2
  <2> QED BY <2>1, <2>2
<1> QED BY <1>1

LEMMA NextKept == ASSUME TypeOK, Kept, [Next]_vars PROVE Kept'
<1> USE DEF GoesTo, history, request
<1>1. ASSUME NEW r \in Requests, ReadBook(r) PROVE Kept'
  BY <1>1, ReadKept DEF ReadBook, TypeOK
<1>2. ASSUME NEW r \in Requests, ReadExisting(r) PROVE Kept'
  <2>1. op[r] = "add"
    BY <1>2 DEF ReadExisting, Kept, StaleWriters
  <2>2. seen'[r] = status /\ pc'[r] = "write"
    BY <1>2 DEF ReadExisting, TypeOK
  <2>3. \A q \in Requests \ {r} : pc'[q] = pc[q] /\ seen'[q] = seen[q] /\ of'[q] = of[q]
    BY <1>2 DEF ReadExisting, TypeOK
  <2>4. UNCHANGED <<op, id, status, overlap, back>>
    BY <1>2 DEF ReadExisting
  <2> QED BY <2>1, <2>2, <2>3, <2>4, ReadKept
<1>3. ASSUME NEW r \in Requests, Upsert(r) PROVE Kept'
  <2>1. pc[r] = "write" /\ op[r] = "add" /\ UNCHANGED <<op, seen>>
    BY <1>3 DEF Upsert
  <2>2. \A q \in Requests : pc'[q] # pc[q] => q = r /\ pc'[q] \notin {"read", "write"}
    BY <1>3 DEF Upsert, TypeOK
  <2>3. \A q \in Requests : of'[q] # of[q] => q = r /\ pc'[q] # "write"
    BY <1>3 DEF Upsert, TypeOK
  <2>4. CASE status = "none" /\ id' = id + 1 /\ Becomes(r, Created(r))
    <3>1. Created(r) # "none" /\ op[r] # "confirm"
      BY <2>1, StatusTypes
    <3> QED BY <2>1, <2>2, <2>3, <2>4, <3>1, BecomesKept
  <2>5. CASE Becomes(r, Updated(r)) /\ UNCHANGED id
    <3>1. Updated(r) = "subscribed" => seen[r] # "left" \/ status # "left"
      BY DEF Updated
    <3> QED BY <2>1, <2>2, <2>3, <2>5, <3>1, BecomesKept
  <2> QED BY <1>3, <2>4, <2>5 DEF Upsert
<1>4. ASSUME NEW r \in Requests, SendConfirmation(r) PROVE Kept'
  BY <1>4, ReadKept DEF SendConfirmation, TypeOK
<1>5. ASSUME NEW r \in Requests, ReadNamed(r) PROVE Kept'
  <2>1. PICK i \in Names(r) :
            /\ of' = [of EXCEPT ![r] = i]
            /\ seen' = [seen EXCEPT ![r] = Found(i)]
            /\ GoesTo(r, IF ~Proceeds(r, Found(i)) THEN "done"
                         ELSE IF op[r] = "resend" THEN "mail" ELSE "write")
    BY <1>5 DEF ReadNamed
  <2>2. op[r] # "add"
    BY <2>1 DEF Names
  <2>3. op[r] = "confirm" /\ pc'[r] = "write" => Found(i) = "pending"
    BY <2>1 DEF Proceeds, TypeOK
  <2>4. \A q \in Requests \ {r} : pc'[q] = pc[q] /\ seen'[q] = seen[q] /\ of'[q] = of[q]
    BY <2>1 DEF TypeOK
  <2>5. of'[r] = i /\ seen'[r] = Found(i) /\ pc'[r] # "read"
    BY <2>1 DEF TypeOK
  <2>6. i = id => Found(i) = status
    BY DEF Found
  <2>7. UNCHANGED <<op, id, status, overlap, back>>
    BY <1>5 DEF ReadNamed
  <2> QED BY <2>2, <2>3, <2>4, <2>5, <2>6, <2>7, ReadKept
<1>6. ASSUME NEW r \in Requests, WriteNamed(r) PROVE Kept'
  <2>1. pc[r] = "write" /\ op[r] # "add" /\ UNCHANGED <<op, seen, of, id>>
    BY <1>6 DEF WriteNamed
  <2>2. \A q \in Requests : pc'[q] # pc[q] => q = r /\ pc'[q] \notin {"read", "write"}
    BY <1>6, AfterNamed DEF WriteNamed, TypeOK
  <2>3. CASE of[r] = id /\ Becomes(r, Written(r))
    BY <2>1, <2>2, <2>3, BecomesKept
  <2>4. CASE UNCHANGED <<status, overlap, back>>
    <3>1. pc'[r] \notin {"read", "write"}
      BY <1>6, AfterNamed DEF WriteNamed, TypeOK
    <3> QED BY <2>1, <2>2, <2>4, <3>1, ReadKept
  <2> QED BY <1>6, <2>3, <2>4 DEF WriteNamed
<1>7. ASSUME NEW r \in Requests, CountLeft(r) PROVE Kept'
  BY <1>7, ReadKept DEF CountLeft, TypeOK
<1>8. ASSUME NEW r \in Requests, Stops(r) PROVE Kept'
  BY <1>8, ReadKept DEF Stops, TypeOK
<1>9. ASSUME SwitchOptIn \/ CampaignMails \/ LinkExpires \/ UNCHANGED vars PROVE Kept'
  BY <1>9 DEF SwitchOptIn, CampaignMails, LinkExpires, vars, Kept, StaleWriters,
              OnlyOverlapBringsBack
<1> QED
  BY <1>1, <1>2, <1>3, <1>4, <1>5, <1>6, <1>7, <1>8, <1>9 DEF Next, Request

\* However many requests there are and whatever stops, a contact that left is only
\* brought back, other than by its own or the team's request, by one that had read
\* it before it left.
THEOREM RefusalIsKept == Spec => []OnlyOverlapBringsBack
<1>1. Init => Kept
  BY DEF Init, Kept, StaleWriters, OnlyOverlapBringsBack
<1>2. TypeOK /\ Kept /\ [Next]_vars => Kept'
  BY NextKept
<1>3. Kept => OnlyOverlapBringsBack
  BY DEF Kept
<1> QED BY <1>1, <1>2, <1>3, TypeCorrect, PTL DEF Spec

-----------------------------------------------------------------------------
Clicked == confirmed \cup waived

\* A step that subscribes no contact but one that was asked, or did not have to be, and
\* starts no writer without a used link.
LEMMA StepUsed ==
    ASSUME LinksAreUsed, NEW r \in Requests, UNCHANGED <<op, mailed>>, Clicked \subseteq Clicked',
           status' = "subscribed" => id' \in Clicked',
           \A q \in Requests \ {r} : pc'[q] = pc[q] /\ of'[q] = of[q],
           pc'[r] = "read" => op[r] = "add",
           pc'[r] = "write" => op[r] # "resend",
           pc'[r] = "write" /\ op[r] \in {"confirm", "rejoin"} => of'[r] \in Clicked'
    PROVE  LinksAreUsed'
<1> USE DEF LinksAreUsed, SubscribedWasAsked, Clicked
<1>1. ASSUME NEW q \in Requests
      PROVE  /\ pc'[q] = "read" => op[q] = "add"
             /\ pc'[q] = "write" => op[q] # "resend"
             /\ pc'[q] = "write" /\ op[q] \in {"confirm", "rejoin"} => of'[q] \in Clicked'
  <2>1. CASE q = r
    BY <2>1
  <2>2. CASE q # r
    BY <2>2
  <2> QED BY <2>1, <2>2
<1> QED BY <1>1

\* A step that leaves the row as it is.
LEMMA SameRow ==
    ASSUME LinksAreUsed, UNCHANGED <<status, id>>, Clicked \subseteq Clicked'
    PROVE  status' = "subscribed" => id' \in Clicked'
BY DEF LinksAreUsed, SubscribedWasAsked, Clicked

LEMMA NextUsed == ASSUME TypeOK, LinksAreUsed, [Next]_vars PROVE LinksAreUsed'
<1> USE DEF GoesTo, history, request
<1>1. ASSUME NEW r \in Requests, ReadBook(r) PROVE LinksAreUsed'
  BY <1>1, StepUsed, SameRow DEF ReadBook, TypeOK, Clicked
<1>2. ASSUME NEW r \in Requests, ReadExisting(r) PROVE LinksAreUsed'
  <2>1. op[r] = "add"
    BY <1>2 DEF ReadExisting, LinksAreUsed
  <2> QED BY <1>2, <2>1, StepUsed, SameRow DEF ReadExisting, TypeOK, Clicked
<1>3. ASSUME NEW r \in Requests, Upsert(r) PROVE LinksAreUsed'
  <2>1. pc[r] = "write" /\ op[r] = "add" /\ UNCHANGED <<op, mailed, confirmed>>
    BY <1>3 DEF Upsert
  <2>2. \A q \in Requests \ {r} : pc'[q] = pc[q] /\ of'[q] = of[q]
    BY <1>3 DEF Upsert, TypeOK
  <2>3. pc'[r] \notin {"read", "write"}
    BY <1>3 DEF Upsert, TypeOK
  <2>4. CASE status = "none" /\ id' = id + 1 /\ Becomes(r, Created(r))
    <3>1. Clicked \subseteq Clicked'
      BY <2>1, <2>4 DEF Becomes, Clicked
    <3>2. Created(r) = "subscribed" => Waives(r)
      BY <2>1, <2>4 DEF Created, Waives
    <3>3. status' = "subscribed" => id' \in Clicked'
      BY <2>4, <3>2 DEF Becomes, Clicked
    <3> QED BY <2>1, <2>2, <2>3, <3>1, <3>3, StepUsed
  <2>5. CASE status # "none" /\ Becomes(r, Updated(r)) /\ UNCHANGED id
    <3>1. Clicked \subseteq Clicked'
      BY <2>1, <2>5 DEF Becomes, Clicked
    <3>2. Updated(r) = "subscribed" => status = "subscribed" \/ Waives(r)
      BY <2>1, <2>5 DEF Updated, Waives
    <3>3. status = "subscribed" => id \in Clicked
      BY DEF LinksAreUsed, SubscribedWasAsked, Clicked
    <3>4. status' = "subscribed" => id' \in Clicked'
      BY <2>5, <3>1, <3>2, <3>3 DEF Becomes, Clicked
    <3> QED BY <2>1, <2>2, <2>3, <3>1, <3>4, StepUsed
  <2> QED BY <1>3, <2>4, <2>5 DEF Upsert
<1>4. ASSUME NEW r \in Requests, SendConfirmation(r) PROVE LinksAreUsed'
  BY <1>4, StepUsed, SameRow DEF SendConfirmation, TypeOK, Clicked
<1>5. ASSUME NEW r \in Requests, ReadNamed(r) PROVE LinksAreUsed'
  <2>1. PICK i \in Names(r) :
            /\ of' = [of EXCEPT ![r] = i]
            /\ seen' = [seen EXCEPT ![r] = Found(i)]
            /\ GoesTo(r, IF ~Proceeds(r, Found(i)) THEN "done"
                         ELSE IF op[r] = "resend" THEN "mail" ELSE "write")
            /\ confirmed' = IF op[r] = "confirm" THEN confirmed \cup {i} ELSE confirmed
    BY <1>5 DEF ReadNamed
  <2>2. pc'[r] # "read" /\ (pc'[r] = "write" => op[r] # "resend")
    BY <2>1 DEF TypeOK
  <2>3. op[r] = "rejoin" => i \in Clicked
    BY <2>1 DEF Names, LinksAreUsed, Clicked
  <2>4. \A q \in Requests \ {r} : pc'[q] = pc[q] /\ of'[q] = of[q]
    BY <2>1 DEF TypeOK
  <2>5. UNCHANGED <<op, mailed, id, status, waived>>
    BY <1>5 DEF ReadNamed
  <2>6. Clicked \subseteq Clicked' /\ of'[r] = i /\ (op[r] = "confirm" => i \in Clicked')
    BY <2>1, <2>5 DEF TypeOK, Clicked
  <2> QED BY <2>2, <2>3, <2>4, <2>5, <2>6, StepUsed, SameRow
<1>6. ASSUME NEW r \in Requests, WriteNamed(r) PROVE LinksAreUsed'
  <2>1. pc[r] = "write" /\ op[r] # "add" /\ UNCHANGED <<op, of, id, mailed, confirmed>>
    BY <1>6 DEF WriteNamed
  <2>2. \A q \in Requests \ {r} : pc'[q] = pc[q] /\ of'[q] = of[q]
    <3>1. pc' = [pc EXCEPT ![r] = "count"] \/ pc' = [pc EXCEPT ![r] = "done"]
      BY <1>6, AfterNamed
    <3> QED BY <2>1, <3>1 DEF TypeOK
  <2>3. pc'[r] \notin {"read", "write"}
    BY <1>6, AfterNamed DEF WriteNamed, TypeOK
  <2>4. CASE of[r] = id /\ status # "none" /\ Becomes(r, Written(r))
    <3>1. Clicked \subseteq Clicked'
      BY <2>1, <2>4 DEF Becomes, Clicked
    <3>2. op[r] \in {"confirm", "rejoin"} => id \in Clicked
      BY <2>1, <2>4 DEF LinksAreUsed, Clicked
    <3>3. op[r] # "resend" /\ op[r] \in AllOps
      BY <2>1, ContactAssumption DEF LinksAreUsed, TypeOK
    <3>4. Written(r) = "subscribed" =>
              status = "subscribed" \/ Waives(r) \/ op[r] \in {"confirm", "rejoin"}
      BY <2>1, <3>3 DEF Written, Waives, AllOps
    <3>5. status = "subscribed" => id \in Clicked
      BY DEF LinksAreUsed, SubscribedWasAsked, Clicked
    <3>6. status' = "subscribed" => id' \in Clicked'
      BY <2>1, <2>4, <3>1, <3>2, <3>4, <3>5 DEF Becomes, Clicked
    <3> QED BY <2>1, <2>2, <2>3, <3>1, <3>6, StepUsed
  <2>5. CASE UNCHANGED <<status, waived>>
    BY <2>1, <2>2, <2>3, <2>5, StepUsed, SameRow DEF Clicked
  <2> QED BY <1>6, <2>4, <2>5 DEF WriteNamed
<1>7. ASSUME NEW r \in Requests, CountLeft(r) PROVE LinksAreUsed'
  BY <1>7, StepUsed, SameRow DEF CountLeft, TypeOK, Clicked
<1>8. ASSUME NEW r \in Requests, Stops(r) PROVE LinksAreUsed'
  BY <1>8, StepUsed, SameRow DEF Stops, TypeOK, Clicked
<1>9. ASSUME SwitchOptIn \/ CampaignMails \/ LinkExpires \/ UNCHANGED vars PROVE LinksAreUsed'
  BY <1>9 DEF SwitchOptIn, CampaignMails, LinkExpires, vars, LinksAreUsed, SubscribedWasAsked
<1> QED
  BY <1>1, <1>2, <1>3, <1>4, <1>5, <1>6, <1>7, <1>8, <1>9 DEF Next, Request

\* A contact is subscribed only after its own confirmation link was used, or by the
\* team, or by an add that found double opt-in off or no longer found the contact as it
\* had read it, whatever requests overlap, stop or name rows that are gone.
THEOREM OptInIsAsked == Spec => []SubscribedWasAsked
<1>1. Init => LinksAreUsed
  BY DEF Init, LinksAreUsed, SubscribedWasAsked
<1>2. TypeOK /\ LinksAreUsed /\ [Next]_vars => LinksAreUsed'
  BY NextUsed
<1>3. LinksAreUsed => SubscribedWasAsked
  BY DEF LinksAreUsed
<1> QED BY <1>1, <1>2, <1>3, TypeCorrect, PTL DEF Spec

=============================================================================
