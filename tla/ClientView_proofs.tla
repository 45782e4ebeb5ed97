------------------------- MODULE ClientView_proofs -------------------------
(***************************************************************************)
(* Proofs about ClientView for every set of clients and exchanges, every   *)
(* choice of what an exchange holds and every bound on the content.        *)
(***************************************************************************)
EXTENDS ClientView, TLAPS

-----------------------------------------------------------------------------
\* Items, versions and sequences of events.

LEMMA Versions ==
  /\ Absent \in Version
  /\ \A v \in Version : /\ v.status \in DOMAIN Rank /\ v.content \in 0..MaxContent
                        /\ \A s \in DOMAIN Rank : [v EXCEPT !.status = s] \in Version
                        /\ v.content < MaxContent => [v EXCEPT !.content = @ + 1] \in Version
  /\ \A s \in DOMAIN Rank : [status |-> s, content |-> 0] \in Version
  /\ \A s \in DOMAIN Rank, n \in 0..MaxContent : [status |-> s, content |-> n] \in Version
BY ContentBounded DEF Version, Absent, Rank

LEMMA UserItems ==
  \A i \in Item : <<i[1], "user">> \in Item /\ i[1] \in Exchange /\ i[2] \in {"user", "text", "call"}
BY Kinds DEF Item

LEMMA UserItem == \A e \in Exchange : <<e, "user">> \in Item
BY Kinds DEF Item

LEMMA AppendedEvents ==
  ASSUME NEW s \in Seq(Event), NEW x \in Event
  PROVE  /\ Append(s, x) \in Seq(Event)
         /\ DOMAIN s = 1..Len(s) /\ Len(s) \in Nat
         /\ DOMAIN Append(s, x) = 1..(Len(s) + 1)
         /\ Append(s, x)[Len(s) + 1] = x
         /\ \A k \in DOMAIN s : k # Len(s) + 1 /\ Append(s, x)[k] = s[k]
OBVIOUS

LEMMA DeliveredEvents ==
  ASSUME NEW s \in Seq(Event), s # <<>>
  PROVE  /\ Head(s) = s[1] /\ Head(s) \in Event /\ 1 \in DOMAIN s
         /\ Tail(s) \in Seq(Event)
         /\ \A k \in DOMAIN Tail(s) : k + 1 \in DOMAIN s /\ Tail(s)[k] = s[k + 1] /\ k + 1 # 1
         /\ \A k \in DOMAIN s : k # 1 => k - 1 \in DOMAIN Tail(s) /\ Tail(s)[k - 1] = s[k]
OBVIOUS

LEMMA Listed ==
  ASSUME NEW s \in Seq(Exchange)
  PROVE  /\ \A x \in Exchange : /\ Append(s, x) \in Seq(Exchange)
                                /\ ToSet(Append(s, x)) = ToSet(s) \cup {x}
         /\ \A k \in DOMAIN s : /\ SubSeq(s, 1, k - 1) \in Seq(Exchange)
                                /\ ToSet(SubSeq(s, 1, k - 1)) \subseteq ToSet(s)
<1>1. ASSUME NEW x \in Exchange
      PROVE  Append(s, x) \in Seq(Exchange) /\ ToSet(Append(s, x)) = ToSet(s) \cup {x}
  <2>1. /\ Append(s, x) \in Seq(Exchange)
        /\ DOMAIN Append(s, x) = (DOMAIN s) \cup {Len(s) + 1}
        /\ Append(s, x)[Len(s) + 1] = x
        /\ \A k \in DOMAIN s : Append(s, x)[k] = s[k]
    OBVIOUS
  <2> QED
    BY <2>1 DEF ToSet
<1>2. ASSUME NEW k \in DOMAIN s
      PROVE  /\ SubSeq(s, 1, k - 1) \in Seq(Exchange)
             /\ ToSet(SubSeq(s, 1, k - 1)) \subseteq ToSet(s)
  <2>1. /\ SubSeq(s, 1, k - 1) \in Seq(Exchange)
        /\ DOMAIN SubSeq(s, 1, k - 1) \subseteq DOMAIN s
        /\ \A j \in DOMAIN SubSeq(s, 1, k - 1) : SubSeq(s, 1, k - 1)[j] = s[j]
    OBVIOUS
  <2> QED
    BY <2>1 DEF ToSet
<1> QED
  BY <1>1, <1>2

-----------------------------------------------------------------------------
\* Types.

LEMMA TypeInit == Init => TypeOK
BY Versions DEF Init, TypeOK, Version, Absent, Rank

\* What Tell() does to the types.
LEMMA TellType ==
  ASSUME TypeOK, NEW i \in Item, NEW v \in Version,
         NEW type \in {"item.appended", "item.delta", "item.updated"}, Tell(i, v, type)
  PROVE  /\ item' \in [Item -> Version]
         /\ outbox' \in [Client -> Seq(Event)]
         /\ missed' \in [Client -> SUBSET Item]
<1> DEFINE x == [type |-> type, item |-> i, version |-> v]
<1>1. x \in Event
  BY DEF Event
<1>2. \A c \in Client : Append(outbox[c], x) \in Seq(Event)
  BY <1>1, AppendedEvents DEF TypeOK
<1>3. outbox' = [c \in Client |-> IF c \in monitors THEN Append(outbox[c], x) ELSE outbox[c]]
  BY DEF Tell
<1> HIDE DEF x
<1>4. outbox' \in [Client -> Seq(Event)]
  BY <1>2, <1>3 DEF TypeOK
<1> QED
  BY <1>4 DEF Tell, TypeOK

LEMMA FullUpdateType ==
  ASSUME TypeOK, NEW c \in Client, NEW listed, FullUpdate(c, listed)
  PROVE  /\ view' \in [Client -> [Item -> [status : DOMAIN Rank, content : Nat]]]
         /\ missed' \in [Client -> SUBSET Item]
<1>1. Snapshot(listed) \in [Item -> [status : DOMAIN Rank, content : Nat]]
  BY Versions, ContentBounded DEF Snapshot, TypeOK, Version
<1> QED
  BY <1>1 DEF FullUpdate, TypeOK

LEMMA DeliverType ==
  ASSUME TypeOK, NEW c \in Client, Deliver(c)
  PROVE  /\ view' \in [Client -> [Item -> [status : DOMAIN Rank, content : Nat]]]
         /\ outbox' \in [Client -> Seq(Event)]
<1> DEFINE event == Head(outbox[c])
<1>1. event \in Event /\ Tail(outbox[c]) \in Seq(Event)
  BY DeliveredEvents DEF Deliver, TypeOK
<1>2. /\ event.item \in Item /\ event.version \in Version
      /\ view[c][event.item] \in [status : DOMAIN Rank, content : Nat]
  BY <1>1 DEF Event, TypeOK
<1>3. Applied(view[c][event.item], event) \in [status : DOMAIN Rank, content : Nat]
  BY <1>2, ContentBounded DEF Applied, Version
<1>4. view' = [view EXCEPT ![c][event.item] = Applied(@, event)]
  BY DEF Deliver
<1>5. outbox' \in [Client -> Seq(Event)]
  BY <1>1 DEF Deliver, TypeOK
<1> DEFINE j == event.item
           x == Applied(view[c][j], event)
<1>6. view' = [view EXCEPT ![c] = [view[c] EXCEPT ![j] = x]]
  BY <1>4
<1>7. j \in Item /\ x \in [status : DOMAIN Rank, content : Nat]
  BY <1>2, <1>3
<1> HIDE DEF j, x, event
<1> QED
  BY <1>5, <1>6, <1>7 DEF TypeOK

LEMMA TypeStep == TypeOK /\ [Next]_vars => TypeOK'
<1> SUFFICES ASSUME TypeOK, [Next]_vars PROVE TypeOK'
  OBVIOUS
<1>1. ASSUME NEW c \in Client, Mount(c) PROVE TypeOK'
  BY <1>1, FullUpdateType DEF Mount, TypeOK
<1>2. ASSUME NEW c \in Client, Register(c) PROVE TypeOK'
  BY <1>2 DEF Register, TypeOK
<1>3. ASSUME NEW c \in Client, Request(c) PROVE TypeOK'
  BY <1>3, FullUpdateType DEF Request, TypeOK
<1>4. ASSUME NEW c \in Client, Leave(c) PROVE TypeOK'
  BY <1>4 DEF Leave, TypeOK, Absent, Rank
<1>5. ASSUME NEW c \in Client, Deliver(c) PROVE TypeOK'
  BY <1>5, DeliverType DEF Deliver, TypeOK
<1>6. ASSUME NEW c \in Client, NEW k \in DOMAIN exchanges, Restart(c, k) PROVE TypeOK'
  <2>1. exchanges' \in Seq(Exchange)
    BY <1>6, Listed DEF Restart, TypeOK
  <2> QED
    BY <1>6, <2>1, FullUpdateType DEF Restart, TypeOK
<1>7. ASSUME NEW c \in Client, NEW e \in Exchange, Post(c, e) PROVE TypeOK'
  <2>1. exchanges' \in Seq(Exchange)
    BY <1>7, Listed DEF Post, TypeOK
  <2>2. [status |-> "completed", content |-> 0] \in Version
    BY Versions DEF Rank
  <2> QED
    BY <1>7, <2>1, <2>2, UserItem, TellType DEF Post, TypeOK
<1>8. ASSUME NEW i \in Item, Appends(i) PROVE TypeOK'
  <2>1. [status |-> "in_progress", content |-> 0] \in Version
    BY Versions DEF Rank
  <2> QED
    BY <1>8, <2>1, TellType DEF Appends, TypeOK
<1>9. ASSUME NEW i \in Item, Grows(i) PROVE TypeOK'
  <2> DEFINE v == [item[i] EXCEPT !.content = @ + 1]
  <2>1. v \in Version
    BY <1>9, Versions DEF Grows, TypeOK
  <2>2. /\ Tell(i, v, "item.delta") \/ (item' = [item EXCEPT ![i] = v] /\ UNCHANGED <<outbox, missed>>)
        /\ UNCHANGED <<exchanges, monitors, pc, view>>
    BY <1>9 DEF Grows
  <2> HIDE DEF v
  <2> QED
    BY <2>1, <2>2, TellType DEF TypeOK
<1>10. ASSUME NEW i \in Item, NEW from, NEW v \in Version, Updates(i, from, v) PROVE TypeOK'
  BY <1>10, TellType DEF Updates, TypeOK
<1>11. ASSUME NEW i \in Item, Completes(i) \/ Executes(i) \/ Reports(i) \/ Fails(i) \/ Finishes(i)
       PROVE  TypeOK'
  <2>1. /\ \A s \in {"completed", "executing"} : [item[i] EXCEPT !.status = s] \in Version
        /\ item[i].content < MaxContent => [item[i] EXCEPT !.content = @ + 1] \in Version
        /\ \A s \in {"failed", "finished"}, n \in 0..MaxContent :
             [status |-> s, content |-> n] \in Version
    BY Versions DEF TypeOK, Rank
  <2>2. CASE Fails(i)
    BY <2>1, <2>2, <1>10 DEF Fails
  <2>3. CASE Finishes(i)
    BY <2>1, <2>3, <1>10 DEF Finishes
  <2> QED
    BY <1>11, <2>1, <2>2, <2>3, <1>10 DEF Completes, Executes, Reports
<1>12. CASE UNCHANGED vars
  BY <1>12 DEF vars, TypeOK
<1> QED
  BY <1>1, <1>2, <1>3, <1>4, <1>5, <1>6, <1>7, <1>8, <1>9, <1>11, <1>12 DEF Next

\* Every reachable state of the views and outboxes is well typed.
THEOREM TypeCorrect == Spec => []TypeOK
BY TypeInit, TypeStep, PTL DEF Spec

-----------------------------------------------------------------------------
\* What is on its way to a client, and what it has seen.

\* An event on its way tells the present version of its item, and is the only
\* one about it; a delta is about an item that is still being written.
Pending(c) ==
  \A k \in DOMAIN outbox[c] :
    /\ outbox[c][k].version = item[outbox[c][k].item]
    /\ item[outbox[c][k].item] # Absent
    /\ outbox[c][k].type = "item.delta" => item[outbox[c][k].item].status = "in_progress"
    /\ \A l \in DOMAIN outbox[c] : outbox[c][l].item = outbox[c][k].item => l = k

Awaits(c, i) == \E k \in DOMAIN outbox[c] : outbox[c][k].item = i

\* A client shows the present version of the items it has been told of, unless
\* they are being written.
Shows(c) ==
  \A i \in Item :
    InConversation(i) /\ i \notin missed[c] /\ item[i].status # "in_progress"
      /\ ~Awaits(c, i) => view[c][i] = item[i]

\* No item is shown before it exists, or ahead of what it is.
NotAhead(c) ==
  \A i \in Item : /\ item[i] = Absent => view[c][i] = Absent
                  /\ Rank[view[c][i].status] <= Rank[item[i].status]

Told ==
  /\ \A c \in Client : (c \in monitors <=> pc[c] = "in") /\ (pc[c] # "in" => outbox[c] = <<>>)
  /\ \A i \in Item : item[<<i[1], "user">>] = Absent => item[i] = Absent
  /\ \A c \in Client : Pending(c) /\ NotAhead(c) /\ (pc[c] # "out" => Shows(c))

LEMMA ToldInit == Init => Told
<1> SUFFICES ASSUME Init PROVE Told
  OBVIOUS
<1>1. /\ \A c \in Client : /\ pc[c] = "out" /\ outbox[c] = <<>> /\ c \notin monitors
                           /\ \A i \in Item : view[c][i] = Absent
      /\ \A i \in Item : item[i] = Absent
  BY DEF Init
<1>2. Rank[Absent.status] <= Rank[Absent.status]
  BY DEF Rank, Absent
<1> QED
  BY <1>1, <1>2, UserItems DEF Told, Pending, NotAhead

-----------------------------------------------------------------------------
\* Sending an event about item i, whose last event has been sent.

LEMMA TellTold ==
  ASSUME TypeOK, Told, NEW i \in Item, NEW v \in Version,
         NEW type \in {"item.appended", "item.delta", "item.updated"}, Tell(i, v, type),
         UNCHANGED <<monitors, pc, view>>,
         \A c \in Client : ~Awaits(c, i),
         v # Absent, Rank[item[i].status] <= Rank[v.status],
         type = "item.delta" => v.status = "in_progress",
         i[2] = "user" \/ item[<<i[1], "user">>] # Absent,
         \A j \in Item : InConversation(j)' => InConversation(j) \/ j = i \/ item[j] = Absent
  PROVE  Told'
<1> DEFINE x == [type |-> type, item |-> i, version |-> v]
<1>1. x \in Event /\ x.type = type /\ x.item = i /\ x.version = v
  BY DEF Event
<1>2. /\ item'[i] = v
      /\ \A j \in Item : j # i => item'[j] = item[j]
      /\ \A c \in monitors : outbox'[c] = Append(outbox[c], x)
      /\ \A c \in Client \ monitors : outbox'[c] = outbox[c]
      /\ \A c \in Client : missed'[c] = IF pc[c] = "mounting" THEN missed[c] \cup {i} ELSE missed[c]
  BY DEF Tell, TypeOK
<1> HIDE DEF x
<1>3. ASSUME NEW c \in Client
      PROVE  /\ c \in monitors' <=> pc'[c] = "in"
             /\ pc'[c] # "in" => outbox'[c] = <<>>
  BY <1>2 DEF Told
<1>4. ASSUME NEW j \in Item, item'[<<j[1], "user">>] = Absent PROVE item'[j] = Absent
  <2>1. <<j[1], "user">> \in Item
    BY UserItems
  <2>2. i = <<i[1], i[2]>>
    BY DEF Item
  <2>3. <<j[1], "user">> # i
    BY <1>2, <1>4
  <2>4. item[<<j[1], "user">>] = Absent /\ item[j] = Absent
    BY <1>2, <1>4, <2>1, <2>3 DEF Told
  <2>5. j # i
    BY <2>2, <2>3, <2>4
  <2> QED
    BY <1>2, <2>4, <2>5
<1>5. ASSUME NEW c \in Client PROVE Pending(c)'
  <2>1. CASE c \in monitors
    <3>1. outbox[c] \in Seq(Event) /\ outbox'[c] = Append(outbox[c], x) /\ Pending(c)
      BY <1>2, <2>1 DEF TypeOK, Told
    <3>2. /\ DOMAIN outbox'[c] = (DOMAIN outbox[c]) \cup {Len(outbox[c]) + 1}
          /\ outbox'[c][Len(outbox[c]) + 1] = x
          /\ \A k \in DOMAIN outbox[c] : outbox'[c][k] = outbox[c][k] /\ k # Len(outbox[c]) + 1
      BY <1>1, <3>1, AppendedEvents
    <3>3. \A k \in DOMAIN outbox[c] : outbox[c][k].item # i
      BY DEF Awaits
    <3>4. \A k \in DOMAIN outbox[c] : outbox[c][k] \in Event
      BY <3>1
    <3>5. \A k \in DOMAIN outbox[c] : outbox[c][k].item \in Item
      BY <3>4 DEF Event
    <3> QED
      BY <1>1, <1>2, <3>1, <3>2, <3>3, <3>5 DEF Pending
  <2>2. CASE c \notin monitors
    <3>1. outbox'[c] = <<>>
      BY <1>3, <2>2
    <3> QED
      BY <3>1 DEF Pending
  <2> QED
    BY <2>1, <2>2
<1>6. ASSUME NEW c \in Client PROVE NotAhead(c)'
  <2>1. ASSUME NEW j \in Item
        PROVE  /\ item'[j] = Absent => view'[c][j] = Absent
               /\ Rank[view'[c][j].status] <= Rank[item'[j].status]
    <3>1. /\ item[j] = Absent => view[c][j] = Absent
          /\ Rank[view[c][j].status] <= Rank[item[j].status]
      BY DEF Told, NotAhead
    <3>2. CASE j = i
      <4>1. /\ view[c][i].status \in DOMAIN Rank /\ item[i].status \in DOMAIN Rank
            /\ v.status \in DOMAIN Rank
        BY DEF TypeOK, Version
      <4>2. \A s \in DOMAIN Rank : Rank[s] \in Nat
        BY DEF Rank
      <4> QED
        BY <1>2, <3>1, <3>2, <4>1, <4>2
    <3>3. CASE j # i
      BY <1>2, <3>1, <3>3
    <3> QED
      BY <3>2, <3>3
  <2> QED
    BY <2>1 DEF NotAhead
<1>7. ASSUME NEW c \in Client, pc'[c] # "out" PROVE Shows(c)'
  <2>1. SUFFICES ASSUME NEW j \in Item, InConversation(j)', j \notin missed'[c],
                        item'[j].status # "in_progress", ~Awaits(c, j)'
                 PROVE  view[c][j] = item'[j]
    BY DEF Shows
  <2>2. j # i
    <3>1. CASE c \in monitors
      <4>1. outbox[c] \in Seq(Event)
        BY DEF TypeOK
      <4>2. Awaits(c, i)'
        BY <1>1, <1>2, <3>1, <4>1, AppendedEvents DEF Awaits
      <4> QED
        BY <2>1, <4>2
    <3>2. CASE c \notin monitors
      <4>1. pc[c] = "mounting"
        BY <1>7, <3>2 DEF Told, TypeOK
      <4> QED
        BY <1>2, <2>1, <4>1
    <3> QED
      BY <3>1, <3>2
  <2>3. item'[j] = item[j] /\ j \notin missed[c]
    BY <1>2, <2>1, <2>2
  <2>4. CASE item[j] = Absent
    BY <2>3, <2>4 DEF Told, NotAhead
  <2>5. CASE item[j] # Absent
    <3>1. InConversation(j)
      BY <2>1, <2>2, <2>5
    <3>2. ~Awaits(c, j)
      <4>1. SUFFICES ASSUME NEW k \in DOMAIN outbox[c], outbox[c][k].item = j
                     PROVE  Awaits(c, j)'
        BY <2>1 DEF Awaits
      <4>2. outbox[c] \in Seq(Event)
        BY DEF TypeOK
      <4>3. k \in DOMAIN outbox'[c] /\ outbox'[c][k] = outbox[c][k]
        BY <1>1, <1>2, <4>2, AppendedEvents
      <4> QED
        BY <4>1, <4>3 DEF Awaits
    <3>3. Shows(c)
      BY <1>7 DEF Told
    <3> QED
      BY <2>1, <2>3, <3>1, <3>2, <3>3 DEF Shows
  <2> QED
    BY <2>4, <2>5
<1> QED
  BY <1>3, <1>4, <1>5, <1>6, <1>7 DEF Told

-----------------------------------------------------------------------------
\* A full update, and the clients it leaves alone.

LEMMA FullUpdateTold ==
  ASSUME TypeOK, Told, NEW c \in Client, FullUpdate(c, exchanges'),
         UNCHANGED <<item, outbox>>, ToSet(exchanges') \subseteq ToSet(exchanges),
         \A d \in Client : (d \in monitors' <=> pc'[d] = "in") /\ (pc'[d] # "in" => outbox[d] = <<>>),
         \A d \in Client \ {c} : pc'[d] = pc[d]
  PROVE  Told'
<1>1. /\ \A d \in Client \ {c} : view'[d] = view[d] /\ missed'[d] = missed[d]
      /\ view'[c] = Snapshot(exchanges')
  BY DEF FullUpdate, TypeOK
<1>2. \A i \in Item : view'[c][i] = IF InConversation(i)' THEN item[i] ELSE Absent
  BY <1>1 DEF Snapshot, InConversation
<1>3. \A d \in Client : Pending(d)'
  BY DEF Told, Pending
<1>4. ASSUME NEW d \in Client PROVE NotAhead(d)'
  <2>1. CASE d = c
    <3>1. \A s \in DOMAIN Rank : Rank[s] \in Nat /\ Rank["absent"] <= Rank[s]
      BY DEF Rank
    <3>2. \A i \in Item : item[i].status \in DOMAIN Rank
      BY DEF TypeOK, Version
    <3> QED
      BY <1>2, <2>1, <3>1, <3>2 DEF NotAhead, Absent
  <2>2. CASE d # c
    BY <1>1, <2>2 DEF Told, NotAhead
  <2> QED
    BY <2>1, <2>2
<1>5. ASSUME NEW d \in Client, pc'[d] # "out" PROVE Shows(d)'
  <2>1. CASE d = c
    BY <1>2, <2>1 DEF Shows
  <2>2. CASE d # c
    <3>1. Shows(d) /\ view'[d] = view[d] /\ missed'[d] = missed[d]
      BY <1>1, <1>5, <2>2 DEF Told
    <3>2. \A i \in Item : InConversation(i)' => InConversation(i)
      BY DEF InConversation
    <3> QED
      BY <3>1, <3>2 DEF Shows, Awaits
  <2> QED
    BY <2>1, <2>2
<1> QED
  BY <1>3, <1>4, <1>5 DEF Told

LEMMA DeliverTold ==
  ASSUME TypeOK, Told, NEW c \in Client, Deliver(c)
  PROVE  /\ Told'
         /\ \A d \in Client, i \in Item : view'[d][i] # view[d][i] =>
              Rank[view[d][i].status] <= Rank[view'[d][i].status]
<1> DEFINE event == Head(outbox[c])
           j == event.item
           x == Applied(view[c][j], event)
<1>1. /\ outbox[c] # <<>> /\ outbox[c] \in Seq(Event) /\ outbox[c][1] = event
      /\ event \in Event /\ 1 \in DOMAIN outbox[c]
  BY DeliveredEvents DEF Deliver, TypeOK
<1>2. /\ j \in Item /\ event.version = item[j] /\ item[j] # Absent
      /\ event.type = "item.delta" => item[j].status = "in_progress"
      /\ \A l \in DOMAIN outbox[c] : outbox[c][l].item = j => l = 1
  BY <1>1 DEF Told, Pending, Event
<1>3. /\ view' = [view EXCEPT ![c] = [view[c] EXCEPT ![j] = x]]
      /\ outbox' = [outbox EXCEPT ![c] = Tail(@)]
      /\ UNCHANGED <<exchanges, item, monitors, pc, missed>>
  BY DEF Deliver
<1>4. /\ event.type # "item.delta" => x = item[j]
      /\ x.status = item[j].status \/ x.status = view[c][j].status
  BY <1>2 DEF Applied, TypeOK
<1>5. /\ view[c][j].status \in DOMAIN Rank /\ item[j].status \in DOMAIN Rank
      /\ \A s \in DOMAIN Rank : Rank[s] \in Nat
      /\ Rank[view[c][j].status] <= Rank[item[j].status]
  BY <1>2 DEF TypeOK, Version, Rank, Told, NotAhead
<1> HIDE DEF x, j, event
<1>6. /\ \A d \in Client \ {c} : view'[d] = view[d] /\ outbox'[d] = outbox[d]
      /\ \A i \in Item \ {j} : view'[c][i] = view[c][i]
      /\ view'[c][j] = x
      /\ outbox'[c] = Tail(outbox[c])
  BY <1>2, <1>3 DEF TypeOK
<1>7. ASSUME NEW d \in Client PROVE Pending(d)'
  <2>1. CASE d = c
    <3>1. \A k \in DOMAIN outbox'[c] : k + 1 \in DOMAIN outbox[c] /\ outbox'[c][k] = outbox[c][k + 1]
      BY <1>1, <1>6, DeliveredEvents
    <3>2. DOMAIN outbox'[c] \subseteq Int
      BY <1>1, <1>6, DeliveredEvents
    <3>3. Pending(c)
      BY DEF Told
    <3>4. ASSUME NEW k \in DOMAIN outbox'[c]
          PROVE  /\ outbox'[c][k].version = item'[outbox'[c][k].item]
                 /\ item'[outbox'[c][k].item] # Absent
                 /\ outbox'[c][k].type = "item.delta" => item'[outbox'[c][k].item].status = "in_progress"
                 /\ \A l \in DOMAIN outbox'[c] : outbox'[c][l].item = outbox'[c][k].item => l = k
      <4>1. \A l \in DOMAIN outbox'[c] : outbox'[c][l].item = outbox'[c][k].item => l + 1 = k + 1
        BY <3>1, <3>3 DEF Pending
      <4>2. \A l \in DOMAIN outbox'[c] : l + 1 = k + 1 => l = k
        BY <3>2
      <4> QED
        BY <1>3, <3>1, <3>3, <4>1, <4>2 DEF Pending
    <3> QED
      BY <2>1, <3>4 DEF Pending
  <2>2. CASE d # c
    BY <1>3, <1>6, <2>2 DEF Told, Pending
  <2> QED
    BY <2>1, <2>2
<1>8. ASSUME NEW d \in Client PROVE NotAhead(d)'
  <2>1. NotAhead(d)
    BY DEF Told
  <2>2. CASE d = c
    BY <1>2, <1>3, <1>4, <1>5, <1>6, <2>1, <2>2 DEF NotAhead
  <2>3. CASE d # c
    BY <1>3, <1>6, <2>1, <2>3 DEF NotAhead
  <2> QED
    BY <2>2, <2>3
<1>9. ASSUME NEW d \in Client, pc'[d] # "out" PROVE Shows(d)'
  <2>1. Shows(d)
    BY <1>3, <1>9 DEF Told
  <2>2. CASE d = c
    <3>1. SUFFICES ASSUME NEW i \in Item, InConversation(i)', i \notin missed'[c],
                          item'[i].status # "in_progress", ~Awaits(c, i)'
                   PROVE  view'[c][i] = item'[i]
      BY <2>2 DEF Shows
    <3>2. CASE i = j
      BY <1>2, <1>3, <1>4, <1>6, <3>1, <3>2
    <3>3. CASE i # j
      <4>1. ~Awaits(c, i)
        <5>1. \A k \in DOMAIN outbox[c] : k # 1 =>
                k - 1 \in DOMAIN outbox'[c] /\ outbox'[c][k - 1] = outbox[c][k]
          BY <1>1, <1>6, DeliveredEvents
        <5>2. outbox[c][1].item # i
          BY <1>1, <3>3 DEF j
        <5> QED
          BY <3>1, <5>1, <5>2 DEF Awaits
      <4>2. InConversation(i)
        BY <1>3, <3>1 DEF InConversation
      <4> QED
        BY <1>3, <1>6, <2>1, <2>2, <3>1, <3>3, <4>1, <4>2 DEF Shows
    <3> QED
      BY <3>2, <3>3
  <2>3. CASE d # c
    BY <1>3, <1>6, <2>1, <2>3 DEF Shows, InConversation, Awaits
  <2> QED
    BY <2>2, <2>3
<1>10. Told'
  BY <1>3, <1>6, <1>7, <1>8, <1>9, DeliveredEvents DEF Told, TypeOK
<1>11. ASSUME NEW d \in Client, NEW i \in Item, view'[d][i] # view[d][i]
       PROVE  Rank[view[d][i].status] <= Rank[view'[d][i].status]
  <2>1. d = c /\ i = j
    BY <1>6, <1>11
  <2> QED
    BY <1>4, <1>5, <1>6, <2>1
<1> QED
  BY <1>10, <1>11

-----------------------------------------------------------------------------
\* Every step.

LEMMA ExistingItem ==
  ASSUME TypeOK, Told, NEW i \in Item, item[i].status # "absent"
  PROVE  item[i] # Absent /\ item[<<i[1], "user">>] # Absent
BY DEF Absent, Told

LEMMA UpdatesTold ==
  ASSUME TypeOK, Told, NEW i \in Item, NEW from, NEW v \in Version, Updates(i, from, v),
         v.status # "absent", from # "absent", Rank[from] <= Rank[v.status]
  PROVE  Told'
<1>1. /\ item[i].status = from /\ Tell(i, v, "item.updated")
      /\ UNCHANGED <<exchanges, monitors, pc, view>>
      /\ \A c \in Client : ~Awaits(c, i)
  BY DEF Updates, Sent, Awaits
<1>2. item[<<i[1], "user">>] # Absent /\ v # Absent
  BY <1>1, ExistingItem DEF Absent
<1>3. \A j \in Item : InConversation(j)' => InConversation(j)
  BY <1>1 DEF InConversation
<1> QED
  BY <1>1, <1>2, <1>3, TellTold

LEMMA GrowsTold == ASSUME TypeOK, Told, NEW i \in Item, Grows(i) PROVE Told'
<1> DEFINE v == [item[i] EXCEPT !.content = @ + 1]
<1>1. /\ item[i].status = "in_progress" /\ item[i].content < MaxContent
      /\ \A c \in Client : ~Awaits(c, i)
      /\ UNCHANGED <<exchanges, monitors, pc, view>>
  BY DEF Grows, Sent, Awaits
<1>2. v \in Version /\ v.status = "in_progress" /\ item[i] \in Version
  BY <1>1, Versions DEF TypeOK, Version
<1>3. v # Absent /\ Rank[item[i].status] <= Rank[v.status]
  BY <1>1, <1>2 DEF Absent, Rank
<1>4. item[i] # Absent /\ item[<<i[1], "user">>] # Absent
  BY <1>1, ExistingItem
<1>5. \A j \in Item : InConversation(j)' = InConversation(j)
  BY <1>1 DEF InConversation
<1>6. \/ Tell(i, v, "item.delta")
      \/ item' = [item EXCEPT ![i] = v] /\ UNCHANGED <<outbox, missed>>
  BY DEF Grows
<1> HIDE DEF v
<1>7. CASE Tell(i, v, "item.delta")
  BY <1>1, <1>2, <1>3, <1>4, <1>5, <1>7, TellTold
<1>8. CASE item' = [item EXCEPT ![i] = v] /\ UNCHANGED <<outbox, missed>>
  <2>1. item'[i] = v /\ \A j \in Item : j # i => item'[j] = item[j]
    BY <1>8 DEF TypeOK
  <2>2. ASSUME NEW c \in Client PROVE Pending(c)'
    <3>1. Pending(c) /\ \A k \in DOMAIN outbox[c] : outbox[c][k].item # i
      BY <1>1 DEF Told, Awaits
    <3>2. \A k \in DOMAIN outbox[c] : outbox[c][k] \in Event
      BY DEF TypeOK
    <3>3. \A k \in DOMAIN outbox[c] : outbox[c][k].item \in Item
      BY <3>2 DEF Event
    <3> QED
      BY <1>8, <2>1, <3>1, <3>3 DEF Pending
  <2>3. ASSUME NEW c \in Client PROVE NotAhead(c)'
    BY <1>1, <1>2, <1>3, <1>4, <2>1 DEF Told, NotAhead
  <2>4. ASSUME NEW c \in Client, pc'[c] # "out" PROVE Shows(c)'
    BY <1>1, <1>2, <1>5, <1>8, <2>1, <2>4 DEF Told, Shows, Awaits
  <2>5. ASSUME NEW j \in Item, item'[<<j[1], "user">>] = Absent PROVE item'[j] = Absent
    <3>1. <<j[1], "user">> \in Item
      BY UserItems
    <3>2. item[<<j[1], "user">>] = Absent
      BY <1>3, <2>1, <2>5, <3>1
    <3> QED
      BY <1>4, <2>1, <3>2 DEF Told
  <2> QED
    BY <1>1, <1>8, <2>2, <2>3, <2>4, <2>5 DEF Told
<1> QED
  BY <1>6, <1>7, <1>8

LEMMA AppendsTold == ASSUME TypeOK, Told, NEW i \in Item, Appends(i) PROVE Told'
<1> DEFINE v == [status |-> "in_progress", content |-> 0]
<1>1. /\ i[2] # "user" /\ item[i] = Absent /\ Tell(i, v, "item.appended")
      /\ UNCHANGED <<exchanges, monitors, pc, view>>
      /\ \A j \in Before(i) : Rank[item[j].status] >= Rank.completed
  BY DEF Appends
<1>2. <<i[1], "user">> \in Before(i)
  BY <1>1, UserItems DEF Before
<1>3. item[<<i[1], "user">>] # Absent
  BY <1>1, <1>2 DEF Absent, Rank
<1>4. \A c \in Client : ~Awaits(c, i)
  BY <1>1 DEF Told, Pending, Awaits
<1>5. v \in Version /\ v # Absent /\ Rank[item[i].status] <= Rank[v.status]
  BY <1>1, Versions DEF Absent, Rank
<1>6. \A j \in Item : InConversation(j)' => InConversation(j)
  BY <1>1 DEF InConversation
<1> HIDE DEF v
<1> QED
  BY <1>1, <1>3, <1>4, <1>5, <1>6, TellTold

LEMMA PostTold ==
  ASSUME TypeOK, Told, NEW c \in Client, NEW e \in Exchange, Post(c, e)
  PROVE  Told'
<1> DEFINE i == <<e, "user">>
           v == [status |-> "completed", content |-> 0]
<1>1. /\ i \in Item /\ i[1] = e /\ i[2] = "user"
      /\ item[i] = Absent /\ Tell(i, v, "item.appended")
      /\ exchanges' = Append(exchanges, e) /\ UNCHANGED <<monitors, pc, view>>
  BY UserItem DEF Post
<1>2. \A d \in Client : ~Awaits(d, i)
  BY <1>1 DEF Told, Pending, Awaits
<1>3. v \in Version /\ v # Absent /\ Rank[item[i].status] <= Rank[v.status]
  BY <1>1, Versions DEF Absent, Rank
<1>4. ASSUME NEW j \in Item, InConversation(j)', ~InConversation(j) PROVE item[j] = Absent
  <2>1. j[1] = e
    BY <1>1, <1>4, Listed DEF InConversation, TypeOK
  <2> QED
    BY <1>1, <2>1 DEF Told
<1> HIDE DEF i, v
<1> QED
  BY <1>1, <1>2, <1>3, <1>4, TellTold

LEMMA LeaveTold == ASSUME TypeOK, Told, NEW c \in Client, Leave(c) PROVE Told'
<1>1. /\ UNCHANGED <<exchanges, item>>
      /\ pc'[c] = "out" /\ outbox'[c] = <<>> /\ \A i \in Item : view'[c][i] = Absent
      /\ monitors' = monitors \ {c}
      /\ \A d \in Client \ {c} : /\ pc'[d] = pc[d] /\ outbox'[d] = outbox[d]
                                 /\ view'[d] = view[d] /\ missed'[d] = missed[d]
  BY DEF Leave, TypeOK
<1>2. \A i \in Item : Rank[Absent.status] <= Rank[item[i].status]
  <2>1. \A s \in DOMAIN Rank : Rank[Absent.status] <= Rank[s]
    BY DEF Rank, Absent
  <2> QED
    BY <2>1 DEF TypeOK, Version
<1>3. ASSUME NEW d \in Client PROVE Pending(d)' /\ NotAhead(d)' /\ (pc'[d] # "out" => Shows(d)')
  <2>1. CASE d = c
    BY <1>1, <1>2, <2>1 DEF Pending, NotAhead
  <2>2. CASE d # c
    BY <1>1, <2>2 DEF Told, Pending, NotAhead, Shows, Awaits, InConversation
  <2> QED
    BY <2>1, <2>2
<1> QED
  BY <1>1, <1>3 DEF Told

LEMMA ToldStep == TypeOK /\ Told /\ [Next]_vars => Told'
<1> SUFFICES ASSUME TypeOK, Told, [Next]_vars PROVE Told'
  OBVIOUS
<1>1. ASSUME NEW c \in Client, Mount(c) PROVE Told'
  <2>1. \A d \in Client : (d \in monitors' <=> pc'[d] = "in") /\ (pc'[d] # "in" => outbox[d] = <<>>)
    BY <1>1 DEF Mount, Told, TypeOK
  <2> QED
    BY <1>1, <2>1, FullUpdateTold DEF Mount, TypeOK
<1>2. ASSUME NEW c \in Client, Register(c) PROVE Told'
  <2>1. /\ UNCHANGED <<exchanges, item, outbox, view, missed>>
        /\ pc[c] = "mounting" /\ pc'[c] = "in" /\ monitors' = monitors \cup {c}
        /\ \A d \in Client \ {c} : pc'[d] = pc[d]
    BY <1>2 DEF Register, TypeOK
  <2> QED
    BY <2>1 DEF Told, Pending, NotAhead, Shows, Awaits, InConversation
<1>3. ASSUME NEW c \in Client, Request(c) PROVE Told'
  BY <1>3, FullUpdateTold DEF Request, Told
<1>4. ASSUME NEW c \in Client, NEW k \in DOMAIN exchanges, Restart(c, k) PROVE Told'
  <2>1. ToSet(exchanges') \subseteq ToSet(exchanges)
    BY <1>4, Listed DEF Restart, TypeOK
  <2> QED
    BY <1>4, <2>1, FullUpdateTold DEF Restart, Told
<1>5. ASSUME NEW i \in Item, Completes(i) \/ Executes(i) \/ Reports(i) \/ Fails(i) \/ Finishes(i)
      PROVE  Told'
  <2>1. /\ item[i] \in Version
        /\ \A s \in {"completed", "executing"} : [item[i] EXCEPT !.status = s] \in Version
        /\ item[i].content < MaxContent => [item[i] EXCEPT !.content = @ + 1] \in Version
        /\ \A s \in {"failed", "finished"}, n \in 0..MaxContent :
             [status |-> s, content |-> n] \in Version
    BY Versions DEF TypeOK, Rank
  <2>2. /\ \A s \in {"completed", "executing"} : [item[i] EXCEPT !.status = s].status = s
        /\ [item[i] EXCEPT !.content = @ + 1].status = item[i].status
    BY <2>1 DEF Version
  <2>3. /\ Rank["in_progress"] <= Rank["completed"]
        /\ Rank["completed"] <= Rank["executing"]
        /\ Rank["executing"] <= Rank["executing"]
        /\ Rank["executing"] <= Rank["failed"]
        /\ Rank["executing"] <= Rank["finished"]
        /\ Rank["failed"] <= Rank["finished"]
    BY DEF Rank
  <2> DEFINE Becomes(s) == [item[i] EXCEPT !.status = s]
             Ends(s, n) == [status |-> s, content |-> n]
  <2>4. ASSUME NEW from \in {"in_progress", "completed"},
               NEW s \in {"completed", "executing"},
               Updates(i, from, Becomes(s)), Rank[from] <= Rank[s]
        PROVE  Told'
    <3>1. Becomes(s) \in Version /\ Becomes(s).status = s
      BY <2>1, <2>2
    <3> HIDE DEF Becomes
    <3> QED
      BY <2>4, <3>1, UpdatesTold
  <2>5. ASSUME NEW from \in {"executing", "failed"}, NEW s \in {"failed", "finished"},
               NEW n \in 0..MaxContent, Updates(i, from, Ends(s, n)), Rank[from] <= Rank[s]
        PROVE  Told'
    <3>1. Ends(s, n) \in Version /\ Ends(s, n).status = s
      BY <2>1
    <3> HIDE DEF Ends
    <3> QED
      BY <2>5, <3>1, UpdatesTold
  <2>6. CASE Completes(i)
    BY <2>6, <2>3, <2>4 DEF Completes
  <2>7. CASE Executes(i)
    BY <2>7, <2>3, <2>4 DEF Executes
  <2>8. CASE Reports(i)
    <3>1. item[i].status = "executing"
      BY <2>8 DEF Reports, Updates
    <3> QED
      BY <2>1, <2>2, <2>3, <2>8, <3>1, UpdatesTold DEF Reports
  <2>9. CASE Fails(i)
    BY <2>9, <2>3, <2>5 DEF Fails
  <2>10. CASE Finishes(i)
    BY <2>10, <2>3, <2>5 DEF Finishes
  <2> QED
    BY <1>5, <2>6, <2>7, <2>8, <2>9, <2>10
<1>6. CASE UNCHANGED vars
  BY <1>6 DEF vars, Told, Pending, NotAhead, Shows, Awaits, InConversation
<1> QED
  BY <1>1, <1>2, <1>3, <1>4, <1>5, <1>6, LeaveTold, DeliverTold, PostTold, AppendsTold, GrowsTold
     DEF Next

LEMMA ToldCorrect == Spec => [](TypeOK /\ Told)
BY TypeInit, TypeStep, ToldInit, ToldStep, PTL DEF Spec

-----------------------------------------------------------------------------
\* What a client shows of a settled item of the conversation is that item: it
\* was in its full update, or an event is not lost on the way, or it changed
\* in the gap between the two.
THEOREM SettledGetsSeen == Spec => []SettledIsSeen
<1>1. TypeOK /\ Told => SettledIsSeen
  <2> SUFFICES ASSUME TypeOK, Told, NEW c \in monitors, NEW i \in Item,
                      InConversation(i), Settled(i), i \notin missed[c]
               PROVE  view[c][i] = item[i]
    BY DEF SettledIsSeen
  <2>1. c \in Client /\ pc[c] # "out" /\ Shows(c)
    BY DEF Told, TypeOK
  <2>2. ~Awaits(c, i) /\ item[i].status # "in_progress"
    BY <2>1 DEF Settled, Sent, Awaits
  <2> QED
    BY <2>1, <2>2 DEF Shows
<1> QED
  BY <1>1, ToldCorrect, PTL

LEMMA ViewSteps ==
  ASSUME TypeOK, Told, [Next]_vars, NEW c \in monitors, c \in monitors', NEW i \in Item,
         view[c][i] # Absent, view'[c][i] # Absent
  PROVE  Rank[view'[c][i].status] >= Rank[view[c][i].status]
<1>0. /\ c \in Client /\ Rank[view[c][i].status] <= Rank[item[i].status]
      /\ view[c][i].status \in DOMAIN Rank
      /\ \A s \in DOMAIN Rank : Rank[s] \in Nat
  BY DEF TypeOK, Told, NotAhead, Rank
<1>1. ASSUME view'[c][i] = view[c][i] PROVE Rank[view'[c][i].status] >= Rank[view[c][i].status]
  BY <1>0, <1>1
<1>2. ASSUME NEW d \in Client, NEW listed, FullUpdate(d, listed), item' = item
      PROVE  Rank[view'[c][i].status] >= Rank[view[c][i].status]
  <2>1. view'[c][i] \in {view[c][i], item[i], Absent}
    BY <1>0, <1>2 DEF FullUpdate, Snapshot, TypeOK
  <2> QED
    BY <1>0, <1>1, <2>1
<1>3. ASSUME NEW d \in Client, Mount(d) \/ Request(d) \/ \E k \in DOMAIN exchanges : Restart(d, k)
      PROVE  Rank[view'[c][i].status] >= Rank[view[c][i].status]
  BY <1>2, <1>3 DEF Mount, Request, Restart
<1>4. ASSUME NEW d \in Client, Deliver(d)
      PROVE  Rank[view'[c][i].status] >= Rank[view[c][i].status]
  <2>1. CASE view'[c][i] = view[c][i]
    BY <1>1, <2>1
  <2>2. CASE view'[c][i] # view[c][i]
    <3>1. view'[c][i].status \in DOMAIN Rank
      BY <1>0, TypeStep DEF TypeOK
    <3> QED
      BY <1>0, <1>4, <2>2, <3>1, DeliverTold
  <2> QED
    BY <2>1, <2>2
<1>5. ASSUME NEW d \in Client, Leave(d)
      PROVE  Rank[view'[c][i].status] >= Rank[view[c][i].status]
  <2>1. d # c
    BY <1>5 DEF Leave
  <2> QED
    BY <1>0, <1>1, <1>5, <2>1 DEF Leave, TypeOK
<1>6. CASE view' = view
  BY <1>1, <1>6
<1> QED
  BY <1>3, <1>4, <1>5, <1>6
     DEF Next, Register, Post, Appends, Grows, Completes, Executes, Reports, Fails, Finishes,
         Updates, vars

\* No client ever sees an item fall back to an earlier version, whatever full
\* updates and events it gets in whatever order.
THEOREM NothingFallsBack == Spec => NeverFallsBack
<1>1. TypeOK /\ Told /\ [Next]_vars =>
        [\A c \in monitors, i \in Item :
           c \in monitors' /\ view[c][i] # Absent /\ view'[c][i] # Absent =>
             Rank[view'[c][i].status] >= Rank[view[c][i].status]]_vars
  BY ViewSteps
<1> QED
  BY <1>1, ToldCorrect, PTL DEF Spec, NeverFallsBack

=============================================================================
