------------------------ MODULE ModelProviders_proofs ------------------------
(***************************************************************************)
(* Proofs about ModelProviders for every set of providers, models and      *)
(* clients, any capacity and any bound on the changes.                     *)
(***************************************************************************)
EXTENDS ModelProviders, SequenceTheorems, TLAPS

-----------------------------------------------------------------------------
\* Types of what decides the offers and the choice of a provider.

Typed ==
  /\ serves \in [Provider -> SUBSET Model]
  /\ changed \subseteq Provider
  /\ changes \in 0..MaxChanges
  /\ Models \in [Provider -> SUBSET Model]
  /\ broken \subseteq Provider
  /\ pc \in [Client -> {"out", "asking", "creating", "mounted"}]
  /\ stage \in [Client -> [Provider -> {"idle", "asked", "answered", "done"}]]
  /\ reply \in [Client -> [Provider -> SUBSET Model]]
  /\ offered \in [Client -> SUBSET (Provider \X Model)]
  /\ seen \in [Client -> SUBSET (Provider \X Model)]
  /\ turn \in [Client -> {"none", "waiting", "running", "refused", "raised"}]
  /\ wanted \in [Client -> SUBSET (Provider \X Model)]

LEMMA TypedInit == Init => Typed
<1> SUFFICES ASSUME Init PROVE Typed
  OBVIOUS
<1>1. 0 \in 0..MaxChanges
  BY ChangesBounded
<1> QED
  BY <1>1 DEF Init, Typed

\* A search takes models out of the filter objects of OpenAI, and of no other list.
LEMMA SearchKeeps ==
  ASSUME Typed, NEW c \in Client, NEW m \in Model, Asks(c, m)
  PROVE  /\ Models' \in [Provider -> SUBSET Model] /\ broken' \subseteq Provider
         /\ \A p \in Provider \ OpenAI : Models'[p] = Models[p]
<1>1. ASSUME NEW rest \in [OpenAI -> SUBSET Model], Search(rest)
      PROVE  /\ Models' \in [Provider -> SUBSET Model] /\ broken' \subseteq Provider
             /\ \A p \in Provider \ OpenAI : Models'[p] = Models[p]
  BY <1>1 DEF Search, Typed
<1>2. \E rest \in [OpenAI -> SUBSET Model] : Search(rest)
  <2>1. [q \in OpenAI |-> {}] \in [OpenAI -> SUBSET Model]
    OBVIOUS
  <2> QED
    BY <2>1 DEF Asks, SearchRaises
<1> QED
  BY <1>1, <1>2

LEMMA TypedStep == Typed /\ [Next]_vars => Typed'
<1> SUFFICES ASSUME Typed, [Next]_vars PROVE Typed'
  OBVIOUS
<1>1. ASSUME NEW p \in Provider, NEW ms \in SUBSET Model, Changes(p, ms) PROVE Typed'
  <2>1. changes' \in 0..MaxChanges
    BY <1>1, ChangesBounded DEF Changes, Typed
  <2>2. {<<p, m>> : m \in ms} \subseteq Provider \X Model
    OBVIOUS
  <2>3. seen' \in [Client -> SUBSET (Provider \X Model)]
    BY <1>1, <2>2 DEF Changes, Typed
  <2> QED
    BY <1>1, <2>1, <2>3 DEF Changes, Typed, cache, chats
<1>2. ASSUME NEW c \in Client, Opens(c) PROVE Typed'
  BY <1>2 DEF Opens, Typed, cache, chats, Served
<1>3. ASSUME NEW c \in Client, Collected(c) PROVE Typed'
  BY <1>3 DEF Collected, Typed, cache, chats
<1>4. ASSUME NEW c \in Client, Mounts(c) \/ Leaves(c) PROVE Typed'
  BY <1>4 DEF Mounts, Leaves, Typed, cache, chats
<1>5. ASSUME NEW c \in Client, TurnEnds(c) PROVE Typed'
  BY <1>5 DEF TurnEnds, Typed, cache, mount
<1>6. ASSUME NEW c \in Client, NEW p \in Provider, Answers(c, p) PROVE Typed'
  BY <1>6 DEF Answers, Typed, cache, chats
<1>7. ASSUME NEW c \in Client, NEW p \in Provider, Refreshes(c, p) PROVE Typed'
  <2>1. {<<p, m>> : m \in reply[c][p]} \subseteq Provider \X Model
    BY DEF Typed
  <2>2. offered' \in [Client -> SUBSET (Provider \X Model)]
    BY <1>7, <2>1 DEF Refreshes, Typed
  <2> QED
    BY <1>7, <2>2 DEF Refreshes, Typed, chats
<1>8. ASSUME NEW c \in Client, NEW p \in Provider, Fails(c, p) PROVE Typed'
  BY <1>8 DEF Fails, Typed, cache, chats
<1>9. ASSUME NEW c \in Client, NEW p \in Provider, Runs(c, p) PROVE Typed'
  BY <1>9 DEF Runs, Typed, cache, mount
<1>10. ASSUME NEW c \in Client, NEW m \in Model, Asks(c, m) PROVE Typed'
  <2>1. PICK w, t : /\ w = {} \/ w = offered[c] \cap (Provider \X {m})
                    /\ t \in {"waiting", "refused", "raised"}
                    /\ wanted' = [wanted EXCEPT ![c] = w]
                    /\ turn' = [turn EXCEPT ![c] = t]
    BY <1>10 DEF Asks, SearchRaises
  <2>2. w \in SUBSET (Provider \X Model)
    BY <2>1 DEF Typed
  <2>3. /\ wanted' \in [Client -> SUBSET (Provider \X Model)]
        /\ turn' \in [Client -> {"none", "waiting", "running", "refused", "raised"}]
    BY <2>1, <2>2 DEF Typed
  <2>4. UNCHANGED <<serves, changed, changes, pc, stage, reply, offered, seen>>
    BY <1>10 DEF Asks, mount
  <2>5. Models' \in [Provider -> SUBSET Model] /\ broken' \subseteq Provider
    BY <1>10, SearchKeeps DEF Typed
  <2> QED
    BY <2>3, <2>4, <2>5 DEF Typed
<1>11. CASE UNCHANGED vars
  BY <1>11 DEF vars, cache, mount, chats, Typed
<1>12. ASSUME NEW c \in Client, NEW p \in Provider, Misreads(c, p) PROVE Typed'
  <2>1. changes' \in 0..MaxChanges
    BY <1>12, ChangesBounded DEF Misreads, Typed
  <2>2. PICK ms \in SUBSET reply[c][p] : Models' = [Models EXCEPT ![p] = ms]
    BY <1>12 DEF Misreads
  <2>3. Models' \in [Provider -> SUBSET Model] /\ broken' \subseteq Provider
    BY <1>12, <2>2 DEF Misreads, Typed
  <2> QED
    BY <1>12, <2>1, <2>3 DEF Misreads, Typed, chats
<1> QED
  BY <1>1, <1>2, <1>3, <1>4, <1>5, <1>6, <1>7, <1>8, <1>9, <1>10, <1>11, <1>12 DEF Next

LEMMA TypedCorrect == Spec => []Typed
BY TypedInit, TypedStep, PTL DEF Spec

\* Who leaves a line takes nobody along.
LEMMA WithoutType ==
  ASSUME NEW q \in Seq(Client), NEW c PROVE Without(q, c) \in Seq(Client)
<1>1. CASE \E i \in DOMAIN q : q[i] = c
  <2> DEFINE i == CHOOSE i \in DOMAIN q : q[i] = c
  <2>1. i \in DOMAIN q /\ DOMAIN q = 1..Len(q) /\ Len(q) \in Nat
    BY <1>1
  <2> HIDE DEF i
  <2>2. i \in 1..Len(q) /\ i - 1 \in Int /\ i + 1 \in Int /\ 1 \in Int /\ Len(q) \in Int
    BY <2>1
  <2>3. \A j \in 1..(i - 1) : q[j] \in Client
    BY <2>2
  <2>4. \A j \in (i + 1)..Len(q) : q[j] \in Client
    BY <2>2
  <2>5. SubSeq(q, 1, i - 1) \in Seq(Client)
    BY <2>2, <2>3, SubSeqProperties
  <2>6. SubSeq(q, i + 1, Len(q)) \in Seq(Client)
    BY <2>2, <2>4, SubSeqProperties
  <2>7. RemoveAt(q, i) \in Seq(Client)
    BY <2>5, <2>6, ConcatProperties DEF RemoveAt
  <2> QED
    BY <1>1, <2>7 DEF Without, i
<1>2. CASE ~\E i \in DOMAIN q : q[i] = c
  BY <1>2 DEF Without
<1> QED
  BY <1>1, <1>2

LEMMA TypeInit == Init => TypeOK
<1> SUFFICES ASSUME Init PROVE TypeOK
  OBVIOUS
<1>1. queue \in [Provider -> Seq(Client)]
  BY EmptySeq DEF Init
<1> QED
  BY <1>1, TypedInit DEF TypeOK, Typed

LEMMA TypeStep == TypeOK /\ [Next]_vars => TypeOK'
<1> SUFFICES ASSUME TypeOK, [Next]_vars PROVE TypeOK'
  OBVIOUS
<1>1. Typed'
  BY TypedStep DEF TypeOK, Typed
<1>2. queue' \in [Provider -> Seq(Client)]
  <2>1. ASSUME NEW p \in Provider, NEW ms \in SUBSET Model, Changes(p, ms) PROVE queue' = queue
    BY <2>1 DEF Changes, chats
  <2>2. ASSUME NEW c \in Client, Opens(c) \/ Collected(c) \/ Mounts(c) \/ Leaves(c) PROVE queue' = queue
    BY <2>2 DEF Opens, Collected, Mounts, Leaves, chats
  <2>3. ASSUME NEW c \in Client, NEW p \in Provider,
               Answers(c, p) \/ Refreshes(c, p) \/ Misreads(c, p) \/ Fails(c, p) \/ Runs(c, p)
        PROVE  queue' = queue
    BY <2>3 DEF Answers, Refreshes, Misreads, Fails, Runs, chats
  <2>4. ASSUME NEW c \in Client, TurnEnds(c) PROVE queue' \in [Provider -> Seq(Client)]
    <3>1. queue' = [p \in Provider |-> Without(queue[p], c)]
      BY <2>4 DEF TurnEnds, Release
    <3>2. \A p \in Provider : queue[p] \in Seq(Client)
      BY DEF TypeOK
    <3> QED
      BY <3>1, <3>2, WithoutType
  <2>5. ASSUME NEW c \in Client, NEW m \in Model, Asks(c, m) PROVE queue' \in [Provider -> Seq(Client)]
    <3>1. queue' = queue \/ \E p \in Provider : queue' = [queue EXCEPT ![p] = Append(@, c)]
      BY <2>5 DEF Asks, SearchRaises
    <3>2. \A p \in Provider : queue[p] \in Seq(Client) /\ Append(queue[p], c) \in Seq(Client)
      BY AppendProperties DEF TypeOK
    <3> QED
      BY <3>1, <3>2 DEF TypeOK
  <2>6. vars' = vars => queue' = queue
    BY DEF vars, chats
  <2> QED
    BY <2>1, <2>2, <2>3, <2>4, <2>5, <2>6 DEF Next, TypeOK
<1> QED
  BY <1>1, <1>2 DEF TypeOK, Typed

\* Models, offers and lines are what they are taken for, whoever comes, asks and
\* leaves (get_models(), task_chat_request() and the Semaphore, llm/svc_router.py).
THEOREM ModelsTyped == Spec => []TypeOK
BY TypeInit, TypeStep, PTL DEF Spec

-----------------------------------------------------------------------------
\* What a client is offered.

\* While get_models() is under way, what is served, what has been answered and
\* what has been collected is among the models served since it began; when it
\* is not, no request of it is left.
Witnessed ==
  \A c \in Client :
    /\ \A p \in Provider : stage[c][p] # "idle" => pc[c] = "asking"
    /\ pc[c] = "asking" =>
         /\ Served \subseteq seen[c]
         /\ offered[c] \subseteq seen[c]
         /\ \A p \in Provider :
              stage[c][p] = "answered" => \A m \in reply[c][p] : <<p, m>> \in seen[c]

LEMMA WitnessedInit == Init => Witnessed
BY DEF Init, Witnessed

LEMMA WitnessedStep == Typed /\ Witnessed /\ [Next]_vars => Witnessed'
<1> SUFFICES ASSUME Typed, Witnessed, [Next]_vars PROVE Witnessed'
  OBVIOUS
<1>1. ASSUME NEW p \in Provider, NEW ms \in SUBSET Model, Changes(p, ms) PROVE Witnessed'
  <2>1. UNCHANGED <<pc, stage, reply, offered>> /\ serves' = [serves EXCEPT ![p] = ms]
    BY <1>1 DEF Changes
  <2>2. ASSUME NEW c \in Client, pc[c] = "asking"
        PROVE  Served' \subseteq seen'[c] /\ seen[c] \subseteq seen'[c]
    <3>1. seen'[c] = seen[c] \cup {<<p, m>> : m \in ms}
      BY <1>1, <2>2 DEF Changes
    <3>2. ASSUME NEW pm \in Served' PROVE pm \in seen[c] \cup {<<p, m>> : m \in ms}
      <4>1. pm \in Provider \X Model /\ pm = <<pm[1], pm[2]>> /\ pm[2] \in serves'[pm[1]]
        BY DEF Served
      <4>2. CASE pm[1] = p
        BY <2>1, <4>1, <4>2 DEF Typed
      <4>3. CASE pm[1] # p
        BY <2>1, <2>2, <4>1, <4>3 DEF Typed, Witnessed, Served
      <4> QED
        BY <4>2, <4>3
    <3> QED
      BY <3>1, <3>2
  <2> QED
    BY <2>1, <2>2 DEF Witnessed
<1>2. ASSUME NEW c \in Client, Opens(c) PROVE Witnessed'
  BY <1>2 DEF Opens, Witnessed, Typed, Served
<1>3. ASSUME NEW c \in Client, Collected(c) PROVE Witnessed'
  BY <1>3 DEF Collected, Witnessed, Typed, Served
<1>4. ASSUME NEW c \in Client, Mounts(c) \/ Leaves(c) PROVE Witnessed'
  BY <1>4 DEF Mounts, Leaves, Witnessed, Typed, Served
<1>5. ASSUME NEW c \in Client, NEW p \in Provider, Answers(c, p) PROVE Witnessed'
  <2>1. \A m \in serves[p] : <<p, m>> \in Served
    BY DEF Served, Typed
  <2> QED
    BY <1>5, <2>1 DEF Answers, Witnessed, Typed, Served
<1>6. ASSUME NEW c \in Client, NEW p \in Provider, Refreshes(c, p) PROVE Witnessed'
  <2>1. pc[c] = "asking" /\ {<<p, m>> : m \in reply[c][p]} \subseteq seen[c]
    BY <1>6 DEF Refreshes, Witnessed
  <2> QED
    BY <1>6, <2>1 DEF Refreshes, Witnessed, Typed, Served
<1>7. ASSUME NEW c \in Client, NEW p \in Provider, Misreads(c, p) \/ Fails(c, p) PROVE Witnessed'
  BY <1>7 DEF Misreads, Fails, Witnessed, Typed, Served
<1>8. CASE UNCHANGED <<serves, mount>>
  BY <1>8 DEF mount, Witnessed, Served
<1>9. ASSUME NEW c \in Client, TurnEnds(c) \/ (\E p \in Provider : Runs(c, p))
                                \/ (\E m \in Model : Asks(c, m))
      PROVE  UNCHANGED <<serves, mount>>
  BY <1>9 DEF TurnEnds, Runs, Asks
<1> QED
  BY <1>1, <1>2, <1>3, <1>4, <1>5, <1>6, <1>7, <1>8, <1>9 DEF Next, vars

\* A client is offered only models served since it came: the requests of
\* get_models() leave nothing behind that a later one would collect.
THEOREM OfferIsFresh == Spec => []OffersWhatWasServed
<1>1. Witnessed => OffersWhatWasServed
  BY DEF Witnessed, OffersWhatWasServed
<1> QED
  BY <1>1, TypedCorrect, WitnessedInit, WitnessedStep, PTL DEF Spec

-----------------------------------------------------------------------------
\* Whether a chat task finds a provider.

\* A provider that has not changed its models answers every client the same:
\* whatever is offered of it is in its cache, however the requests overlap.
SaysTheSame(p) ==
  /\ \A c \in Client : stage[c][p] = "answered" => reply[c][p] = serves[p]
  /\ \A c \in Client, m \in Model :
       <<p, m>> \in offered[c] => m \in serves[p] /\ (p \notin OpenAI => Models[p] = serves[p])
  /\ \A c \in Client, m \in Model :
       turn[c] = "refused" /\ <<p, m>> \in wanted[c] => p \in OpenAI

Reliable == \A p \in Provider \ changed : SaysTheSame(p)

LEMMA ReliableInit == Init => Reliable
BY DEF Init, Reliable, SaysTheSame

LEMMA ReliableStep == Typed /\ Reliable /\ [Next]_vars => Reliable'
<1> SUFFICES ASSUME Typed, Reliable, [Next]_vars, NEW p \in Provider, p \notin changed'
             PROVE  SaysTheSame(p)'
  BY DEF Reliable
<1>1. p \notin changed /\ serves'[p] = serves[p]
  <2>1. ASSUME NEW q \in Provider, NEW ms \in SUBSET Model, Changes(q, ms)
        PROVE  p \notin changed /\ serves'[p] = serves[p]
    BY <2>1 DEF Changes, Typed
  <2>2. CASE UNCHANGED <<serves, changed>>
    BY <2>2
  <2> QED
    BY <2>1, <2>2 DEF Next, vars, Opens, Collected, Mounts, Leaves, TurnEnds, Answers, Refreshes,
                      Misreads, Fails, Runs, Asks
<1>2. SaysTheSame(p)
  BY <1>1 DEF Reliable
<1> USE <1>1, <1>2 DEF SaysTheSame
<1>3. ASSUME NEW q \in Provider, NEW ms \in SUBSET Model, Changes(q, ms) PROVE SaysTheSame(p)'
  BY <1>3 DEF Changes, cache, chats, Typed
<1>4. ASSUME NEW c \in Client, Opens(c) \/ Collected(c) \/ Mounts(c) \/ Leaves(c)
      PROVE  SaysTheSame(p)'
  <2>1. UNCHANGED <<Models, reply, turn, wanted>>
    BY <1>4 DEF Opens, Collected, Mounts, Leaves, cache, chats
  <2>2. ASSUME NEW d \in Client, stage'[d][p] = "answered" PROVE stage[d][p] = "answered"
    <3>1. CASE d = c
      <4>1. \/ stage' = stage
            \/ stage'[c] = [q \in Provider |-> "asked"]
            \/ stage'[c] = [q \in Provider |-> "idle"]
        BY <1>4 DEF Opens, Collected, Mounts, Leaves, Typed
      <4> QED
        BY <2>2, <3>1, <4>1
    <3>2. CASE d # c
      <4>1. stage'[d] = stage[d]
        BY <1>4, <3>2 DEF Opens, Collected, Mounts, Leaves, Typed
      <4> QED
        BY <2>2, <4>1
    <3> QED
      BY <3>1, <3>2
  <2>3. \A d \in Client : offered'[d] \subseteq offered[d]
    BY <1>4 DEF Opens, Collected, Mounts, Leaves, Typed
  <2> QED
    BY <2>1, <2>2, <2>3
<1>5. ASSUME NEW c \in Client, NEW q \in Provider, Answers(c, q) PROVE SaysTheSame(p)'
  BY <1>5 DEF Answers, cache, chats, Typed
<1>6. ASSUME NEW c \in Client, NEW q \in Provider, Refreshes(c, q) PROVE SaysTheSame(p)'
  <2>1. /\ stage[c][q] = "answered"
        /\ UNCHANGED <<changed, wanted, turn, serves>>
        /\ \A d \in Client : stage'[d][p] = "answered" => reply'[d][p] = reply[d][p] /\ stage[d][p] = "answered"
        /\ \A d \in Client \ {c} : offered'[d] = offered[d]
        /\ offered'[c] = offered[c] \cup {<<q, m>> : m \in reply[c][q]}
    BY <1>6 DEF Refreshes, chats, Typed
  <2>2. CASE q # p
    <3>1. Models'[p] = Models[p]
      BY <1>6, <2>2 DEF Refreshes, Typed
    <3>2. \A d \in Client, m \in Model : <<p, m>> \in offered'[d] => <<p, m>> \in offered[d]
      BY <2>1, <2>2
    <3> QED
      BY <2>1, <3>1, <3>2
  <2>3. CASE q = p
    <3>1. reply[c][p] = serves[p]
      BY <2>1, <2>3
    <3>2. p \notin OpenAI => Models'[p] = serves[p]
      BY <1>6, <2>3, <3>1 DEF Refreshes, Typed
    <3>3. \A d \in Client, m \in Model : <<p, m>> \in offered'[d] => m \in serves[p]
      BY <2>1, <2>3, <3>1
    <3> QED
      BY <2>1, <3>2, <3>3
  <2> QED
    BY <2>2, <2>3
<1>7. ASSUME NEW c \in Client, NEW q \in Provider, Fails(c, q) PROVE SaysTheSame(p)'
  BY <1>7 DEF Fails, cache, chats, Typed
<1>8. ASSUME NEW c \in Client, TurnEnds(c) \/ (\E q \in Provider : Runs(c, q)) PROVE SaysTheSame(p)'
  BY <1>8 DEF TurnEnds, Runs, cache, mount, Typed
<1>9. ASSUME NEW c \in Client, NEW m \in Model, Asks(c, m) PROVE SaysTheSame(p)'
  <2>1. /\ UNCHANGED <<serves, changed, stage, reply, offered>>
        /\ \A d \in Client \ {c} : turn'[d] = turn[d] /\ wanted'[d] = wanted[d]
    BY <1>9 DEF Asks, SearchRaises, mount, Typed
  <2>2. ASSUME NEW n \in Model, turn'[c] = "refused", <<p, n>> \in wanted'[c] PROVE p \in OpenAI
    <3>1. /\ m \notin Models[p]
          /\ wanted'[c] = offered[c] \cap (Provider \X {m})
      BY <1>9, <2>2 DEF Asks, SearchRaises, Typed
    <3>2. <<p, m>> \in offered[c]
      BY <2>2, <3>1
    <3> QED
      BY <3>1, <3>2
  <2>3. p \notin OpenAI => Models'[p] = Models[p]
    BY <1>9, SearchKeeps
  <2> QED
    BY <2>1, <2>2, <2>3
<1>10. CASE UNCHANGED vars
  BY <1>10 DEF vars, cache, mount, chats
<1>11. ASSUME NEW c \in Client, NEW q \in Provider, Misreads(c, q) PROVE SaysTheSame(p)'
  <2>1. /\ stage[c][q] = "answered"
        /\ UNCHANGED <<offered, wanted, turn>>
        /\ \A d \in Client : stage'[d][p] = "answered" => reply'[d][p] = reply[d][p] /\ stage[d][p] = "answered"
    BY <1>11 DEF Misreads, chats, Typed
  <2>2. p \notin OpenAI => Models'[p] = Models[p] \/ Models'[p] = serves[p]
    BY <1>11, <2>1 DEF Misreads, Typed
  <2> QED
    BY <2>1, <2>2
<1> QED
  BY <1>3, <1>4, <1>5, <1>6, <1>7, <1>8, <1>9, <1>10, <1>11 DEF Next

\* A model that was offered is found in the cache of its provider when the user
\* asks for it, unless that provider changed its models or is OpenAI: other
\* clients replace the cache, but by the same models.
THEOREM OfferIsAvailable == Spec => []OfferedIsAvailable
<1>1. Typed /\ Reliable => OfferedIsAvailable
  <2> SUFFICES ASSUME Typed, Reliable, NEW c \in Client, turn[c] = "refused",
                      NEW pm \in wanted[c], pm[1] \notin changed
               PROVE  pm[1] \in OpenAI
    BY DEF OfferedIsAvailable
  <2>1. pm = <<pm[1], pm[2]>> /\ pm[1] \in Provider /\ pm[2] \in Model
    BY DEF Typed
  <2>2. SaysTheSame(pm[1])
    BY <2>1 DEF Reliable
  <2> QED
    BY <2>1, <2>2 DEF SaysTheSame
<1> QED
  BY <1>1, TypedCorrect, ReliableInit, ReliableStep, PTL DEF Spec

-----------------------------------------------------------------------------
\* The lines before the providers.

NoTwice(q) == \A i, j \in DOMAIN q : q[i] = q[j] => i = j

\* What is behind position k of a line.
LEMMA Suffix ==
  ASSUME NEW q \in Seq(Client), NEW k \in 1..Len(q)
  PROVE  /\ SubSeq(q, k + 1, Len(q)) \in Seq(Client)
         /\ Len(SubSeq(q, k + 1, Len(q))) = Len(q) - k
         /\ \A i \in 1..(Len(q) - k) : SubSeq(q, k + 1, Len(q))[i] = q[k + i]
<1> DEFINE n == Len(q)
           m == k + 1
<1>1. n \in Int /\ m \in Int /\ \A i \in m..n : q[i] \in Client
  OBVIOUS
<1>2. /\ n - m + 1 = n - k
      /\ (IF m <= n THEN n - m + 1 ELSE 0) = n - k
      /\ \A i \in 1..(n - k) : m + i - 1 = k + i
  OBVIOUS
<1> HIDE DEF n, m
<1>3. SubSeq(q, m, n) \in Seq(Client)
  BY <1>1, SubSeqProperties
<1>4. Len(SubSeq(q, m, n)) = IF m <= n THEN n - m + 1 ELSE 0
  BY <1>1, SubSeqProperties
<1>5. \A i \in 1..(n - m + 1) : SubSeq(q, m, n)[i] = q[m + i - 1]
  BY <1>1, SubSeqProperties
<1>6. /\ SubSeq(q, m, n) \in Seq(Client) /\ Len(SubSeq(q, m, n)) = n - k
      /\ \A i \in 1..(n - k) : SubSeq(q, m, n)[i] = q[k + i]
  BY <1>2, <1>3, <1>4, <1>5, Zenon
<1> QED
  BY <1>6, Zenon DEF n, m

\* Who leaves a line leaves it for good, and everyone else stays, no further back.
LEMMA WithoutKeeps ==
  ASSUME NEW q \in Seq(Client), NoTwice(q), NEW c \in Client, NEW w, w = Without(q, c)
  PROVE  /\ NoTwice(w)
         /\ \A i \in DOMAIN w : w[i] # c /\ \E j \in DOMAIN q : w[i] = q[j]
         /\ \A j \in DOMAIN q : q[j] # c => \E i \in DOMAIN w : i <= j /\ w[i] = q[j]
<1>1. CASE \E k \in DOMAIN q : q[k] = c
  <2> DEFINE k == CHOOSE k \in DOMAIN q : q[k] = c
  <2>1. k \in DOMAIN q /\ q[k] = c
    BY <1>1
  <2>2. w = RemoveAt(q, k)
    BY <1>1 DEF Without
  <2> HIDE DEF k
  <2>3. k \in 1..Len(q) /\ Len(q) \in Nat /\ DOMAIN q = 1..Len(q)
    BY <2>1
  <2>4. /\ DOMAIN w = 1..(Len(q) - 1)
        /\ \A i \in 1..(Len(q) - 1) : w[i] = IF i < k THEN q[i] ELSE q[i + 1]
    <3> DEFINE before == SubSeq(q, 1, k - 1)
               behind == SubSeq(q, k + 1, Len(q))
    <3>1. w = before \o behind
      BY <2>2, Zenon DEF RemoveAt
    <3>2. /\ before \in Seq(Client) /\ Len(before) = k - 1
          /\ \A i \in 1..(k - 1) : before[i] = q[i]
      BY <2>3
    <3>3. /\ behind \in Seq(Client) /\ Len(behind) = Len(q) - k
          /\ \A i \in 1..(Len(q) - k) : behind[i] = q[k + i]
      BY <2>3, Suffix
    <3> HIDE DEF before, behind
    <3>4. /\ w \in Seq(Client) /\ Len(w) = Len(before) + Len(behind)
          /\ \A i \in 1..(Len(before) + Len(behind)) :
               w[i] = IF i <= Len(before) THEN before[i] ELSE behind[i - Len(before)]
      <4>1. before \in Seq(Client) /\ behind \in Seq(Client)
        BY <3>2, <3>3
      <4> QED
        BY <3>1, <4>1, ConcatProperties
    <3>5. k \in Nat /\ Len(q) \in Nat /\ 1 <= k /\ k <= Len(q)
      BY <2>3
    <3>6. Len(before) + Len(behind) = Len(q) - 1
      BY <3>2, <3>3, <3>5
    <3>7. DOMAIN w = 1..(Len(q) - 1)
      BY <3>4, <3>6
    <3>8. ASSUME NEW i \in 1..(Len(q) - 1), i < k PROVE w[i] = q[i]
      <4>1. i \in 1..(k - 1) /\ i <= Len(before)
        BY <3>2, <3>5, <3>8
      <4> QED
        BY <3>2, <3>4, <3>6, <4>1
    <3>9. ASSUME NEW i \in 1..(Len(q) - 1), ~(i < k) PROVE w[i] = q[i + 1]
      <4>1. /\ ~(i <= Len(before)) /\ i - Len(before) \in 1..(Len(q) - k)
            /\ k + (i - Len(before)) = i + 1
        BY <3>2, <3>5, <3>9
      <4> QED
        BY <3>3, <3>4, <3>6, <4>1
    <3> QED
      BY <3>7, <3>8, <3>9
  <2> DEFINE at(i) == IF i < k THEN i ELSE i + 1
  <2>5. ASSUME NEW i \in DOMAIN w
        PROVE  at(i) \in DOMAIN q /\ w[i] = q[at(i)] /\ at(i) # k
    BY <2>3, <2>4
  <2>6. \A i \in DOMAIN w : w[i] # c /\ \E j \in DOMAIN q : w[i] = q[j]
    <3> HIDE DEF at
    <3> QED
      BY <2>1, <2>5 DEF NoTwice
  <2>7. ASSUME NEW i \in DOMAIN w, NEW j \in DOMAIN w, w[i] = w[j] PROVE i = j
    <3>1. at(i) = at(j)
      <4> HIDE DEF at
      <4> QED
        BY <2>5, <2>7 DEF NoTwice
    <3> QED
      BY <2>3, <2>4, <3>1
  <2>8. ASSUME NEW j \in DOMAIN q, q[j] # c PROVE \E i \in DOMAIN w : i <= j /\ w[i] = q[j]
    <3>1. CASE j < k
      <4>1. j \in DOMAIN w /\ w[j] = q[j] /\ j <= j
        BY <2>3, <2>4, <3>1
      <4> QED
        BY <4>1
    <3>2. CASE j > k
      <4>1. j - 1 \in DOMAIN w /\ w[j - 1] = q[j] /\ j - 1 <= j
        BY <2>3, <2>4, <3>2
      <4> QED
        BY <4>1
    <3> QED
      BY <2>1, <2>3, <2>8, <3>1, <3>2
  <2> QED
    BY <2>6, <2>7, <2>8 DEF NoTwice
<1>2. CASE ~\E k \in DOMAIN q : q[k] = c
  <2>1. w = q /\ DOMAIN q \subseteq Nat
    BY <1>2 DEF Without
  <2> QED
    BY <1>2, <2>1
<1> QED
  BY <1>1, <1>2

LEMMA LineInit == Init => LineIsSound
BY DEF Init, LineIsSound

\* A client that neither waits nor runs is in no line.
LEMMA LineJoins ==
  ASSUME TypeOK, LineIsSound, NEW c \in Client, turn[c] \notin {"waiting", "running"},
         NEW p \in Provider, queue' = [queue EXCEPT ![p] = Append(@, c)],
         turn' = [turn EXCEPT ![c] = "waiting"]
  PROVE  LineIsSound'
<1> DEFINE n == Len(queue[p])
<1>1. /\ n \in Nat /\ queue[p] \in Seq(Client)
      /\ DOMAIN queue[p] = 1..n /\ DOMAIN queue'[p] = 1..(n + 1)
      /\ \A i \in 1..n : queue'[p][i] = queue[p][i]
      /\ queue'[p][n + 1] = c
      /\ \A r \in Provider \ {p} : queue'[r] = queue[r]
  BY AppendProperties DEF TypeOK
<1>2. turn'[c] = "waiting" /\ \A d \in Client \ {c} : turn'[d] = turn[d]
  BY DEF TypeOK
<1>3. \A r \in Provider : \A i \in DOMAIN queue[r] : queue[r][i] \in Client /\ queue[r][i] # c
  BY DEF LineIsSound, TypeOK
<1> HIDE DEF n
<1>4. \A r \in Provider : \A i \in DOMAIN queue'[r] :
        \/ i \in DOMAIN queue[r] /\ queue'[r][i] = queue[r][i]
        \/ r = p /\ i = n + 1 /\ queue'[r][i] = c
  BY <1>1
<1>5. \A r \in Provider : \A i \in DOMAIN queue[r] : i \in DOMAIN queue'[r] /\ queue'[r][i] = queue[r][i]
  BY <1>1
<1>6. \A r \in Provider : \A i \in DOMAIN queue'[r] : turn'[queue'[r][i]] \in {"waiting", "running"}
  BY <1>2, <1>3, <1>4 DEF LineIsSound
<1>7. \A r, t \in Provider : \A i \in DOMAIN queue'[r], j \in DOMAIN queue'[t] :
        queue'[r][i] = queue'[t][j] => r = t /\ i = j
  BY <1>3, <1>4 DEF LineIsSound
<1>8. ASSUME NEW d \in Client, turn'[d] \in {"waiting", "running"}
      PROVE  \E r \in Provider : \E i \in DOMAIN queue'[r] :
               queue'[r][i] = d /\ (turn'[d] = "running" => i <= Slots)
  <2>1. CASE d = c
    <3>1. n + 1 \in DOMAIN queue'[p]
      BY <1>1
    <3> QED
      BY <1>1, <1>2, <2>1, <3>1
  <2>2. CASE d # c
    BY <1>2, <1>5, <1>8, <2>2 DEF LineIsSound
  <2> QED
    BY <2>1, <2>2
<1> QED
  BY <1>6, <1>7, <1>8 DEF LineIsSound

LEMMA LineLeft ==
  ASSUME TypeOK, LineIsSound, NEW c \in Client, TurnEnds(c) PROVE LineIsSound'
<1>1. /\ queue' = [p \in Provider |-> Without(queue[p], c)]
      /\ turn' = [turn EXCEPT ![c] = "none"]
  BY DEF TurnEnds, Release
<1>2. turn'[c] = "none" /\ \A d \in Client \ {c} : turn'[d] = turn[d]
  BY <1>1 DEF TypeOK
<1>3. ASSUME NEW p \in Provider
      PROVE  /\ NoTwice(queue'[p])
             /\ \A i \in DOMAIN queue'[p] :
                  queue'[p][i] # c /\ \E j \in DOMAIN queue[p] : queue'[p][i] = queue[p][j]
             /\ \A j \in DOMAIN queue[p] : queue[p][j] # c =>
                  \E i \in DOMAIN queue'[p] : i <= j /\ queue'[p][i] = queue[p][j]
  <2>1. queue[p] \in Seq(Client) /\ NoTwice(queue[p])
    BY DEF TypeOK, LineIsSound, NoTwice
  <2>2. queue'[p] = Without(queue[p], c)
    BY <1>1
  <2> QED
    BY <2>1, <2>2, WithoutKeeps
<1>4. \A p \in Provider : \A i \in DOMAIN queue[p] : i \in Nat /\ queue[p][i] \in Client
  BY DEF TypeOK
<1>5. ASSUME NEW p \in Provider, NEW i \in DOMAIN queue'[p]
      PROVE  i \in Nat /\ turn'[queue'[p][i]] \in {"waiting", "running"}
  <2>1. PICK j \in DOMAIN queue[p] : queue'[p][i] = queue[p][j]
    BY <1>3
  <2>2. queue'[p][i] \in Client \ {c}
    BY <1>3, <1>4, <2>1
  <2>3. i \in Nat
    BY <1>1, WithoutType DEF TypeOK
  <2> QED
    BY <1>2, <2>1, <2>2, <2>3 DEF LineIsSound
<1>6. ASSUME NEW p \in Provider, NEW q \in Provider,
             NEW i \in DOMAIN queue'[p], NEW j \in DOMAIN queue'[q], queue'[p][i] = queue'[q][j]
      PROVE  p = q /\ i = j
  <2>1. p = q
    BY <1>3, <1>6 DEF LineIsSound
  <2> QED
    BY <1>3, <1>6, <2>1 DEF NoTwice
<1>7. ASSUME NEW d \in Client, turn'[d] \in {"waiting", "running"}
      PROVE  \E p \in Provider : \E i \in DOMAIN queue'[p] :
               queue'[p][i] = d /\ (turn'[d] = "running" => i <= Slots)
  <2>1. d # c /\ turn'[d] = turn[d]
    BY <1>2, <1>7
  <2>2. PICK p \in Provider : \E j \in DOMAIN queue[p] :
          queue[p][j] = d /\ (turn[d] = "running" => j <= Slots)
    BY <1>7, <2>1 DEF LineIsSound
  <2>3. PICK j \in DOMAIN queue[p] : queue[p][j] = d /\ (turn[d] = "running" => j <= Slots)
    BY <2>2
  <2>4. PICK i \in DOMAIN queue'[p] : i <= j /\ queue'[p][i] = queue[p][j]
    BY <1>3, <2>1, <2>3
  <2>5. i \in Nat /\ j \in Nat
    BY <1>4, <1>5
  <2> QED
    BY <2>1, <2>3, <2>4, <2>5, SlotsPositive
<1> QED
  BY <1>5, <1>6, <1>7 DEF LineIsSound

LEMMA LineStep == TypeOK /\ LineIsSound /\ [Next]_vars => LineIsSound'
<1> SUFFICES ASSUME TypeOK, LineIsSound, [Next]_vars PROVE LineIsSound'
  OBVIOUS
<1>1. ASSUME NEW p \in Provider, NEW ms \in SUBSET Model, Changes(p, ms) PROVE UNCHANGED chats
  BY <1>1 DEF Changes
<1>2. ASSUME NEW c \in Client, Opens(c) \/ Collected(c) \/ Mounts(c) \/ Leaves(c) PROVE UNCHANGED chats
  BY <1>2 DEF Opens, Collected, Mounts, Leaves
<1>3. ASSUME NEW c \in Client, NEW p \in Provider, Answers(c, p) \/ Refreshes(c, p) \/ Misreads(c, p) \/ Fails(c, p)
      PROVE UNCHANGED chats
  BY <1>3 DEF Answers, Refreshes, Misreads, Fails
<1>4. CASE UNCHANGED chats
  BY <1>4 DEF chats, LineIsSound
<1>5. ASSUME NEW c \in Client, TurnEnds(c) PROVE LineIsSound'
  BY <1>5, LineLeft
<1>6. ASSUME NEW c \in Client, NEW p \in Provider, Runs(c, p) PROVE LineIsSound'
  <2>1. /\ turn[c] = "waiting" /\ turn' = [turn EXCEPT ![c] = "running"] /\ queue' = queue
        /\ \E i \in DOMAIN queue[p] : i <= Slots /\ queue[p][i] = c
    BY <1>6 DEF Runs, Admitted
  <2>2. turn'[c] = "running" /\ \A d \in Client \ {c} : turn'[d] = turn[d]
    BY <2>1 DEF TypeOK
  <2>3. \A q \in Provider : \A i \in DOMAIN queue[q] : queue[q][i] \in Client
    BY DEF TypeOK
  <2> QED
    BY <2>1, <2>2, <2>3 DEF LineIsSound
<1>7. ASSUME NEW c \in Client, NEW m \in Model, Asks(c, m) PROVE LineIsSound'
  <2>1. turn[c] \in {"none", "refused", "raised"}
    BY <1>7 DEF Asks
  <2>2. ASSUME NEW t \in {"refused", "raised"}, turn' = [turn EXCEPT ![c] = t], queue' = queue
        PROVE  LineIsSound'
    <3>1. turn'[c] = t /\ \A d \in Client \ {c} : turn'[d] = turn[d]
      BY <2>2 DEF TypeOK
    <3>2. \A q \in Provider : \A i \in DOMAIN queue[q] : queue[q][i] \in Client
      BY DEF TypeOK
    <3>3. \A q \in Provider : \A i \in DOMAIN queue[q] : queue[q][i] # c
      BY <2>1 DEF LineIsSound
    <3> QED
      BY <2>2, <3>1, <3>2, <3>3 DEF LineIsSound
  <2>3. ASSUME NEW p \in Provider, queue' = [queue EXCEPT ![p] = Append(@, c)],
               turn' = [turn EXCEPT ![c] = "waiting"]
        PROVE  LineIsSound'
    BY <2>1, <2>3, LineJoins
  <2> QED
    BY <1>7, <2>2, <2>3 DEF Asks, SearchRaises
<1> QED
  BY <1>1, <1>2, <1>3, <1>4, <1>5, <1>6, <1>7 DEF Next, vars

\* Of the slots of a provider none is lost or given twice, for any capacity and any
\* number of clients: only a chat task that waits or runs is in a line, it is there
\* once, and it runs only among the first Slots of it (async with
\* provider.Semaphore, llm/svc_router.py).
THEOREM LinesAreSound == Spec => []LineIsSound
BY TypeInit, TypeStep, LineInit, LineStep, PTL DEF Spec

=============================================================================
