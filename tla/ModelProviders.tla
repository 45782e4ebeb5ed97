--------------------------- MODULE ModelProviders ---------------------------
(***************************************************************************)
(* What conversations share: the LLM providers, the models each of them    *)
(* has cached, and the slots of its Semaphore.  A client that opens a      *)
(* websocket makes every provider ask for its models again; the models it  *)
(* is offered then, and the cache of the moment it writes, decide whether  *)
(* a chat task finds a provider (llm/svc_router.py, llm/handler_web.py,    *)
(* llm/provider/provider_abc.py).                                          *)
(***************************************************************************)
EXTENDS Naturals, SequencesExt

CONSTANTS
  Provider, Model, Client,
  OpenAI,      \* the providers at https://api.openai.com/
  Slots,       \* capacity of a provider's Semaphore (2 in the code)
  MaxChanges   \* bound: changes of what the providers serve, and answers that
               \* cannot be read to their end

ASSUME OpenAIProviders == OpenAI \subseteq Provider
ASSUME SlotsPositive == Slots \in Nat \ {0}
ASSUME ChangesBounded == MaxChanges \in Nat

VARIABLES
  serves,    \* the models of each provider
  changed,   \* history: providers whose models have changed
  changes,
  Models,    \* provider.Models: what set(...) finds in it
  broken,    \* the providers whose Models hold an entry that raises when it is read
  pc,        \* handler of each client: "out", "asking" (get_models),
             \* "creating" (the conversation) or "mounted"
  stage,     \* collect_models() of each client: "idle", "asked", "answered", "done"
  reply,     \* the models in an answer that has not been read yet
  offered,   \* <<provider, model>> collected for each client
  seen,      \* history: <<provider, model>> served since get_models began
  turn,      \* chat task of each client: "none", "waiting", "running", "refused"
             \* (no provider found) or "raised" (before it has looked at all of them)
  wanted,    \* history: what a refused message had been offered
  queue      \* clients that wait for a provider or hold one of its slots, in order

mount == <<pc, stage, reply, offered, seen>>
chats == <<turn, wanted, queue>>
cache == <<Models, broken>>
vars == <<serves, changed, changes, cache, mount, chats>>

Served == {pm \in Provider \X Model : pm[2] \in serves[pm[1]]}

\* serves[p] holds before the first client comes.
Init ==
  /\ serves \in [Provider -> SUBSET Model]
  /\ changed = {} /\ changes = 0
  /\ Models = [p \in Provider |-> {}] /\ broken = {}
  /\ pc = [c \in Client |-> "out"]
  /\ stage = [c \in Client |-> [p \in Provider |-> "idle"]]
  /\ reply = [c \in Client |-> [p \in Provider |-> {}]]
  /\ offered = [c \in Client |-> {}] /\ seen = [c \in Client |-> {}]
  /\ turn = [c \in Client |-> "none"]
  /\ wanted = [c \in Client |-> {}]
  /\ queue = [p \in Provider |-> <<>>]

-----------------------------------------------------------------------------
\* The providers' servers.

Changes(p, ms) ==
  /\ changes < MaxChanges /\ serves[p] # ms
  /\ changes' = changes + 1
  /\ changed' = changed \cup {p}
  /\ serves' = [serves EXCEPT ![p] = ms]
  /\ seen' = [c \in Client |-> IF pc[c] = "asking" THEN seen[c] \cup {<<p, m>> : m \in ms}
                                                  ELSE seen[c]]
  /\ UNCHANGED <<cache, pc, stage, reply, offered, chats>>

Answers(c, p) ==
  /\ stage[c][p] = "asked"
  /\ stage' = [stage EXCEPT ![c][p] = "answered"]
  /\ reply' = [reply EXCEPT ![c][p] = serves[p]]
  /\ UNCHANGED <<serves, changed, changes, cache, pc, offered, seen, chats>>

-----------------------------------------------------------------------------
\* LLMWebHandler.ws_conversation() up to chat.mounted, and get_models().

Opens(c) ==
  /\ pc[c] = "out"
  /\ pc' = [pc EXCEPT ![c] = "asking"]
  /\ stage' = [stage EXCEPT ![c] = [p \in Provider |-> "asked"]]
  /\ offered' = [offered EXCEPT ![c] = {}]
  /\ seen' = [seen EXCEPT ![c] = Served]
  /\ UNCHANGED <<serves, changed, changes, cache, reply, chats>>

\* self.Models is replaced and returned.  For OpenAI it is a filter object, which
\* the list comprehension of the return statement uses up.
Refreshes(c, p) ==
  /\ stage[c][p] = "answered"
  /\ stage' = [stage EXCEPT ![c][p] = "done"]
  /\ reply' = [reply EXCEPT ![c][p] = {}]
  /\ offered' = [offered EXCEPT ![c] = @ \cup {<<p, m>> : m \in reply[c][p]}]
  /\ Models' = [Models EXCEPT ![p] = IF p \in OpenAI THEN {} ELSE reply[c][p]]
  /\ broken' = broken \ {p}
  /\ UNCHANGED <<serves, changed, changes, pc, seen, chats>>

\* Defects: a failure puts None into the cache; it empties it; it is answered from the cache; it is
\* not noticed.
FailsWithNone(c, p) ==
  /\ stage[c][p] \in {"asked", "answered"}
  /\ stage' = [stage EXCEPT ![c][p] = "done"]
  /\ reply' = [reply EXCEPT ![c][p] = {}]
  /\ Models' = [Models EXCEPT ![p] = {"None"}]
  /\ UNCHANGED <<serves, changed, changes, broken, pc, offered, seen, chats>>
FailsAndForgets(c, p) ==
  /\ stage[c][p] \in {"asked", "answered"}
  /\ stage' = [stage EXCEPT ![c][p] = "done"]
  /\ reply' = [reply EXCEPT ![c][p] = {}]
  /\ Models' = [Models EXCEPT ![p] = {}]
  /\ UNCHANGED <<serves, changed, changes, broken, pc, offered, seen, chats>>
FailsOver(c, p) ==
  /\ stage[c][p] \in {"asked", "answered"}
  /\ stage' = [stage EXCEPT ![c][p] = "done"]
  /\ reply' = [reply EXCEPT ![c][p] = {}]
  /\ offered' = [offered EXCEPT ![c] = @ \cup {<<p, m>> : m \in Models[p]}]
  /\ UNCHANGED <<serves, changed, changes, cache, pc, seen, chats>>
FailsForever(c, p) == stage[c][p] \in {"asked", "answered"} /\ UNCHANGED vars

\* The list comprehension raises at an entry without its fields, when self.Models
\* has been replaced; of a filter object, the entries behind that one are left.
Misreads(c, p) ==
  /\ stage[c][p] = "answered" /\ changes < MaxChanges
  /\ changes' = changes + 1
  /\ stage' = [stage EXCEPT ![c][p] = "done"]
  /\ reply' = [reply EXCEPT ![c][p] = {}]
  /\ \/ /\ p \notin OpenAI
        /\ Models' = [Models EXCEPT ![p] = reply[c][p]]
        /\ broken' = broken \cup {p}
     \/ /\ p \in OpenAI
        /\ \E rest \in SUBSET reply[c][p] : Models' = [Models EXCEPT ![p] = rest]
        /\ broken' \in {broken \ {p}, broken \cup {p}}
  /\ UNCHANGED <<serves, changed, pc, offered, seen, chats>>

\* A status other than 200, a client error or an exception before that: None.
Fails(c, p) ==
  /\ stage[c][p] \in {"asked", "answered"}
  /\ stage' = [stage EXCEPT ![c][p] = "done"]
  /\ reply' = [reply EXCEPT ![c][p] = {}]
  /\ UNCHANGED <<serves, changed, changes, cache, pc, offered, seen, chats>>

\* The TaskGroup ends; without models the client gets an error instead.
Collected(c) ==
  /\ pc[c] = "asking" /\ \A p \in Provider : stage[c][p] = "done"
  /\ pc' = [pc EXCEPT ![c] = IF offered[c] = {} THEN "out" ELSE "creating"]
  /\ stage' = [stage EXCEPT ![c] = [p \in Provider |-> "idle"]]
  /\ seen' = [seen EXCEPT ![c] = {}]
  /\ UNCHANGED <<serves, changed, changes, cache, reply, offered, chats>>

\* A new conversation, or the one the client names; a name that is not known
\* raises, for create_conversation() takes none.
Mounts(c) ==
  /\ pc[c] = "creating"
  /\ \/ pc' = [pc EXCEPT ![c] = "mounted"] /\ UNCHANGED offered
     \/ pc' = [pc EXCEPT ![c] = "out"] /\ offered' = [offered EXCEPT ![c] = {}]
  /\ UNCHANGED <<serves, changed, changes, cache, stage, reply, seen, chats>>

Leaves(c) ==
  /\ pc[c] = "mounted"
  /\ pc' = [pc EXCEPT ![c] = "out"]
  /\ offered' = [offered EXCEPT ![c] = {}]
  /\ UNCHANGED <<serves, changed, changes, cache, stage, reply, seen, chats>>

-----------------------------------------------------------------------------
\* task_chat_request(): one conversation per client.

\* The search reads the Models of every provider, in their order, up to the first
\* entry that raises, and uses up what is left of the filter objects among them.
Search(rest) ==
  /\ Models' = [q \in Provider |-> IF q \in OpenAI THEN rest[q] ELSE Models[q]]
  /\ broken' \in {B \in SUBSET broken : broken \ B \subseteq OpenAI}

\* The entry that raises is in the list of any provider, wanted or not.
SearchRaises(c) ==
  /\ broken # {}
  /\ \E rest \in [OpenAI -> SUBSET Model] :
       (\A q \in OpenAI : rest[q] \subseteq Models[q]) /\ Search(rest)
  /\ turn' = [turn EXCEPT ![c] = "raised"]
  /\ wanted' = [wanted EXCEPT ![c] = {}]
  /\ UNCHANGED queue

\* A provider is chosen at random among those that list the model.
Asks(c, m) ==
  /\ pc[c] = "mounted" /\ turn[c] \in {"none", "refused", "raised"}
  /\ offered[c] \cap (Provider \X {m}) # {}
  /\ \/ SearchRaises(c)
     \/ /\ broken = {} /\ \A p \in Provider : m \notin Models[p]
        /\ Search([q \in OpenAI |-> {}])
        /\ turn' = [turn EXCEPT ![c] = "refused"]
        /\ wanted' = [wanted EXCEPT ![c] = offered[c] \cap (Provider \X {m})]
        /\ UNCHANGED queue
     \/ /\ broken = {} /\ Search([q \in OpenAI |-> {}])
        /\ \E p \in Provider :
             /\ m \in Models[p]
             /\ turn' = [turn EXCEPT ![c] = "waiting"]
             /\ wanted' = [wanted EXCEPT ![c] = {}]
             /\ queue' = [queue EXCEPT ![p] = Append(@, c)]
  /\ UNCHANGED <<serves, changed, changes, mount>>

\* asyncio.Semaphore admits waiters in the order in which they came.
Admitted(p) == {queue[p][i] : i \in {j \in DOMAIN queue[p] : j <= Slots}}

Runs(c, p) ==
  /\ turn[c] = "waiting" /\ c \in Admitted(p)
  /\ turn' = [turn EXCEPT ![c] = "running"]
  /\ UNCHANGED <<serves, changed, changes, cache, mount, wanted, queue>>

\* A line that c has left, if it was in it.
Without(q, c) ==
  IF \E i \in DOMAIN q : q[i] = c THEN RemoveAt(q, CHOOSE i \in DOMAIN q : q[i] = c) ELSE q

\* Defect: a task that ends while it waits stays in line.
ReleaseHeld(c) == queue' = [p \in Provider |->
                     IF turn[c] = "running" THEN Without(queue[p], c) ELSE queue[p]]

\* async with gives the slot, or the place in line, back.
Release(c) == queue' = [p \in Provider |-> Without(queue[p], c)]

\* The response ends, or the task raises or is cancelled; also while it waits.
TurnEnds(c) ==
  /\ turn[c] \in {"waiting", "running"}
  /\ turn' = [turn EXCEPT ![c] = "none"]
  /\ Release(c)
  /\ UNCHANGED <<serves, changed, changes, cache, mount, wanted>>

-----------------------------------------------------------------------------
Next ==
  \/ \E p \in Provider, ms \in SUBSET Model : Changes(p, ms)
  \/ \E c \in Client :
       \/ Opens(c) \/ Collected(c) \/ Mounts(c) \/ Leaves(c) \/ TurnEnds(c)
       \/ \E p \in Provider : Answers(c, p) \/ Refreshes(c, p) \/ Misreads(c, p) \/ Fails(c, p) \/ Runs(c, p)
       \/ \E m \in Model : Asks(c, m)

Spec == Init /\ [][Next]_vars

\* Every request ends, if only by its timeout, and so does every response.
Fairness ==
  \A c \in Client :
    /\ WF_vars(Collected(c)) /\ WF_vars(Mounts(c))
    /\ WF_vars(turn[c] = "running" /\ TurnEnds(c))
    /\ \A p \in Provider : WF_vars(Refreshes(c, p) \/ Misreads(c, p) \/ Fails(c, p)) /\ WF_vars(Runs(c, p))

LiveSpec == Spec /\ Fairness

-----------------------------------------------------------------------------
TypeOK ==
  /\ serves \in [Provider -> SUBSET Model]
  /\ changed \subseteq Provider
  /\ changes \in 0..MaxChanges
  /\ Models \in [Provider -> SUBSET Model]
  /\ broken \subseteq Provider
  /\ pc \in [Client -> {"out", "asking", "creating", "mounted"}]
  /\ stage \in [Client -> [Provider -> {"idle", "asked", "answered", "done"}]]
  /\ reply \in [Client -> [Provider -> SUBSET Model]]
  /\ offered \in [Client -> SUBSET (Provider \X Model)]
  /\ seen \in [Client -> SUBSET (Provider \X Model)]
  /\ turn \in [Client -> {"none", "waiting", "running", "refused", "raised"}]
  /\ wanted \in [Client -> SUBSET (Provider \X Model)]
  /\ queue \in [Provider -> Seq(Client)]

\* A client is offered only models that their provider served at some time
\* since the client came: never those of an earlier answer.
OffersWhatWasServed ==
  \A c \in Client : pc[c] = "asking" => offered[c] \subseteq seen[c]

\* That no provider is found for a model that was offered is never due to what
\* other clients do, or to a provider that fails to answer them: only a provider
\* that has changed its models can make a chat task find none.  The models of OpenAI
\* are offered and, but for what a failed answer has left, never found.  (A search
\* that raises, at a broken entry of any provider, has looked for none.)
OfferedIsAvailable ==
  \A c \in Client : turn[c] = "refused" =>
    \A pm \in wanted[c] : pm[1] \in changed \cup OpenAI

\* No slot is lost and none is given twice, whichever tasks end, fail or are
\* stopped while they wait: who is in a line is waiting or running, and once;
\* who waits is in a line, and who runs is among its first Slots.
LineIsSound ==
  /\ \A p \in Provider : \A i \in DOMAIN queue[p] : turn[queue[p][i]] \in {"waiting", "running"}
  /\ \A p, q \in Provider : \A i \in DOMAIN queue[p], j \in DOMAIN queue[q] :
       queue[p][i] = queue[q][j] => p = q /\ i = j
  /\ \A c \in Client : turn[c] \in {"waiting", "running"} =>
       \E p \in Provider : \E i \in DOMAIN queue[p] :
         queue[p][i] = c /\ (turn[c] = "running" => i <= Slots)

\* A provider that does not answer keeps no client waiting for the others.
MountingEnds == \A c \in Client : pc[c] = "asking" ~> pc[c] # "asking"

\* A chat task that waits for a slot gets it, whatever the tasks of the other
\* conversations do: end, fail or be stopped while they wait.
WaitingEnds == \A c \in Client : turn[c] = "waiting" ~> turn[c] # "waiting"

=============================================================================
