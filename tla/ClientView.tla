----------------------------- MODULE ClientView -----------------------------
(***************************************************************************)
(* What the clients of one conversation are told of it: the full update at *)
(* mounting, on request and after a restart, and the events that chat and  *)
(* tool tasks send to the monitors.  send_update() makes a task for every  *)
(* monitor, which writes to the websocket when the event loop gets to it,  *)
(* whereas a full update is written at once by the handler that sends it   *)
(* (llm/svc_router.py, llm/handler_web.py).                                *)
(***************************************************************************)
EXTENDS Naturals, SequencesExt

CONSTANTS
  Exchange,    \* identifiers of exchanges
  Holds,       \* what each exchange may hold, of "user", "text" and "call"
  Client,
  MaxContent   \* bound: pieces written to an item

ASSUME Kinds == /\ Holds \in [Exchange -> SUBSET {"user", "text", "call"}]
                /\ \A e \in Exchange : "user" \in Holds[e]
ASSUME ContentBounded == MaxContent \in Nat

Item == {i \in Exchange \X {"user", "text", "call"} : i[2] \in Holds[i[1]]}

\* A version of an item, in the order of its versions; a user message is complete
\* from the beginning, and "completed" is whatever status the provider leaves an
\* item with.  "failed" is a call that has been executed in vain: execute() sets
\* its status back to 'completed', now with error = True and a content.
Rank == [absent |-> 0, in_progress |-> 1, completed |-> 2, executing |-> 3,
         failed |-> 4, finished |-> 5]
Version == [status : DOMAIN Rank, content : 0..MaxContent]
Absent == [status |-> "absent", content |-> 0]

VARIABLES
  exchanges,  \* Conversation.exchanges
  item,       \* the present version of each item, also of removed exchanges
  monitors,   \* Conversation.monitors
  pc,         \* handler of each client: "out", "mounting", "in"
  outbox,     \* sends to each client that the event loop has yet to run
  view,       \* what each client makes of what it was sent
  missed      \* history: items with an event since a client's full update and
              \* before its monitor was added

vars == <<exchanges, item, monitors, pc, outbox, view, missed>>

Init ==
  /\ exchanges = <<>>
  /\ item = [i \in Item |-> Absent]
  /\ monitors = {}
  /\ pc = [c \in Client |-> "out"]
  /\ outbox = [c \in Client |-> <<>>]
  /\ view = [c \in Client |-> [i \in Item |-> Absent]]
  /\ missed = [c \in Client |-> {}]

-----------------------------------------------------------------------------
\* Sending.

\* Item i changes to version v and its writer sends an event of the given type.
Tell(i, v, type) ==
  /\ item' = [item EXCEPT ![i] = v]
  /\ outbox' = [c \in Client |->
       IF c \in monitors THEN Append(outbox[c], [type |-> type, item |-> i, version |-> v])
                         ELSE outbox[c]]
  /\ missed' = [c \in Client |-> IF pc[c] = "mounting" THEN missed[c] \cup {i} ELSE missed[c]]

\* Defect: the writer does not wait for its update to be sent.
AtOnce(i) == TRUE

\* The writer of an item is back from its last send_update().
Sent(i) == \A c \in Client : \A k \in DOMAIN outbox[c] : outbox[c][k].item # i

\* The client applies an event as its name says.
Applied(known, event) ==
  IF event.type # "item.delta" THEN event.version
  ELSE IF known = Absent THEN known
  ELSE [known EXCEPT !.content = @ + 1]

Deliver(c) ==
  /\ outbox[c] # <<>>
  /\ LET event == Head(outbox[c]) IN
     view' = [view EXCEPT ![c][event.item] = Applied(@, event)]
  /\ outbox' = [outbox EXCEPT ![c] = Tail(@)]
  /\ UNCHANGED <<exchanges, item, monitors, pc, missed>>

\* Defect: the full update has the messages of the users only.
UserMessages(listed) ==
  [i \in Item |-> IF i[1] \in ToSet(listed) /\ i[2] = "user" THEN item[i] ELSE Absent]

\* send_full_update() lists the items of all exchanges: `case UserMessage:' is a
\* capture pattern, which matches an item of any class.
Snapshot(listed) == [i \in Item |-> IF i[1] \in ToSet(listed) THEN item[i] ELSE Absent]

FullUpdate(c, listed) ==
  /\ view' = [view EXCEPT ![c] = Snapshot(listed)]
  /\ missed' = [missed EXCEPT ![c] = {}]

-----------------------------------------------------------------------------
\* The websocket handler.

\* chat.mounted and the full update; the handler may be suspended in the send.
Mount(c) ==
  /\ pc[c] = "out"
  /\ pc' = [pc EXCEPT ![c] = "mounting"]
  /\ FullUpdate(c, exchanges)
  /\ UNCHANGED <<exchanges, item, monitors, outbox>>

Register(c) ==
  /\ pc[c] = "mounting"
  /\ pc' = [pc EXCEPT ![c] = "in"]
  /\ monitors' = monitors \cup {c}
  /\ UNCHANGED <<exchanges, item, outbox, view, missed>>

\* update.full.requested
Request(c) ==
  /\ pc[c] = "in"
  /\ FullUpdate(c, exchanges)
  /\ UNCHANGED <<exchanges, item, monitors, pc, outbox>>

\* conversation.restart removes the exchange that begins with the message the
\* client names, and all that follow; only that client gets a full update.
Restart(c, k) ==
  /\ pc[c] = "in" /\ k \in DOMAIN exchanges
  /\ exchanges' = SubSeq(exchanges, 1, k - 1)
  /\ FullUpdate(c, exchanges')
  /\ UNCHANGED <<item, monitors, pc, outbox>>

\* user.message.created; the chat task is scheduled when the message was sent.
Post(c, e) ==
  /\ pc[c] = "in" /\ item[<<e, "user">>] = Absent
  /\ exchanges' = Append(exchanges, e)
  /\ Tell(<<e, "user">>, [status |-> "completed", content |-> 0], "item.appended")
  /\ UNCHANGED <<monitors, pc, view>>

Leave(c) ==
  /\ pc[c] # "out"
  /\ pc' = [pc EXCEPT ![c] = "out"]
  /\ monitors' = monitors \ {c}
  /\ outbox' = [outbox EXCEPT ![c] = <<>>]
  /\ view' = [view EXCEPT ![c] = [i \in Item |-> Absent]]
  /\ missed' = [missed EXCEPT ![c] = {}]
  /\ UNCHANGED <<exchanges, item>>

-----------------------------------------------------------------------------
\* Chat and tool tasks.  They go on when their exchange has been removed.

\* What the chat task of an exchange works on before an item.
Before(i) == CASE i[2] = "text" -> {<<i[1], "user">>}
               [] i[2] = "call" -> {<<i[1], "user">>} \cup (Item \cap {<<i[1], "text">>})

Appends(i) ==
  /\ i[2] # "user" /\ item[i] = Absent
  /\ \A j \in Before(i) : Rank[item[j].status] >= Rank.completed /\ Sent(j)
  /\ Tell(i, [status |-> "in_progress", content |-> 0], "item.appended")
  /\ UNCHANGED <<exchanges, monitors, pc, view>>

\* The model goes on with an item; the arguments of a call grow silently.
Grows(i) ==
  /\ item[i].status = "in_progress" /\ Sent(i) /\ item[i].content < MaxContent
  /\ LET v == [item[i] EXCEPT !.content = @ + 1] IN
     \/ i[2] = "text" /\ Tell(i, v, "item.delta")
     \/ i[2] = "call" /\ item' = [item EXCEPT ![i] = v] /\ UNCHANGED <<outbox, missed>>
  /\ UNCHANGED <<exchanges, monitors, pc, view>>

Updates(i, from, v) ==
  /\ item[i].status = from /\ Sent(i)
  /\ Tell(i, v, "item.updated")
  /\ UNCHANGED <<exchanges, monitors, pc, view>>

Completes(i) == Updates(i, "in_progress", [item[i] EXCEPT !.status = "completed"])

\* task_function_call(): starts the tool, passes on its reports, ends.
Executes(i) == i[2] = "call" /\ Updates(i, "completed", [item[i] EXCEPT !.status = "executing"])
Reports(i) == /\ item[i].content < MaxContent
              /\ Updates(i, "executing", [item[i] EXCEPT !.content = @ + 1])
\* The tool is missing or raises: execute() reports that as well.
Fails(i) == \E n \in 0..MaxContent :
  Updates(i, "executing", [status |-> "failed", content |-> n])

\* Defect: the status outside the ones of a FunctionCall.
FinishesAsError(i) == Updates(i, "executing", [item[i] EXCEPT !.status = "error"])

\* The finally block; a tool that refuses has replaced the content.
Finishes(i) == \E from \in {"executing", "failed"}, n \in 0..MaxContent :
  Updates(i, from, [status |-> "finished", content |-> n])

-----------------------------------------------------------------------------
Next ==
  \/ \E c \in Client :
       \/ Mount(c) \/ Register(c) \/ Request(c) \/ Leave(c) \/ Deliver(c)
       \/ \E k \in DOMAIN exchanges : Restart(c, k)
       \/ \E e \in Exchange : Post(c, e)
  \/ \E i \in Item : \/ Appends(i) \/ Grows(i) \/ Completes(i)
                     \/ Executes(i) \/ Reports(i) \/ Fails(i) \/ Finishes(i)

Spec == Init /\ [][Next]_vars

-----------------------------------------------------------------------------
Event == [type : {"item.appended", "item.delta", "item.updated"}, item : Item,
          version : Version]

TypeOK ==
  /\ exchanges \in Seq(Exchange)
  /\ item \in [Item -> Version]
  /\ monitors \subseteq Client
  /\ pc \in [Client -> {"out", "mounting", "in"}]
  /\ outbox \in [Client -> Seq(Event)]
  /\ view \in [Client -> [Item -> [status : DOMAIN Rank, content : Nat]]]
  /\ missed \in [Client -> SUBSET Item]

\* Nothing more will happen to the item, and every client has been told.
Settled(i) ==
  /\ item[i].status = IF i[2] = "call" THEN "finished" ELSE "completed"
  /\ Sent(i)

InConversation(i) == i[1] \in ToSet(exchanges)

\* Whenever a client came, asked for a full update or restarted the conversation:
\* what it shows of an item of the conversation that is settled is that item.
\* Not so for an item that changed between its full update and its monitor.
SettledIsSeen ==
  \A c \in monitors, i \in Item :
    InConversation(i) /\ Settled(i) /\ i \notin missed[c] => view[c][i] = item[i]

\* A client never sees an item fall back to an earlier version: an event written
\* after a full update is not older than what the full update said.  (The status
\* alone does go back, from 'executing' to 'completed', when a tool fails.)
NeverFallsBack ==
  [][\A c \in monitors, i \in Item :
       c \in monitors' /\ view[c][i] # Absent /\ view'[c][i] # Absent =>
         Rank[view'[c][i].status] >= Rank[view[c][i].status]]_vars

\* The initial full update gives the client the current state of the
\* conversation: with the events that follow, it knows every settled item.
MountedIsCurrent ==
  \A c \in monitors, i \in Item :
    InConversation(i) /\ Settled(i) => view[c][i] = item[i]

=============================================================================
