------------------------------ MODULE AgentLoop ------------------------------
(***************************************************************************)
(* One conversation of llm-microlink: the clients attached to its          *)
(* websocket, the chat tasks that stream a turn of the model, the tool     *)
(* tasks that execute function calls, and the callback on_task_done that   *)
(* closes the agentic loop (llm/svc_router.py, llm/handler_web.py).        *)
(*                                                                         *)
(* The program is one asyncio event loop: code between two awaits is       *)
(* atomic, and an action is what one coroutine does from one suspension    *)
(* point to the next.  An exchange and the chat task that fills it are     *)
(* created as a pair, so one identifier (a Turn) stands for both.          *)
(*                                                                         *)
(* Both cancel() and a send_update() that fails on a broken websocket are  *)
(* raised where the coroutine resumes; `thrown' is the set of coroutines   *)
(* that will resume with an exception.                                     *)
(***************************************************************************)
EXTENDS Naturals, Sequences, FiniteSets

CONSTANTS
  UserTurn,   \* exchanges opened by a user message
  LoopTurn,   \* exchanges opened by on_task_done to feed results back
  Call,       \* function calls the model may ask for
  Client,     \* websocket clients of the conversation
  Flaky,      \* the clients whose connection may break
  Polite,     \* TRUE: a user writes only while the UI shows no activity
  Slots       \* capacity of the provider's Semaphore (2 in the code)

ASSUME TurnsDisjoint == /\ UserTurn \cap LoopTurn = {}
                        /\ (UserTurn \cup LoopTurn) \cap Call = {}
                        /\ (UserTurn \cup LoopTurn \cup Call) \cap Client = {}
                        /\ {"user", "text"} \cap Call = {}
ASSUME IdsFinite     == IsFiniteSet(UserTurn \cup LoopTurn \cup Call)
ASSUME FlakyClients  == Flaky \subseteq Client
ASSUME SlotsPositive == Slots \in Nat \ {0}
ASSUME PoliteBoolean == Polite \in BOOLEAN

Turn == UserTurn \cup LoopTurn
Task == Turn \cup Call
Proc == Task \cup Client

VARIABLES
  exchanges,   \* Conversation.exchanges, oldest first
  items,       \* the items of each exchange: "user", "text", function calls
  status,      \* FunctionCall.status ("none": not created yet)
  loop_break,  \* Conversation.loop_break
  tasks,       \* Conversation.tasks
  monitors,    \* Conversation.monitors, by client
  broken,      \* clients whose socket fails but whose monitor is still there
  pc,          \* where each coroutine is suspended
  thrown,      \* coroutines that resume with an exception
  draft,       \* the user message a handler has appended, not yet scheduled
  notify,      \* send_update_tasks tasks created by on_task_done, not yet run
  told,        \* what the last count sent to each client shows: activity or rest
  request,     \* calls a turn's request reports on though they never finished
  stop,        \* history: the last conversation.stop, if no message followed
  sound,       \* history: no coroutine's send_update has failed so far
  aware        \* history: since the conversation last was at rest, no polite client
               \* has written beside a task it was never told of

vars == <<exchanges, items, status, loop_break, tasks, monitors, broken, pc,
          thrown, draft, sound, notify, told, aware, request, stop>>

TurnPC   == {"none", "ready", "waiting", "streaming", "emitting",
             "completing", "ended", "gone"}
CallPC   == {"none", "ready", "announcing", "executing", "progressing",
             "finalizing", "ended", "gone"}
ClientPC == {"out", "idle", "appending", "posted", "closing"}
Status   == {"none", "in_progress", "completed", "executing", "finished"}

Init ==
  /\ exchanges = <<>>
  /\ items = [t \in Turn |-> {}]
  /\ status = [c \in Call |-> "none"]
  /\ loop_break = TRUE
  /\ tasks = {}
  /\ monitors = {} /\ broken = {}
  /\ pc = [k \in Proc |-> IF k \in Client THEN "out" ELSE "none"]
  /\ thrown = {} /\ sound = TRUE
  /\ draft = [w \in Client |-> {}]
  /\ notify = 0
  /\ told = [w \in Client |-> "nothing"] /\ aware = TRUE
  /\ request = [t \in Turn |-> {}]
  /\ stop = "none"

-----------------------------------------------------------------------------
\* Helpers.

\* send_update() gathers one send per monitor: the caller resumes with an
\* ExceptionGroup iff one of the sends fails.
Sends(k) ==
  /\ thrown' = IF monitors \cap broken = {} THEN thrown \ {k} ELSE thrown \cup {k}
  /\ sound' = (sound /\ monitors \cap broken = {})

Goto(k, where) == pc' = [pc EXCEPT ![k] = where]

\* The count of a tasks.updated event.
Count(ts, break) == Cardinality(ts) + (IF break THEN 0 ELSE 1)

\* A tasks.updated event reaches every monitor whose socket works.
Broadcast(n) ==
  told' = [w \in Client |-> IF w \notin monitors \ broken THEN told[w]
                            ELSE IF n > 0 THEN "busy" ELSE "rest"]

\* A turn that exists neither as an exchange nor as a task.
Fresh(t) == pc[t] = "none" /\ items[t] = {}

\* Conversation.get_model() finds a user message.
HasModel == \E i \in DOMAIN exchanges : "user" \in items[exchanges[i]]

\* The calls a request built from the exchanges reports an output for although
\* their tool has not finished.
Unfinished == {c \in Call : /\ status[c] # "finished"
                            /\ \E i \in DOMAIN exchanges : c \in items[exchanges[i]]}

Holders == {t \in Turn : pc[t] \in {"streaming", "emitting", "completing"}}
Waiters == {t \in Turn : pc[t] = "waiting"}

-----------------------------------------------------------------------------
\* Chat tasks: task_chat_request() and the provider's chat_request().

\* The request is built from the exchanges when chat_request() starts.
BeginRequest(t) ==
  /\ Goto(t, "streaming")
  /\ request' = [request EXCEPT ![t] = Unfinished]

StartChat(t) ==
  /\ pc[t] = "ready" /\ t \notin thrown
  /\ \/ \* "Model is not set", or no provider lists the model
        Goto(t, "ended") /\ UNCHANGED request
     \/ /\ HasModel /\ Cardinality(Holders) < Slots /\ Waiters = {}
        /\ BeginRequest(t)
     \/ /\ HasModel /\ (Cardinality(Holders) >= Slots \/ Waiters # {})
        /\ Goto(t, "waiting") /\ UNCHANGED request
  /\ UNCHANGED <<exchanges, items, status, loop_break, tasks, monitors, broken,
                 thrown, sound, draft, notify, told, aware, stop>>

\* chat_request() looks the model up again; building the messages from the
\* history may raise as well.
Acquire(t) ==
  /\ pc[t] = "waiting" /\ t \notin thrown
  /\ Cardinality(Holders) < Slots
  /\ \/ HasModel /\ BeginRequest(t)
     \/ Goto(t, "ended") /\ UNCHANGED request
  /\ UNCHANGED <<exchanges, items, status, loop_break, tasks, monitors, broken,
                 thrown, sound, draft, notify, told, aware, stop>>

\* An event that adds or extends a text item.
StreamText(t) ==
  /\ pc[t] = "streaming" /\ t \notin thrown
  /\ items' = [items EXCEPT ![t] = @ \cup {"text"}]
  /\ Goto(t, "emitting") /\ Sends(t)
  /\ UNCHANGED <<exchanges, status, loop_break, tasks, monitors, broken, draft,
                 notify, told, aware, request, stop>>

\* An event that adds a function call.
StreamCall(t, c) ==
  /\ pc[t] = "streaming" /\ t \notin thrown
  /\ status[c] = "none"
  /\ items' = [items EXCEPT ![t] = @ \cup {c}]
  /\ status' = [status EXCEPT ![c] = "in_progress"]
  /\ Goto(t, "emitting") /\ Sends(t)
  /\ UNCHANGED <<exchanges, loop_break, tasks, monitors, broken, draft, notify,
                 told, aware, request, stop>>

\* The event that closes a function call.
StreamCallDone(t, c) ==
  /\ pc[t] = "streaming" /\ t \notin thrown
  /\ c \in items[t] /\ status[c] = "in_progress"
  /\ status' = [status EXCEPT ![c] = "completed"]
  /\ Goto(t, "completing") /\ Sends(t)
  /\ UNCHANGED <<exchanges, items, loop_break, tasks, monitors, broken, draft,
                 notify, told, aware, request, stop>>

Emitted(t) ==
  /\ pc[t] = "emitting" /\ t \notin thrown
  /\ Goto(t, "streaming")
  /\ UNCHANGED <<exchanges, items, status, loop_break, tasks, monitors, broken,
                 thrown, sound, draft, notify, told, aware, request, stop>>

\* Defect: the count is computed before the task is registered.
ScheduledLate(k) ==
  /\ tasks' = tasks \cup {k}
  /\ Broadcast(Count(tasks, loop_break))

\* schedule_task(): register the new task, then broadcast the count.
Scheduled(k) ==
  /\ tasks' = tasks \cup {k}
  /\ Broadcast(Count(tasks \cup {k}, loop_break))

\* create_function_call(): the call whose item.updated has just been sent.
LaunchCall(t, c) ==
  /\ pc[t] = "completing" /\ t \notin thrown
  /\ c \in items[t] /\ status[c] = "completed" /\ pc[c] = "none"
  /\ Scheduled(c)
  /\ pc' = [pc EXCEPT ![t] = "emitting", ![c] = "ready"]
  /\ Sends(t)
  /\ UNCHANGED <<exchanges, items, status, loop_break, monitors, broken, draft,
                 notify, aware, request, stop>>

\* The response is complete, or its connection fails or times out.
StreamEnds(t) ==
  /\ pc[t] = "streaming" /\ t \notin thrown
  /\ Goto(t, "ended")
  /\ UNCHANGED <<exchanges, items, status, loop_break, tasks, monitors, broken,
                 thrown, sound, draft, notify, told, aware, request, stop>>

\* A chat task handles no exception: it ends where it resumes.
TurnRaises(t) ==
  /\ t \in thrown /\ pc[t] \notin {"none", "ended", "gone"}
  /\ Goto(t, "ended")
  /\ thrown' = thrown \ {t}
  /\ UNCHANGED <<exchanges, items, status, loop_break, tasks, monitors, broken,
                 sound, draft, notify, told, aware, request, stop>>

-----------------------------------------------------------------------------
\* Tool tasks: task_function_call().

StartCall(c) ==
  /\ pc[c] = "ready" /\ c \notin thrown
  /\ status' = [status EXCEPT ![c] = "executing"]
  /\ Goto(c, "announcing") /\ Sends(c)
  /\ UNCHANGED <<exchanges, items, loop_break, tasks, monitors, broken, draft,
                 notify, told, aware, request, stop>>

CallProceeds(c) ==
  /\ pc[c] = "announcing" /\ c \notin thrown
  /\ Goto(c, "executing")
  /\ UNCHANGED <<exchanges, items, status, loop_break, tasks, monitors, broken,
                 thrown, sound, draft, notify, told, aware, request, stop>>

\* The tool reports progress.
ToolYields(c) ==
  /\ pc[c] = "executing" /\ c \notin thrown
  /\ Goto(c, "progressing") /\ Sends(c)
  /\ UNCHANGED <<exchanges, items, status, loop_break, tasks, monitors, broken,
                 draft, notify, told, aware, request, stop>>

\* ToolService.execute() finds no tool or catches its failure: it yields the
\* error as the last progress.
ToolFails(c) ==
  /\ pc[c] = "executing" /\ c \notin thrown
  /\ status' = [status EXCEPT ![c] = "completed"]
  /\ Goto(c, "progressing") /\ Sends(c)
  /\ UNCHANGED <<exchanges, items, loop_break, tasks, monitors, broken, draft,
                 notify, told, aware, request, stop>>

\* The finally block, up to the update it sends.
Finalize(c) ==
  /\ status' = [status EXCEPT ![c] = "finished"]
  /\ Goto(c, "finalizing") /\ Sends(c)
  /\ UNCHANGED <<exchanges, items, loop_break, tasks, monitors, broken, draft,
                 notify, told, aware, request, stop>>

ToolReturns(c) ==
  /\ pc[c] = "executing" /\ c \notin thrown
  /\ Finalize(c)

ProgressSent(c) ==
  /\ pc[c] = "progressing" /\ c \notin thrown
  /\ \/ /\ status[c] = "completed"
        /\ Finalize(c)
     \/ /\ status[c] = "executing"
        /\ Goto(c, "executing")
        /\ UNCHANGED <<exchanges, items, status, loop_break, tasks, monitors,
                       broken, thrown, sound, draft, notify, told, aware, request,
                       stop>>

\* Defect: the result is not flagged.
ResultForgotten == UNCHANGED loop_break

\* "Flag the conversation that is chat requested"
ResultDue == loop_break' = FALSE

\* The rest of the finally block: the conversation wants another turn.
CallFinishes(c) ==
  /\ pc[c] = "finalizing" /\ c \notin thrown
  /\ ResultDue
  /\ Goto(c, "ended")
  /\ UNCHANGED <<exchanges, items, status, tasks, monitors, broken, thrown,
                 sound, draft, notify, told, aware, request, stop>>

\* Inside the try an exception leads to the finally block; before it, and in
\* the finally block itself, it ends the task.
CallRaises(c) ==
  /\ c \in thrown
  /\ \/ /\ pc[c] \in {"executing", "progressing"}
        /\ Finalize(c)
     \/ /\ pc[c] \in {"ready", "announcing", "finalizing"}
        /\ Goto(c, "ended")
        /\ thrown' = thrown \ {c}
        /\ UNCHANGED <<exchanges, items, status, loop_break, tasks, monitors,
                       broken, sound, draft, notify, told, aware, request, stop>>

-----------------------------------------------------------------------------
\* on_task_done(): the event loop calls it some time after the task has ended.

\* Defects: other tasks are ignored; the list is tested before the task is removed.
DrainedAnyTask(k) == ~loop_break
DrainedTooEarly(k) == tasks = {} /\ ~loop_break

\* Task k was the last one and a tool result waits for the model.
LoopDrained(k) == tasks \ {k} = {} /\ ~loop_break

Retired(k) == pc[k] = "ended" /\ k \in tasks

\* Defects: on_task_done sends no update; it takes an update for sent.
NotifyNever == UNCHANGED notify
NotifySent == notify' = notify - 1

NotifyLater == notify' = notify + 1

\* Defect: the flag stays off when the loop goes on.
LoopNotTaken == UNCHANGED loop_break

\* The new exchange takes the due results up.
LoopTaken == loop_break' = TRUE

TaskRetires(k) ==
  /\ Retired(k) /\ ~LoopDrained(k)
  /\ tasks' = tasks \ {k}
  /\ Goto(k, "gone")
  /\ NotifyLater
  /\ aware' = (aware \/ tasks' = {})
  /\ UNCHANGED <<exchanges, items, status, loop_break, monitors, broken, thrown,
                 sound, draft, told, request, stop>>

LoopContinues(k, t) ==
  /\ Retired(k) /\ LoopDrained(k)
  /\ Fresh(t)
  /\ exchanges' = Append(exchanges, t)
  /\ LoopTaken
  /\ tasks' = (tasks \ {k}) \cup {t}
  /\ pc' = [pc EXCEPT ![k] = "gone", ![t] = "ready"]
  /\ NotifyLater
  /\ UNCHANGED <<items, status, monitors, broken, thrown, sound, draft, told, aware,
                 request, stop>>

\* One of the send_update_tasks() tasks computes the count and sends it.
NotifyTasks ==
  /\ notify > 0
  /\ notify' = notify - 1
  /\ Broadcast(Count(tasks, loop_break))
  /\ UNCHANGED <<exchanges, items, status, loop_break, tasks, monitors, broken,
                 pc, thrown, sound, aware, draft, request, stop>>

-----------------------------------------------------------------------------
\* Websocket handlers: ws_conversation() and the messages it serves.

\* A client that mounts is sent the items, but no count of tasks: told[w] is "nothing".
Connect(w) ==
  /\ pc[w] = "out"
  /\ Goto(w, "idle")
  /\ monitors' = monitors \cup {w}
  /\ UNCHANGED <<exchanges, items, status, loop_break, tasks, broken, thrown,
                 sound, draft, notify, told, aware, request, stop>>

\* The connection dies; nothing tells the handler yet.
Break(w) ==
  /\ w \in Flaky \cap monitors /\ w \notin broken
  /\ broken' = broken \cup {w}
  /\ UNCHANGED <<exchanges, items, status, loop_break, tasks, monitors, pc,
                 thrown, sound, draft, notify, told, aware, request, stop>>

\* The finally block of the handler discards the monitor; what the client was
\* told goes with its connection.
Depart(w) ==
  /\ Goto(w, "out")
  /\ monitors' = monitors \ {w}
  /\ broken' = broken \ {w}
  /\ thrown' = thrown \ {w}
  /\ draft' = [draft EXCEPT ![w] = {}]
  /\ told' = [told EXCEPT ![w] = "nothing"]
  /\ UNCHANGED <<exchanges, items, status, loop_break, tasks, sound, notify,
                 aware, request, stop>>

\* Defect: a handler is cancelled while it serves a message.
LeaveAnyTime(w) == pc[w] \in {"idle", "appending"} /\ Depart(w)

\* The client goes away.
Leave(w) == pc[w] = "idle" /\ Depart(w)

\* An exception in a message closes the websocket of the client that sent it.
\* Until the peer answers, the monitor stays and every send to it fails.
Close(w) ==
  /\ Goto(w, "closing")
  /\ broken' = broken \cup {w}
  /\ thrown' = thrown \ {w}
  /\ draft' = [draft EXCEPT ![w] = {}]
  /\ UNCHANGED <<exchanges, items, status, loop_break, tasks, monitors, sound,
                 notify, told, aware, request, stop>>

HandlerRaises(w) == w \in thrown /\ Close(w)

Closed(w) == pc[w] = "closing" /\ Depart(w)

\* user.message.created: create_exchange() appends the message and sends it ...
Post(w, t) ==
  /\ pc[w] = "idle" /\ (Polite => told[w] # "busy")
  /\ Fresh(t)
  /\ exchanges' = Append(exchanges, t)
  /\ items' = [items EXCEPT ![t] = {"user"}]
  /\ draft' = [draft EXCEPT ![w] = {t}]
  /\ stop' = "none"
  /\ aware' = (aware /\ (Polite /\ told[w] = "nothing" => tasks = {}))
  /\ Goto(w, "appending") /\ Sends(w)
  /\ UNCHANGED <<status, loop_break, tasks, monitors, broken, notify, told,
                 request>>

\* ... then schedules the chat task and sends the count of tasks.
Posted(w, t) ==
  /\ pc[w] = "appending" /\ w \notin thrown /\ draft[w] = {t}
  /\ Scheduled(t)
  /\ pc' = [pc EXCEPT ![w] = "posted", ![t] = "ready"]
  /\ draft' = [draft EXCEPT ![w] = {}]
  /\ Sends(w)
  /\ UNCHANGED <<exchanges, items, status, loop_break, monitors, broken, notify,
                 aware, request, stop>>

PostServed(w) ==
  /\ pc[w] = "posted" /\ w \notin thrown
  /\ Goto(w, "idle")
  /\ UNCHANGED <<exchanges, items, status, loop_break, tasks, monitors, broken,
                 thrown, sound, draft, notify, told, aware, request, stop>>

\* Defects: stop only cancels; stop cancels the chat tasks alone.
StopOnlyCancels == UNCHANGED loop_break
CancelChats == thrown' = thrown \cup {k \in tasks \cap Turn : pc[k] # "ended"}

\* conversation.stop
StopLoop  == loop_break' = TRUE
CancelAll == thrown' = thrown \cup {k \in tasks : pc[k] # "ended"}

Stop(w) ==
  /\ pc[w] = "idle"
  /\ CancelAll /\ StopLoop
  /\ stop' = IF /\ \A c \in Call : pc[c] \notin {"executing", "progressing"}
                /\ \A v \in Client : draft[v] = {}
             THEN "quiet" ELSE "busy"
  /\ UNCHANGED <<exchanges, items, status, tasks, monitors, broken, sound, pc,
                 draft, notify, told, aware, request>>

\* conversation.restart with the key of the first item of exchange r.
Restart(w, r) ==
  /\ pc[w] = "idle"
  /\ \E i \in DOMAIN exchanges :
       /\ exchanges[i] = r
       /\ \A j \in 1..i : items[exchanges[j]] # {}
       /\ exchanges' = SubSeq(exchanges, 1, i - 1)
  /\ UNCHANGED <<items, status, loop_break, tasks, monitors, broken, pc, thrown,
                 sound, draft, notify, told, aware, request, stop>>

\* The search for the key meets an exchange with no items: IndexError.
RestartFails(w) ==
  /\ pc[w] = "idle"
  /\ \E i \in DOMAIN exchanges : items[exchanges[i]] = {}
  /\ Close(w)

-----------------------------------------------------------------------------
TurnStep(t) ==
  \/ StartChat(t) \/ Acquire(t) \/ Emitted(t) \/ StreamEnds(t) \/ TurnRaises(t)
  \/ \E c \in Call : LaunchCall(t, c)

\* What the model says is its own choice.
ModelSays(t) == StreamText(t) \/ \E c \in Call : StreamCall(t, c) \/ StreamCallDone(t, c)

CallStep(c) ==
  \/ StartCall(c) \/ CallProceeds(c) \/ ProgressSent(c) \/ CallFinishes(c)
  \/ CallRaises(c)

ToolStep(c) == ToolYields(c) \/ ToolFails(c) \/ ToolReturns(c)

DoneCallback(k) == TaskRetires(k) \/ \E t \in LoopTurn : LoopContinues(k, t)

HandlerStep(w) ==
  \/ \E t \in UserTurn : Posted(w, t)
  \/ PostServed(w) \/ HandlerRaises(w) \/ Closed(w)

ClientActs(w) ==
  \/ Connect(w) \/ Break(w) \/ Leave(w) \/ Stop(w) \/ RestartFails(w)
  \/ \E t \in UserTurn : Post(w, t)
  \/ \E r \in Turn : Restart(w, r)

Next ==
  \/ \E t \in Turn : TurnStep(t) \/ ModelSays(t)
  \/ \E c \in Call : CallStep(c) \/ ToolStep(c)
  \/ \E k \in Task : DoneCallback(k)
  \/ NotifyTasks
  \/ \E w \in Client : HandlerStep(w) \/ ClientActs(w)

Spec == Init /\ [][Next]_vars

\* The event loop runs every ready coroutine and callback.  A response ends
\* however much the model says (max_tokens, aiohttp's timeouts), and so does a
\* tool however often it reports progress (rest: finitely many steps; ping: -c).
Fairness ==
  /\ \A t \in Turn : WF_vars(TurnStep(t)) /\ SF_vars(StreamEnds(t))
  /\ \A c \in Call : WF_vars(CallStep(c)) /\ SF_vars(ToolReturns(c))
  /\ \A k \in Task : WF_vars(DoneCallback(k))
  /\ WF_vars(NotifyTasks)
  /\ \A w \in Client : WF_vars(HandlerStep(w))

LiveSpec == Spec /\ Fairness

-----------------------------------------------------------------------------
\* Types.

TypeOK ==
  /\ exchanges \in Seq(Turn)
  /\ items \in [Turn -> SUBSET ({"user", "text"} \cup Call)]
  /\ status \in [Call -> Status]
  /\ loop_break \in BOOLEAN
  /\ tasks \subseteq Task
  /\ monitors \subseteq Client /\ broken \subseteq Client
  /\ pc \in [Proc -> TurnPC \cup CallPC \cup ClientPC]
  /\ \A t \in Turn : pc[t] \in TurnPC
  /\ \A c \in Call : pc[c] \in CallPC
  /\ \A w \in Client : pc[w] \in ClientPC
  /\ thrown \subseteq Proc /\ sound \in BOOLEAN
  /\ draft \in [Client -> SUBSET UserTurn]
  /\ notify \in Nat
  /\ told \in [Client -> {"nothing", "rest", "busy"}] /\ aware \in BOOLEAN
  /\ request \in [Turn -> SUBSET Call]
  /\ stop \in {"none", "quiet", "busy"}

-----------------------------------------------------------------------------
\* Safety.

\* A call whose task has started and has not yet returned its result.
Running(c) == pc[c] \in {"announcing", "executing", "progressing", "finalizing"}

\* At most one task feeds tool results back at a time, whatever the order in
\* which tools return, stops arrive and callbacks run: on_task_done opens an
\* exchange only when it retires the last task.
OneContinuation == \A t, u \in LoopTurn \cap tasks : t = u

\* A pending continuation is never orphaned: while loop_break is off there is
\* a task left whose callback will act on it.
LoopIsOwned == ~loop_break => tasks # {}

\* The tasks and loop_break of a conversation take turns as TurnTaking says.
TT == INSTANCE TurnTaking WITH Worker <- Task, Continuation <- LoopTurn,
                               live <- tasks, due <- ~loop_break
TakesTurns == TT!Spec

\* After a stop that found no tool executing and no message half posted, the
\* loop opens no further exchange until the user writes again.
StopSticks == [][stop = "quiet" /\ stop' = "quiet" => LoopTurn \cap (tasks' \ tasks) = {}]_vars

\* No client whose socket works is told that a conversation with a task has come
\* to rest, however late the updates of earlier tasks run.
BusyIsShown == tasks # {} => \A w \in monitors \ broken : told[w] # "rest"

\* Once the callbacks have run, no such client sees activity in a conversation at
\* rest.
RestIsShown == tasks = {} /\ notify = 0 => \A w \in monitors \ broken : told[w] # "busy"

\* No message is lost while sends succeed: a user's exchange in the conversation
\* has (had) its chat task, or its handler is about to create it.
MessageIsScheduled ==
  sound => \A t \in UserTurn :
    items[t] # {} /\ pc[t] = "none" => \E w \in Client : draft[w] = {t}

\* No request reports an (empty) output for a call that is executing at the
\* time.  It takes a user who waits for the UI to show no activity, and a UI that
\* was told of the tasks it shows none of: the one of a client that reconnects
\* while a tool runs was not.
NoRunningCallSent ==
  aware => \A t \in Turn : \A c \in request[t] : ~Running(c)

-----------------------------------------------------------------------------
\* Liveness.

\* A tool that executes returns its result to the loop, unless the user stops it
\* or a send fails.
ResultTriggersLoop ==
  \A c \in Call : pc[c] = "executing" ~> (~loop_break \/ stop # "none" \/ ~sound)

\* A result handed to the loop is taken up by a new exchange, or dropped by a
\* stop.
LoopResumes == ~loop_break ~> loop_break

\* Every conversation comes to rest again and again, and its clients see it.
ComesToRest == []<>(tasks = {} /\ notify = 0)

-----------------------------------------------------------------------------
\* Claims of the repository that the code does not keep.

\* datamodel.py: while loop_break is true the service waits for the next user
\* message; conversation.stop sets it.
StopIsFinal == [][stop # "none" /\ stop' # "none" => LoopTurn \cap (tasks' \ tasks) = {}]_vars

\* README: the tool calls are executed and their results are fed back into the
\* conversation.
OnlyResultsSent == \A t \in Turn : request[t] = {}

\* restart_conversation: a key that is found is acted on, whatever exchanges
\* precede it; only an unknown key fails, with a warning.
RestartReaches ==
  \A i, j \in DOMAIN exchanges :
    j < i /\ exchanges[i] \in UserTurn => items[exchanges[j]] # {}
=============================================================================
