# llm-microlink in TLA+

`llm-microlink` is a Python/asyncio service that links a web client to an LLM. It
keeps conversations, streams the model's answer to every client that watches a
conversation, executes the function calls the model asks for, and feeds the
results back until the model asks for no more: the *agentic loop*. This directory
holds TLA+ models of it, the TLC configurations that check them on small
instances, and proofs that TLAPS checks for instances of any size. Paths below
are relative to the repository; `PROJECT.json` maps each definition to its lines.

## 1. Inventory

| component | source | state | operations |
|---|---|---|---|
| conversation loop | `llmulink/llm/svc_router.py`, `datamodel.py` | `exchanges`, `loop_break`, `tasks`, `monitors`, `instructions`, `tools` | `create_conversation`, `create_exchange`, `schedule_task`, `on_task_done`, `task_chat_request`, `create_function_call`, `task_function_call`, `stop_conversation`, `restart_conversation`, `update_instructions`, `send_update`, `send_full_update`, `send_update_tasks` |
| websocket handler | `llmulink/llm/handler_web.py` | one monitor and one message loop per client | mount, `user.message.created`, `conversation.stop`, `conversation.restart`, `update.full.requested`, `update.instructions`, close |
| requests to the models | first part of each `chat_request` | none | a conversation laid out for one of three APIs |
| provider adapters | `llmulink/llm/provider/v1messages.py`, `v1chatcompletition.py`, `v1response.py` | block, message or calls being read | one handler per stream event |
| provider models | `llmulink/llm/provider/provider_abc.py`, `svc_router.py` | cached `Models`, `Semaphore(2)` | `get_models`, `collect_models`, choice of a provider |
| tool service | `llmulink/tool/svc_tool.py`, `tool.py` | list of providers | `locate_tool`, `get_tools`, `execute` |
| ZooKeeper discovery | `llmulink/tool/provider/zookeeper.py` | `Tools` | `initialize`, `discover`, `_discover_tool`, triggered by `application.tick/10!` and `CONNECTED!` |
| REST call, ping | `llmulink/tool/provider/function_call/`, `local.py` | none / a subprocess | one async generator each |
| tool REST API | `llmulink/tool/handler_web.py` | none | `PUT /function_call`, lists |
| application | `llmulink/app.py` | none | wiring |

**Interaction.** A websocket handler calls the conversation service directly. The
service runs one asyncio task per turn of the model (*chat task*) and one per
function call (*tool task*), registers them in `conversation.tasks` and attaches
`on_task_done`. A chat task waits for a slot of its provider, lays the conversation
out as a request, and drives an adapter, which mutates the items of its exchange,
awaits `send_update` (one send per monitor, in a `TaskGroup`) and calls
`create_function_call`. A tool task runs the tool, and its `finally` block sets
`loop_break = False`. When `on_task_done` removes the last task and finds the
flag off, it sets it on again and opens an exchange with no user message: the
next turn. So the loop is closed by one flag and one list, written by handlers,
tools and callbacks that interleave at every `await`. Providers, their cached
models and the list of tools are shared by all conversations.

**What is hard** (each entry with its line under `hazards` in `PROJECT.json`):

* tools that finish in any order while callbacks of other tasks are still queued;
* a stop between the start of a tool and its `finally` block;
* a `send_update` that raises in whoever happened to call it, because the socket
  of some other client is broken;
* a message half posted: appended to `exchanges`, its task not created yet;
* the count of tasks being broadcast later than it was changed, and not at all to a
  client that mounts;
* a full update written at once, while older events still wait in tasks;
* two responses read through one provider object that keeps the block being read
  as an attribute; loops over a `dict` with awaits inside;
* what a cut response leaves behind for the next one, or for the next request;
* stream events applied to "the last item of that type";
* a cache of models that every mounting client replaces, by an answer that may turn
  out to be unreadable, while others choose from it;
* two pipes and an exit status that complete in any order, a tool cancelled at any
  of its yields;
* overlapping discoveries, nodes that change while they are read, one bad
  definition among good ones.

**What makes each part correct.** The loop: one continuation at a time, no result
left behind, a stop obeyed, no message lost, the UI's spinner truthful, and in the
end rest. Views: a client shows what the conversation is, and never sees it go
back. Adapters: the items mirror what the model said, each call is launched once,
with all its arguments, and a response touches its own exchange only; all three
tell the model the same story. Calls: once begun they move forward, they end, explain
their failure and lose no output. Models: what is offered was served and is found.
Discovery: a published list is one that was there, and it converges.

## 2. Modules

| module | models | extends / instantiates |
|---|---|---|
| `TurnTaking` | abstract: workers, a due result, one continuation | |
| `AgentLoop` | conversation loop and websocket message loops | refines `TurnTaking` (`TakesTurns`) |
| `ClientView` | full updates, events and what each client makes of them | |
| `ItemStream` | abstract: what an adapter promises | |
| `ProviderStream` | what the adapters share; the server that sends blocks | instantiates `ItemStream` |
| `V1Messages`, `V1ChatCompletition`, `V1Response` | the three adapters | `ProviderStream`; refine `ItemStream` |
| `Requests` | how the three lay a conversation out | |
| `CallLife` | abstract: the life of one function call | |
| `ToolCall` | `execute()`, its two consumers, ping and REST | refines `CallLife` (`HasALife`) |
| `ModelProviders` | mounting, cached models, choice of a provider, slots | |
| `ToolDiscovery` | ZooKeeper discovery | |
| `MCAgentLoop`, `MCClientView`, `MCStreams`, `MCModelProviders`, `MCToolDiscovery` | instances for TLC; `MCStreams` composes the adapters and `Requests` in one run | |
| `AgentLoop_proofs`, `ClientView_proofs`, `ToolCall_proofs`, `ModelProviders_proofs`, `ToolDiscovery_proofs`, `ItemStream_proofs` | theorems | the module they are named for |
| `MCStreams_proofs` | theorems on `V1Messages` and `V1Response` | `MCStreams`; instantiates `ItemStream_proofs` |
| `V1ChatCompletition_proofs` | theorems on `V1ChatCompletition` | `MCStreams_proofs` |

Definitions marked "Defect" in a comment are what the code could plausibly have
been; `PROJECT.json` pairs each of them with the property that notices it. Nothing
else uses them.

### How asyncio is modelled

There is one event loop, so code between two awaits is atomic; an action is what
one coroutine does from one suspension to the next, and `pc` says where it is
suspended. In `AgentLoop`, `cancel()` and a failing `send_update` both surface as
an exception where the coroutine resumes: `thrown` is the set of coroutines that
will resume with one. Every other action of a coroutine requires that it is not in
`thrown`, and `TurnRaises`, `CallRaises`, `HandlerRaises` say where the exception
leads: out of a chat task, into the `finally` block of a tool task that is inside
its `try`, and for a websocket handler to `ws.close()`, which suspends with the
monitor still registered, so that sends to it fail until `Closed`. A task that is
cancelled while its wake-up is already queued resumes with `CancelledError`
instead, as in asyncio. Every `await send_update` is taken to suspend, also with no
monitors, which only adds interleavings.

### AgentLoop

A *turn* is an exchange together with the chat task that fills it; the code creates
them as a pair. `UserTurn` are opened by a message, `LoopTurn` by `on_task_done`.

| code | actions |
|---|---|
| `create_exchange` | `Post` (append, first update) · `Posted` (`schedule_task`) · `PostServed` |
| `task_chat_request`, `chat_request` | `StartChat`, `Acquire` (semaphore), `StreamText`, `StreamCall`, `StreamCallDone`, `LaunchCall` (`create_function_call`), `Emitted`, `StreamEnds`, `TurnRaises` |
| `task_function_call`, `ToolService.execute` | `StartCall`, `CallProceeds`, `ToolYields`, `ToolFails`, `ToolReturns`, `ProgressSent`, `CallFinishes`, `CallRaises` |
| `on_task_done` | `TaskRetires`, `LoopContinues` |
| `send_update_tasks` tasks | `NotifyTasks` |
| `ws_conversation` | `Connect`, `Leave`, `Break` (socket dies unnoticed), `HandlerRaises` (closes the socket), `Closed` (discards the monitor) |
| `stop_conversation`, `restart_conversation` | `Stop`, `Restart`, `RestartFails` |

`items[t]` is the *set* of what an exchange holds ("user", "text", calls): order
inside an exchange does not matter to the loop; `ProviderStream` has the order.
`told[w]` is what client `w` makes of the last `tasks.updated` event that reached its
connection (`Broadcast`): "busy", "rest", or "nothing" when there was none, for a client
that mounts is sent the items and no count (`handler_web.py:44-62`). `aware` is a history
variable: it ends when a polite client that was told nothing writes beside a task.
`request[t]` is what turn `t` reported to the model as the output of a call whose tool
had not finished. `sound` is a history variable: no `send_update` that some coroutine awaits
has failed yet. So is `stop`: it records whether the last
`conversation.stop` met a tool inside its `try` block or a half-posted message
("busy") or neither ("quiet"), until the next message.

### ClientView

`send_update` makes a task per monitor, which writes when the event loop gets to
it: `outbox[c]`, drained by `Deliver`. A full update is written by the handler
itself, past the outbox: `FullUpdate`, used by `Mount`, `Request` and `Restart`. It
lists every item of the conversation, because `case UserMessage:` in
`send_full_update` is a capture pattern and matches anything. `Mount` and `Register` are
two actions, for the handler may be suspended in the send before it adds the
monitor; `missed` notes what changed between them. The writers of items follow the order of
the code: a chat task goes on after `send_update` has sent to all (`Sent`), an
item appears, grows by deltas, is completed and, if it is a call, executed. What a
client makes of an event (`Applied`) is what the event says: the item, its new
version, or one piece more. When a tool is missing or raises, `execute()` sets the status
of an executing call back to 'completed' and this is sent (`svc_tool.py:48-66`): the
version "failed" between "executing" and "finished" (`Fails`). `Rank` is the order of the
versions, not of the status words.

### Adapters and requests

`ProviderStream` lets a model send blocks (message, reasoning, function call),
each opened, extended by deltas and closed. A delta is identified by the response
and block it came from, so `items[s][i].content` tells where each landed. `runs`
lists the conversations that launched a call. `ItemStream` is the contract: items
and blocks correspond one to one, a delta of an open block goes to its item, a closed
call is launched once by its own conversation, a response that is read to its end
leaves nothing open. `Follows(s)` is the contract for response `s` alone.
`ItemsMirrorBlocks` says what it amounts to in a state. An item ends "completed" or, in
`V1Response`, "incomplete" as the event has it, and a call is launched either way.

`V1Messages` keeps `self._current_content_block` as a reference `<<s, i>>`, with
the local variable `item` that survives the awaits of `content_block_stop`. A block of an
unknown type (`foreign`) starts no item and leaves the current block as it is, so that its
deltas and its end apply to whatever that is: this is where the reset at the beginning of
a response matters (`v1messages.py:113`, `202-205`).
`V1ChatCompletition` keeps the dict of calls as an object with identity (`heap`),
because the loops over it hold on to the object they began with, and a dict that
grows under a loop raises. `V1Response` has no state: `IsLast` is
`get_last_item`, with the user's message as item 0. For the first two `Overlap`
bounds the responses read at a time; 2 is what the semaphore admits. `shared` (a history
variable of `MCStreams`) collects the responses that were read side by side with another;
`MessagesMirror` and `ChatMirrors` speak of all the others. A chunk of the Chat
Completions stream carries one thing.

`Requests` builds histories (messages, texts, reasoning, calls with no, part or all
of their arguments, results, cut responses, restarts) and lays each out as the three
`chat_request` functions do. `Understood` reads an entry back in the terms of the
conversation, so that `TellsTheStory` can compare three formats with one story. The
list of tools of a request is left out.

### ToolCall

A tool is an async generator: it runs while its consumer asks for the next value
(`pc = "running"`, with `at` the place it is suspended at) and stands still at a
`yield` while the consumer sends (`"sending"`).

| code | actions |
|---|---|
| `task_function_call`, `PUT /function_call` | `Begin`, `Announced`, `ToolEnds`, `Closed`, `Cancel`, `SendFails` |
| `ToolService.execute` | `Execute`, `Raises`, `Ends` |
| `FunctionCallRest.__call__` | `Requests`, `Responds`, `RequestFails` |
| ping | `Validates`, `Spawns`, `Wakes` (`asyncio.wait`), `Handles`, `Reported`, `LoopsOrCompletes` |
| the subprocess and its readers (external) | `Writes`, `Exits`, `Completes` |

`content` is a sequence of pieces: a line `<<pipe, n>>`, or a note why the call
failed. Arguments are of five kinds, the ones the code tells apart. The subprocess
and its readers go on when the generator is closed, as they do in the code. A call of the
loop arrives with the status its response has left it, "completed" or, from `V1Response`,
"incomplete"; one of the REST API is "in_progress" (`Arrives`). So `CallLife` speaks of the
time since its consumer has begun (`begun`): 'executing', 'completed', 'finished'. The
answer of a microservice may be an error with no content at all
(`rest_datamodel.py:17-18`).

### ModelProviders

One conversation per client. `Opens`, `Answers`, `Refreshes`, `Fails`, `Collected` are
`get_models` of router and providers: `self.Models` is replaced when an answer
arrives and is left alone by a failure. It is replaced before the entries are read: one
without an "id" raises behind that (`Misreads`), the client is told of no models, and the
provider is `broken`, its cached list raising in every search of every chat task
(`SearchRaises`) until an answer replaces it. For `OpenAI` the cache is a `filter` object
that the return statement uses up, so it is then empty; one whose reading was broken off
still has a rest, which the next search uses up (`Search`). `Mounts` creates or finds the
conversation, or raises. `Asks` chooses a provider among those whose cache lists the
model at that moment; `Runs` and `TurnEnds` hold and release a slot of its
Semaphore, whose waiters are admitted in order. What the providers serve changes
freely (`Changes`).

### ToolDiscovery

`Discover` starts a `discover()`, `ListNodes` is `get_children`, `ReadTool` reads
one node, `Proceed` continues or publishes, `DiscoveryRaises` is an exception out
of `discover()`. `due` is a CONNECTED event or `initialize()` that has yet to call
it; the tick never does, for it is subscribed to under a name that ASAB does not publish.
`base` says whether the path above the nodes exists: without it `get_children` returns
None, and the discovery ends without publishing (`GivesUp`, `zookeeper.py:56-57`).
ZooKeeper is external: a read of a node that has gone may return nothing or raise,
and any request may raise while the connection is lost. The order in which the
listed nodes are read is free. `steady`, `seen`, `fresh` and `firm` are history
variables for the properties.

## 3. Runs

"Bound" names what limits the instance, and why it is enough.

| run | checks | result and bound |
|---|---|---|
| `loop_faults` | `LoopIsOwned`, `BusyIsShown`, `RestIsShown`, `MessageIsScheduled`, `StopSticks`, `TakesTurns` | holds; 5.2 million states. Two messages that two clients may write at the same time, one client with a breakable socket, one call, one loop turn. A third client or call adds no new kind of step: a callback only distinguishes "last task" from "not last". `Slots = 1` (2 in the code) so that two turns suffice to make one wait. `VIEW FaultsView` leaves out `request` and `aware`, which no guard and none of these properties reads |
| `loop_polite` | `NoRunningCallSent`, `OneContinuation` | holds for one user who writes only while the UI shows no activity (`Polite`), who may leave and reconnect at any time. Two messages, two parallel calls, two loop turns: a request is built while a call of another turn may run, and two tools may open the continuation. 6.3 million states; `VIEW PoliteView` leaves out `stop` and `sound`, which no guard and neither property reads |
| `loop_live` | `TypeOK`, `ResultTriggersLoop`, `LoopResumes`, `ComesToRest` | holds under `Fairness`. As many loop turns as calls, so the bound never blocks a continuation: each continuation consumes at least one finished call. One message: a user who goes on writing adds turns, see section 4 |
| `streams` | `MessagesMirror`, `ChatMirrors`, `ResponseMirrors`, `TellsTheStory` | holds; 1.8 million states. Each adapter keeps its contract for two responses read one after the other (the first may be cut anywhere), `V1Response` also for two side by side; and for a third one that is read when two that were read side by side are over (`TwoOrShort`). Three blocks for the Chat Completions adapter (a text and two calls, so every loop is entered twice), two for the others; one delta per block; beside and after an overlap one block without a delta, since what matters there is what a block or a call leaves on the provider. Requests: all histories of four items in two exchanges, enough for a message, a text, a call and what follows it |
| `views` | `TypeOK`, `SettledIsSeen`, `NeverFallsBack` | holds. Two clients, two exchanges, of which the first has a message, a text and a call; an item is extended once, a tool may fail. Two exchanges, so that a restart may keep one and drop the other |
| `tool_calls` | `TypeOK`, `OutputIsComplete`, `HasALife`, `FailureIsExplained`, `CallEnds` | holds for both consumers, each status a call may arrive with, each tool and every kind of arguments; two lines per pipe, so that a line may wait behind another while the other pipe and the exit status come first |
| `models` | `TypeOK`, `OffersWhatWasServed`, `OfferedIsAvailable`, `LineIsSound`, `MountingEnds`, `WaitingEnds` | holds. Two clients that mount at the same time, two providers of one model, one of them OpenAI, one slot, one change of what is served or one answer that cannot be read (with two of them, from either kind, the invariants hold as well; the theorems of section 6 are for any number) |
| `discovery` | `TypeOK`, `OfferedToolsStay`, `RestIsSettled`, `PublishesWhatWasThere`, `SettlesOnceConnected` | holds. Two nodes with any contents, the path above them there or not, two overlapping discoveries, two changes, any number of reconnections. The changes may come before, between or after the reads |
| `stop_is_final` | `StopIsFinal` | **violated**, section 5 |
| `restart_reaches` | `RestartReaches` | **violated** |
| `streams_overlap` | `NoCrossTalk` | **violated** with two responses at a time |
| `cut_arguments` | `NextMessageIsServed` | **violated** by a response that breaks off inside the arguments of a call |

Identifiers of a kind are interchangeable (the code compares none of them), so
some runs of safety properties use symmetry; runs of liveness properties do not.
Deadlock is checked except in the runs of `MCStreams`, where all responses may be
over. `ToolCall` has a step that repeats when a call is over.

Besides the identifiers, which each can be used once, the only bounds are
`MaxBlocks`, `MaxDeltas`, `ChatBlocks`, `MaxExchanges`, `MaxItems`, `MaxContent`,
`MaxLines` and `MaxChanges`, each a guard that its comment names. An exchange of
`AgentLoop` that a restart has removed does not free its identifier if it has items
or had a task.

What the properties leave out on purpose, because the code does not give it:

* `BusyIsShown` and `RestIsShown` are about the clients whose sockets work, and about
  what they were told since they mounted: that is nothing at first, and a client that
  mounts beside a task shows no activity.
* `NoRunningCallSent` is conditional on `Polite`, one client, and `aware`: whoever
  reconnects while a tool runs was told of no task, may write, and the request then
  reports the running call (section 5). `Polite` also takes it that the user waits for the
  update which his own message causes.
* `MessageIsScheduled` and `ResultTriggersLoop` are conditional on `sound`: when a send
  fails, a message or a result is lost, also one of another client whose socket is fine
  (`svc_router.py:112`, `:258`, `handler_web.py:107`). No property covers these failures.
* `StopSticks` leaves out a stop that meets an executing tool or a half-posted message.
* `MessagesMirror` and `ChatMirrors` leave out the responses that were read side by side
  (`shared`); the damage of an overlap is confined to those.
* `TellsTheStory` leaves out, for the Messages adapter, conversations with a call whose
  arguments broke off (`MessagesRaises`); `cut_arguments` is about them.
* `SettledIsSeen` leaves out the items that changed between a full update and its
  monitor (`missed`), which the code does lose, and those no longer in the conversation.
* `FailureIsExplained` leaves out the empty answer of a microservice.
* `CallEnds` says that the consumer of a call comes to an end, not that somebody is told:
  a call that is cancelled in its first send, before the `try`, stays "executing".
* `OfferedIsAvailable` leaves out providers that changed their models, OpenAI, and the
  searches that raise at an unreadable entry (`broken`).
* `OfferedToolsStay` leaves out lists published while another discovery ran, and it is
  about the list of the provider: a conversation keeps the one of its creation.
* `SettlesOnceConnected` and `RestIsSettled`, its counterpart in a state, leave out
  nodes that changed after the connection came (no tick will see them), a discovery that
  is still under way from before, definitions that raise, and a missing path above the
  nodes, in which case the old list stays on offer.

## 4. Fairness

* Weak fairness of every step of a coroutine, of each callback and of each
  notification task: the event loop runs whatever is ready.
* Strong fairness of `StreamEnds`: however much the model says, a response ends
  (`max_tokens`, aiohttp's total timeout). It is strong because between events the
  task is suspended in `send_update` and the action disabled.
* Strong fairness of `ToolReturns`: a tool that keeps reporting progress is finite
  (REST yields twice, ping runs with `-c`).
* `ToolCall`: weak fairness of generator and consumer taken together, as one task
  runs both, of the process coming to its end, and of each reader.
* `ModelProviders`: weak fairness of an answer being processed or the request
  failing (aiohttp has a timeout), of `Collected`, `Mounts`, `Runs`, and of the end
  of a turn that runs; none for a turn that waits.
* Discovery: weak fairness of `Discover` (an event that is due calls it in the end) and of
  its steps. `SettlesOnceConnected` assumes in its formula that the connection and the
  nodes finally stay as they are.
* `ComesToRest` is relative to finitely many calls and messages: the code has no cap on
  the turns of a loop, so a model that asks for a call in every turn is never at rest. In
  the model the identifiers end. And with one chat task at a time, as in that run, no
  task waits for a slot: `WaitingEnds` is about that.
* Nothing is assumed of clients, of what the model says, of progress reports, of
  what services do, or of a user's stop.

## 5. Where the code and its documents differ

Shown by a run:

1. **A stop can be undone.** `stop_conversation` cancels an executing tool and sets
   `loop_break`; the cancelled tool's `finally` block clears it
   (`svc_router.py:264`), so the loop goes on (`stop_is_final`). What does hold is
   `StopSticks`: a stop that meets no tool in its `try` block and no half-posted
   message is obeyed.
2. **An empty exchange breaks restart.** `restart_conversation` reads `items[0]` of
   every exchange it passes (`svc_router.py:84`): `IndexError` (`restart_reaches`).
3. **Conversations share the block being read.** Two responses through one
   Messages provider write into each other's exchange (`streams_overlap`); the
   Chat Completions adapter keeps its state the same way. What does hold is
   `MessagesMirror` and `ChatMirrors`: the responses read before and after are not touched.
4. **A cut call stops the conversation.** The Messages adapter reads the stored
   arguments of every call with `json.loads`; half a JSON text makes every later
   request raise (`cut_arguments`).

Met while modelling; the property is in the module, and the last column says how to
see it fail:

| what | where | how |
|---|---|---|
| Requests report calls that never ran, or still run, with an empty output | `v1response.py:57` | `OnlyResultsSent` in the instance of `loop_live` |
| A misfired delta alters the user's message: the last item of type "message" may be the user's | `v1response.py:379` | `UserWordsKept` of `MCStreams` with `Misfires = TRUE` |
| One bad definition freezes the list of tools | `zookeeper.py:89` | `SettlesOnceConnected` without its condition on "poison" |
| The tick has another name than the one subscribed to: a change while the connection lasts is not seen | `zookeeper.py:25` | `SettlesOnceConnected` without `fresh` |
| Without the path above the nodes the old tools stay on offer | `zookeeper.py:57` | `SettlesOnceConnected` or `RestIsSettled` without `base` |
| A slow discovery replaces a newer list | `zookeeper.py:65` | `OfferedToolsStay` with `firm` growing at every publication |
| A call without arguments fails in REST, for `''` is no JSON | `rest.py:49` | `ArgumentsReach` of `ToolCall` |
| OpenAI's models are offered and never found | `provider_abc.py:49` | `OfferedIsAvailable` without `OpenAI` |
| A model entry without an id, at any provider, makes the chat tasks of all conversations raise until that provider gives a readable answer | `provider_abc.py:50` | `OfferedIsAvailable` asked of turns that are "raised" too |
| A client that reconnects while a tool runs is told of no task; what it then sends reports the running call with an empty output | `handler_web.py:60` | `NoRunningCallSent` without `aware` |
| Two responses of one provider at a time may launch a call twice, or for the other conversation | `v1messages.py:113`, `v1chatcompletition.py:241` | the clauses of `ItemsMirrorBlocks` on `runs`, in the instance of `streams_overlap` |
| A call that is stopped in its first `send_update`, or whose first `send_update` raises, stays "executing" for ever: that send is before the `try` | `svc_router.py:238` | read: `CallRaises` leaves the status alone there |
| A call that the provider left incomplete is executed | `v1response.py:320` | read: `V1Response.LaunchItem` has no guard on the status |
| Updates sent while a client mounts do not reach it | `handler_web.py:62` | `MountedIsCurrent` of `ClientView` |
| `get_conversation(create=True)` passes an argument that `create_conversation` does not take | `svc_router.py:103` | read: `Mounts` lets it raise |
| ping requires "host" and reads "target" | `local.py:31` | read |

## 6. Proofs

Each `_proofs` module proves, for all values of the constants that its hypotheses
admit, that the typing invariant holds and then the safety properties the runs check,
by an inductive invariant with one proof step per action.

**`AgentLoop_proofs`**: any sets of turns, calls and clients, any subset of clients
flaky, any number of slots and, but for the last theorem, both kinds of users, from
`TurnsDisjoint` (the identifiers of turns, calls and the items "user" and "text"
differ) and `IdsFinite` (counting tasks needs finite sets).

* `TypeCorrect`: `Spec => []TypeOK`.
* `RegistryCorrect`: `Spec => []Registry`. A task is in `tasks` exactly while it is
  created and its callback has not run, and a turn that a handler holds in
  `draft` has no task and is held by one handler. This is what `TypeOK` lacks to
  be useful: with it, every `Scheduled(k)` adds a task that was not there, and
  the task whose callback runs is one that is registered.
* `Implements`: `Spec => TakesTurns`: every step of the conversation is a step of
  `TurnTaking` or stutters on `tasks` and `loop_break`. The interesting ones are
  `CallFinishes` (the tool that sets the flag is still registered), `TaskRetires` and
  `LoopContinues`.
* `LoopStaysOwned` and `ContinuationIsSingle`: invariants that follow from the
  abstract steps alone, so they are proved on them and carried over. `LoopIsOwned`
  is inductive; `OneContinuation` is, as a continuation starts only when its
  opener, the last task, retires.
* `StopIsObeyed`: `StopSticks`. The inductive invariant is `Quiet`: after a quiet
  stop and before the next message `loop_break` stays on, no handler holds a
  message, and every registered task has ended or will raise outside the `try`
  block of a tool, so none can clear the flag.
* `BusyStaysShown`, `RestGetsShown`: of the counts that reached a client whose socket
  works, the last is positive while tasks exist, and zero once nothing runs and no
  notification is pending. The invariant `Shown` adds that a client that is not mounted has
  been told nothing. They need the cardinality lemmas and `LoopIsOwned`.
* `MessageGetsScheduled`: `MessageIsScheduled`. The invariant `Held` adds that a
  handler which is not between its two sends holds no message, and that while no
  send has failed no handler is about to raise: so the only way out of that place
  is `Posted`.
* `NoRunningCallGetsSent`: `NoRunningCallSent`, for the user it is about: `Polite`, and
  at most one client, since a second user may write in the time between two sends of
  the first. Two hypotheses on the constants, which the run `loop_polite` satisfies;
  everything else is free, so tools may run side by side, sends fail, and the user may
  stop, restart, leave and come back at will; only from the moment that he writes beside a
  task of which his connection was told nothing (`~aware`), until the conversation is at
  rest again, nothing is claimed. Its invariant `TakenInTurn` has three parts. `Serial`: a
  chat task that has not begun is the only task, and a message is being posted only
  when there is none; for a continuation this is what `on_task_done` tests, for a
  message it is what the UI shows (`BusyIsShown`). `Authored`: a call was written by a
  turn that has begun. `SentForGood`: a call reported in a request is at rest, and so
  is the turn that wrote it, which alone could still launch the call. The last clause
  is what makes it inductive, for a call at rest may not have been launched yet.

**`ClientView_proofs`**: any exchanges with any items, any number of clients. The
inductive invariant is `Told`, of three parts per client: `Pending` (an event that
waits tells the present version of its item and is the only one about it, because
its writer waits for it), `NotAhead` (nothing is shown before it exists or ahead
of what it is) and `Shows` (what no event is pending about, is not being written and
was not missed, is shown as it is). `SettledGetsSeen` follows, and so does
`NothingFallsBack`: an event delivered after a newer full update still tells the
present version, also when the tool fails and the status word goes back.

**`ToolCall_proofs`**: any consumers, tools and kinds of arguments, any number of
lines. `TypeCorrect` needs `ReadersSound` (what a completed task says is what its
reader can have seen, and there is a process whenever there is something to read
from). `CallHasALife`: `Spec => HasALife`, the refinement of `CallLife`, whatever status the
call arrives with, with the invariant `Living`: until the generator gives its result
nothing has failed and the status is that of its arrival or 'executing', and a tool that
replaces the content as a whole finds it empty.
`OutputGetsComplete`: `OutputIsComplete`, for any number of lines. Its
invariant `Drained` follows a ping through its loop: before the process runs there is
nothing (`Fresh`); in the loop the content tells the lines that `readline()` has
returned, except one that a completed task still holds, a pipe without a pending or
completed task is exhausted, and the exit status is left only when it is known
(`Draining`); so when the loop is over everything has been told (`Delivered`). What is
told is order as well as presence: `TellsMore` and `TellsOther` are the lemmas on
sequences for the line of one pipe and for the other. `FailureExplained`:
`FailureIsExplained`, and no step takes a failure back. That a call which fails has a
content is proved of the detailed steps, with the one exception that the code makes, a
microservice whose answer is mapped to an error without one; that it stays failed
follows from `CallLife`.

**`ModelProviders_proofs`**: any providers, models, clients, slots and bound on
changes. `OfferIsFresh` with `Witnessed`: while a client mounts, what is served, has
been answered or collected is among what was served since it came.
`OfferIsAvailable` with `Reliable`: a provider that has not changed answers all
clients the same, so whatever is offered of it is in its cache, however the
requests overlap, be they read to the end or not; `SearchKeeps` says that a search takes
nothing out of the other caches. `Typed` is `TypeOK` without the order of the waiters, which
neither theorem needs; `ModelsTyped` adds it, with a lemma on what remains of a queue
`Without` a client that leaves it. `LinesAreSound`: `LineIsSound` is inductive together
with the types. That is what the liveness of a wait rests on: a place in the line is
neither lost nor held by a task that is over. `WithoutKeeps` is its lemma: who stays in a
line is still there and no further back, so who runs goes on running in one of the slots.

**`ToolDiscovery_proofs`**: any nodes, any number of discoveries at the same time,
any bound on changes. `OfferStays` and `PublicationIsSound` with `Readers`: a
discovery that reads has listed, or already has, every tool that has been there since
its listing and every one that is firmly on offer, and has found nothing that was not
advertised. `SettledAtRest`: `RestIsSettled` with `Settling`, which says that, while no
node has changed since the connection came, all discoveries read the same: what is still
to be read is there, and what has been read has been found (`ReadsTheSame`). So it does
not matter which of them publishes last, and, with the path above the nodes in place, no
event is dropped before one does.

**`ItemStream_proofs`**: any set of responses. `ContractMirrors`: the steps of the
contract keep `ItemsMirrorBlocks`: item `b` holds all the deltas of block `b` and no
other, is completed only when the model has closed the block, and is launched at most
once, whole, by its own conversation; when the response has been read to its end,
every item is complete and every call launched. It is inductive together with types.

**`MCStreams_proofs`** and **`V1ChatCompletition_proofs`**: any number of responses,
blocks and deltas, each response cut anywhere. For each adapter one theorem says that
it keeps the contract (`MessagesKeepTheContract`, `ChatsKeepTheContract`,
`ResponsesKeepTheContract`: `MessagesMirror`, `ChatMirrors`, `ResponseMirrors`), and one
that it therefore mirrors the model and mixes no responses (`...DoNotCross`: the items of
such a response mirror its blocks, in every state, and hold no delta of another), by the
step lemma of `ItemStream_proofs` taken over through the refinement mapping.

* The two adapters that keep state on the provider admit any number of responses at a
  time (`Overlap`, 2 in the code). Their theorems are about each response that was read
  side by side with no other (`Stream \ shared`): whatever the others do to each other and
  leave on the provider, the reset at its beginning makes the state its own, and nobody
  writes to it before it is over (`Sharing`: while it is read, no other is). Of the responses that did overlap they say nothing,
  and `streams_overlap` shows why.
* `V1Response` needs that blocks come in turn and that no text delta comes without a
  block (`~Interleaved`, `~Misfires`: section 5 and the hazards tell what happens
  otherwise), but no bound on the responses read side by side.
* `OneByOne` is the part that `V1Messages` and `V1Response` share: all blocks but the
  last are closed, and their calls launched; what the handler is about to do to the
  last one has not been done yet. For `V1Messages`, `Points` adds that
  `_current_content_block` is the last block while that is open and none otherwise, also
  while an unknown block is open, and that the block a handler of `content_block_stop`
  holds is the last one. For `V1Response`, `RInv` adds
  the same of the item held; the last item of the open block's kind is then the last
  item of all (`LastOfKind`). User's messages before it do not disturb this.
* Calls of the Chat Completions stream stay open side by side until `finish_reason`,
  and `[DONE]` settles them once more, so `CInv` is about the dict: the call with
  rank `i` among the calls is entry `i + 1` (`Listed`; the rank of a block is a
  cardinality), the one text is the one `_current_assistant_message` refers to
  (`Texted`), each call waits, is announced or has been launched (`CReads`), and a
  loop over the dict stands between entries it has dealt with and entries it has
  not (`Halfway`). The dict cannot grow under the loop, as nothing is read meanwhile.
* `ResponsesNeverCross` needs neither of the conditions on `V1Response`: with blocks side
  by side and deltas that misfire, an event may reach the wrong item, but never one of
  another response, and no other conversation launches the call. It is the theorem that
  the other two adapters lack. Its invariant `XInv` adds to it where a delta and the item
  that a handler holds belong.
* `StoryIsTold`: `TellsTheStory`, for histories of any length. The invariant is only
  the shape of a conversation (`QType`); the work is in the requests, which flatten
  sequences of sequences. `SetInduction` is induction for a *set* of numbers, proved from
  `WFMin` and the well-foundedness of `<`, neither of which takes an operator for an
  argument. With it `FlattenSeqIs` says that the `CHOOSE` by which the community modules
  define `FlattenSeq` has the partial concatenations for its value, and `ReadFlatten` that
  reading distributes over them: entries that are read one item at a time are read
  correctly as a whole. `ResponseTells`, `MessagesTell` and `ChatTells` are then about
  one item, one per adapter.

Every invariant and every action property of the passing runs is stated by a theorem.
Only model-checked: liveness (`ResultTriggersLoop`, `LoopResumes`, `ComesToRest`,
`CallEnds`, `MountingEnds`, `WaitingEnds`, `SettlesOnceConnected`), which is
beyond the prover, as it needs `ENABLED`. The safety that three of them rest on is proved:
`ResultTriggersLoop` on `LoopIsOwned`, `WaitingEnds` on `LineIsSound`,
`SettlesOnceConnected` on `RestIsSettled`.

## 7. What is not modelled

* `update_instructions`: it sets a text that only requests read (`Requests` has it as
  a constant of a history). `get_tools` and `_build_tools`: the list of tools of a
  request, which is data of the conversation.
* The ping tick of the websocket handler, and the `GET` requests of the tool REST
  API: they read and send only.
* What the JSONata expressions of a REST definition compute: a request is sent or an
  expression raises, a response is mapped to an error or not.
* A provider with more than one model in common with others beyond the choice
  itself; the models a provider lists under a filter of its own are its models.
* Sends that are slow for ever, compressed frames, the text of items.
* What clients show of items that a restart removed: the other clients are not told,
  and nothing says what they should show.
* Two clients that mount at the same time and get their answers out of order leave
  the older one in the cache until the next mount; nothing says they should not.
* `ConversationStop` and friends are served one at a time per websocket, as the
  code's `async for` does; several websockets interleave freely.
* The application object: wiring, no state.

## 8. Plan

Done: the loop with its contract and proofs; the adapters and their contract, with a
proof for each; their requests, with a proof; calls with their contract and its proof, and
what it promises; mounting, models and slots; the views of clients; discovery. Next, in
this order:

1. A composition of `AgentLoop` and `ClientView`, so that failing sends and views
   meet in one model.
2. `update_instructions` and the tools of a conversation against those that
   `execute` finds later.
