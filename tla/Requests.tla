------------------------------ MODULE Requests ------------------------------
(***************************************************************************)
(* How the three adapters lay out a conversation in a request to the model *)
(* (the first part of each chat_request).  The model is chosen with every  *)
(* message, so one conversation may be told through all three; whichever   *)
(* it is, the model must be told the same story.                           *)
(*                                                                         *)
(* Adapters: "response", "messages" and "chat".                            *)
(***************************************************************************)
EXTENDS Naturals, SequencesExt

CONSTANTS
  MaxExchanges,  \* bound: exchanges
  MaxItems       \* bound: items ever made

Adapter == {"response", "messages", "chat"}
Kind == {"user", "text", "reasoning", "call"}

VARIABLES
  exchanges,     \* sequence of exchanges, each with its items in order
  live,          \* per exchange: its chat task is still streaming
  made,          \* items made so far; the next one's identity
  instructions   \* whether conversation.instructions has any text

vars == <<exchanges, live, made, instructions>>

\* Arguments of a call as far as they have been received: '', the beginning of
\* a JSON text, or all of it.  output: what its tool has put into content.
New(kind) == [kind |-> kind, id |-> made + 1, arguments |-> "", output |-> ""]

Init ==
  /\ exchanges = <<>> /\ live = <<>>
  /\ made = 0
  /\ instructions \in BOOLEAN

-----------------------------------------------------------------------------
\* How the conversation comes about.

\* create_exchange(): a message of the user; on_task_done(): an empty exchange.
OpenExchange ==
  /\ Len(exchanges) < MaxExchanges
  /\ \/ /\ made < MaxItems
        /\ exchanges' = Append(exchanges, <<New("user")>>)
        /\ made' = made + 1
     \/ exchanges # <<>> /\ exchanges' = Append(exchanges, <<>>) /\ UNCHANGED made
  /\ live' = Append(live, TRUE)
  /\ UNCHANGED instructions

\* The response adds an item to its exchange.
AddItem(e) ==
  /\ live[e] /\ made < MaxItems
  /\ \E kind \in Kind \ {"user"} :
       exchanges' = [exchanges EXCEPT ![e] = Append(@, New(kind))]
  /\ made' = made + 1
  /\ UNCHANGED <<live, instructions>>

\* Arguments arrive, in one piece or more; a call may have none at all.
ReceiveArguments(e, k) ==
  /\ live[e]
  /\ exchanges[e][k].kind = "call" /\ exchanges[e][k].arguments # "{...}"
  /\ exchanges[e][k].output = ""
  /\ \E a \in {"{...", "{...}"} : exchanges' = [exchanges EXCEPT ![e][k].arguments = a]
  /\ UNCHANGED <<live, made, instructions>>

\* The tool of a call, which may run while its response goes on or is over.
ReceiveOutput(e, k) ==
  /\ exchanges[e][k].kind = "call" /\ exchanges[e][k].arguments # "{..."
  /\ exchanges' = [exchanges EXCEPT ![e][k].output = "result"]
  /\ UNCHANGED <<live, made, instructions>>

\* The response is complete, or the stream breaks off or is stopped.
EndResponse(e) ==
  /\ live[e]
  /\ live' = [live EXCEPT ![e] = FALSE]
  /\ UNCHANGED <<exchanges, made, instructions>>

\* conversation.restart; the items of a removed exchange are told no more.
Restart(e) ==
  /\ \A i \in 1..e : exchanges[i] # <<>>
  /\ exchanges' = SubSeq(exchanges, 1, e - 1)
  /\ live' = SubSeq(live, 1, e - 1)
  /\ UNCHANGED <<made, instructions>>

-----------------------------------------------------------------------------
\* The requests.

\* for exch in conversation.exchanges: for item in exch.items
Items == FlattenSeq(exchanges)
Laid(Entries(_)) == FlattenSeq([k \in DOMAIN Items |-> Entries(Items[k])])

Role(item) == IF item.kind = "user" THEN "user" ELSE "assistant"

ResponseEntries(item) ==
  CASE item.kind \in {"user", "text"} -> <<[role |-> Role(item), content |-> item.id]>>
    [] item.kind = "reasoning" -> <<>>
    [] item.kind = "call" ->
         <<[type |-> "function_call", call_id |-> item.id, arguments |-> item.arguments],
           [type |-> "function_call_output", call_id |-> item.id, output |-> item.output]>>

\* Defect: a call without a result is left out, but its result is not.
ChatEntriesHalf(item) ==
  CASE item.kind \in {"user", "text"} -> <<[role |-> Role(item), content |-> item.id]>>
    [] item.kind = "reasoning" -> <<>>
    [] item.kind = "call" ->
         (IF item.output = "" THEN <<>> ELSE
         <<[role |-> "assistant", tool_calls |-> <<[id |-> item.id, arguments |-> item.arguments]>>]>>)
         \o <<[role |-> "tool", tool_call_id |-> item.id, content |-> item.output]>>

ChatEntries(item) ==
  CASE item.kind \in {"user", "text"} -> <<[role |-> Role(item), content |-> item.id]>>
    [] item.kind = "reasoning" -> <<>>
    [] item.kind = "call" ->
         <<[role |-> "assistant", tool_calls |-> <<[id |-> item.id, arguments |-> item.arguments]>>],
           [role |-> "tool", tool_call_id |-> item.id, content |-> item.output]>>

\* json.loads(item.arguments) if item.arguments else {}
Input(arguments) == IF arguments = "" THEN "{}" ELSE arguments
Parses(item) == item.kind = "call" => item.arguments # "{..."

MessagesEntries(item) ==
  CASE item.kind \in {"user", "text"} -> <<[role |-> Role(item), text |-> item.id]>>
    [] item.kind = "reasoning" -> <<>>
    [] item.kind = "call" ->
         <<[role |-> "assistant", tool_use |-> [id |-> item.id, input |-> Input(item.arguments)]],
           [role |-> "user", tool_result |-> [tool_use_id |-> item.id, content |-> item.output]]>>

ResponseRequest == [instructions |-> instructions, input |-> Laid(ResponseEntries)]

\* The instructions are the first message, if there are any.
ChatRequest ==
  [messages |-> (IF instructions THEN <<[role |-> "system"]>> ELSE <<>>) \o Laid(ChatEntries)]

MessagesRequest == [system |-> instructions, messages |-> Laid(MessagesEntries)]

\* json.loads() raises: the chat task ends before it has sent anything.
MessagesRaises == \E k \in DOMAIN Items : ~Parses(Items[k])

-----------------------------------------------------------------------------
Next ==
  \/ OpenExchange
  \/ \E e \in DOMAIN exchanges :
       \/ AddItem(e) \/ EndResponse(e) \/ Restart(e)
       \/ \E k \in DOMAIN exchanges[e] : ReceiveArguments(e, k) \/ ReceiveOutput(e, k)

Spec == Init /\ [][Next]_vars

-----------------------------------------------------------------------------
\* What a model reads in a request, in the terms of the conversation.

Said(role, id) == [who |-> role, what |-> id]
Called(id, arguments) == [call |-> id, arguments |-> Input(arguments)]
Returned(id, output) == [call |-> id, output |-> output]

Understood(entry) ==
  LET has == DOMAIN entry IN
  CASE "arguments" \in has    -> Called(entry.call_id, entry.arguments)
    [] "output" \in has       -> Returned(entry.call_id, entry.output)
    [] "tool_calls" \in has   -> Called(entry.tool_calls[1].id, entry.tool_calls[1].arguments)
    [] "tool_call_id" \in has -> Returned(entry.tool_call_id, entry.content)
    [] "tool_use" \in has     -> Called(entry.tool_use.id, entry.tool_use.input)
    [] "tool_result" \in has  -> Returned(entry.tool_result.tool_use_id, entry.tool_result.content)
    [] "text" \in has         -> Said(entry.role, entry.text)
    [] OTHER                  -> Said(entry.role, entry.content)

Read(entries) == [k \in DOMAIN entries |-> Understood(entries[k])]

\* The story of a conversation: what user and model said, in order, and every
\* call followed by its result; reasoning is private to the turn.
Story ==
  LET Told(item) ==
        CASE item.kind \in {"user", "text"} -> <<Said(Role(item), item.id)>>
          [] item.kind = "call" -> <<Called(item.id, item.arguments), Returned(item.id, item.output)>>
          [] item.kind = "reasoning" -> <<>>
  IN FlattenSeq([k \in DOMAIN Items |-> Told(Items[k])])

\* A request tells the story of the conversation, after its instructions, whichever
\* adapter serves the model the user has chosen and whichever wrote the history.
TellsTheStory ==
  /\ Read(ResponseRequest.input) = Story
  /\ ~MessagesRaises => Read(MessagesRequest.messages) = Story
  /\ LET messages == ChatRequest.messages
         opening == IF instructions THEN 1 ELSE 0
     IN /\ \A k \in DOMAIN messages : messages[k].role = "system" <=> k <= opening
        /\ Read(SubSeq(messages, opening + 1, Len(messages))) = Story

\* Once no response is being streamed, the conversation can be put into a
\* request: it waits for the next message of the user and can serve it.
NextMessageIsServed == (\A e \in DOMAIN live : ~live[e]) => ~MessagesRaises

=============================================================================
