----------------------------- MODULE V1Response -----------------------------
(***************************************************************************)
(* llm/provider/v1response.py: the OpenAI Responses adapter.  It keeps no  *)
(* state of its own: an event is applied to the last item of its kind in   *)
(* the exchange, and a user message is of kind "message" as well.          *)
(***************************************************************************)
EXTENDS ProviderStream

CONSTANTS
  ByUser,       \* the responses whose exchange was opened by a user message
  Interleaved,  \* TRUE: the model may send several blocks at a time
  Misfires      \* TRUE: the model sends blank text deltas for no block

VARIABLES
  wording,   \* per response, what was appended to the user's message
  held       \* per response, the local variable `item' of output_item.done

vars == <<said, items, pc, wording, held>>

Init ==
  /\ BaseInit
  /\ wording = [s \in Stream |-> <<>>]
  /\ held = [s \in Stream |-> None]

Begin(s) ==
  /\ pc[s] = "idle"
  /\ Goto(s, "reading")
  /\ UNCHANGED <<said, items, wording, held>>

OfKind(s, k) == {i \in DOMAIN items[s] : items[s][i].kind = k}

\* Defect: the items are searched from the front.
IsFirst(s, k, i) == i \in OfKind(s, k) /\ \A j \in OfKind(s, k) : i <= j

\* Exchange.get_last_item(k) is item i; 0 stands for the user's message, which
\* is the first item and has the kind "message".
IsLast(s, k, i) ==
  \/ i \in OfKind(s, k) /\ \A j \in OfKind(s, k) : j <= i
  \/ i = 0 /\ OfKind(s, k) = {} /\ k = "message" /\ s \in ByUser

\* response.output_item.added
ItemAdded(s, k) ==
  /\ pc[s] = "reading" /\ (Interleaved \/ OpenBlocks(s) = {})
  /\ Says(s, k)
  /\ NewItem(s, k)
  /\ Goto(s, "emitting")
  /\ UNCHANGED <<wording, held>>

\* response.output_text.delta and response.reasoning_text.delta; a call's
\* function_call_arguments.done carries all its arguments and sends no update.
ItemDelta(s, b) ==
  /\ pc[s] = "reading"
  /\ SaysMore(s, b)
  /\ \E i \in 1..Len(items[s]) :
       /\ IsLast(s, said[s][b].kind, i)
       /\ \/ /\ said[s][b].kind # "function_call"
             /\ Absorb(<<s, i>>, <<s, b>>)
             /\ Goto(s, "emitting")
          \/ /\ said[s][b].kind = "function_call" /\ said[s][b].deltas = 0
             /\ items' = [items EXCEPT ![s][i].content = <<<<s, b>>>>]
             /\ UNCHANGED pc
  /\ UNCHANGED <<wording, held>>

\* A blank output_text.delta that belongs to no block: ignored if the exchange
\* has no message, appended to its last message otherwise.
Misfire(s) ==
  /\ Misfires /\ pc[s] = "reading"
  /\ \E i \in 0..Len(items[s]) :
       /\ IsLast(s, "message", i)
       /\ \/ i = 0 /\ wording' = [wording EXCEPT ![s] = Append(@, "blank")] /\ UNCHANGED items
          \/ i > 0 /\ Absorb(<<s, i>>, <<s, 0>>) /\ UNCHANGED wording
  /\ Goto(s, "emitting")
  /\ UNCHANGED <<said, held>>

\* response.output_item.done, up to its update: the item's status is the event's.
ItemDone(s, b) ==
  /\ pc[s] = "reading"
  /\ Closes(s, b)
  /\ \E i \in 1..Len(items[s]) :
       /\ IsLast(s, said[s][b].kind, i)
       /\ \E how \in IS!Outcome : End(<<s, i>>, how)
       /\ held' = [held EXCEPT ![s] = <<s, i>>]
  /\ Goto(s, "closing")
  /\ UNCHANGED wording

\* The rest of output_item.done: a call is launched whatever its status.
LaunchItem(s) ==
  /\ pc[s] = "closing" /\ At(held[s]).kind = "function_call"
  /\ Run(held[s], s)
  /\ Goto(s, "emitting")
  /\ UNCHANGED <<said, wording, held>>

Emitted(s) ==
  /\ \/ pc[s] = "emitting"
     \/ pc[s] = "closing" /\ At(held[s]).kind # "function_call"
  /\ Goto(s, "reading")
  /\ UNCHANGED <<said, items, wording, held>>

Finish(s) ==
  /\ pc[s] = "reading" /\ OpenBlocks(s) = {}
  /\ Goto(s, "done")
  /\ UNCHANGED <<said, items, wording, held>>

Cut(s) ==
  /\ s \in Active
  /\ Goto(s, "cut")
  /\ UNCHANGED <<said, items, wording, held>>

Next ==
  \E s \in Stream :
    \/ Begin(s) \/ Misfire(s) \/ LaunchItem(s) \/ Emitted(s) \/ Finish(s) \/ Cut(s)
    \/ \E k \in IS!Kind : ItemAdded(s, k)
    \/ \E b \in DOMAIN said[s] : ItemDelta(s, b) \/ ItemDone(s, b)

Spec == Init /\ [][Next]_vars

\* The code leaves the user's own words alone.
UserWordsKept == \A s \in Stream : wording[s] = <<>>

=============================================================================
