----------------------------- MODULE V1Messages -----------------------------
(***************************************************************************)
(* llm/provider/v1messages.py: the Anthropic Messages adapter.  The block  *)
(* being read is kept on the provider object, not with the response.       *)
(***************************************************************************)
EXTENDS ProviderStream

CONSTANT Overlap   \* how many responses are read at a time (the Semaphore allows 2)

VARIABLES
  current,   \* self._current_content_block
  held,      \* per response, the local variable `item' of content_block_stop
  foreign    \* per response, the block of an unknown type that is open: 0 for
             \* none, otherwise 1 and the number of its deltas

vars == <<said, items, pc, current, held, foreign>>

Init ==
  /\ BaseInit
  /\ current = None
  /\ held = [s \in Stream |-> None]
  /\ foreign = [s \in Stream |-> 0]

\* The model sends one block after the other.
Between(s) == pc[s] = "reading" /\ OpenBlocks(s) = {} /\ foreign[s] = 0

\* Defect: the state of the response before stays.
BeginAsLeft(s) ==
  /\ pc[s] = "idle" /\ Cardinality(Active) < Overlap
  /\ Goto(s, "reading")
  /\ UNCHANGED <<said, items, current, held, foreign>>

\* The response headers have arrived: the state is reset.
Begin(s) ==
  /\ pc[s] = "idle" /\ Cardinality(Active) < Overlap
  /\ current' = None
  /\ Goto(s, "reading")
  /\ UNCHANGED <<said, items, held, foreign>>

\* content_block_start
BlockStart(s, k) ==
  /\ Between(s)
  /\ Says(s, k)
  /\ NewItem(s, k)
  /\ current' = <<s, Len(items[s]) + 1>>
  /\ Goto(s, "emitting")
  /\ UNCHANGED <<held, foreign>>

\* content_block_start of an unknown type: no item, and the current block stays.
ForeignStart(s) ==
  /\ Between(s)
  /\ foreign' = [foreign EXCEPT ![s] = 1]
  /\ UNCHANGED <<said, items, pc, current, held>>

\* content_block_delta of kind k: dropped when there is no current block, or when
\* it is of another kind; the arguments of a call are not sent to the clients.
Deliver(s, k, fragment) ==
  \/ /\ current # None /\ At(current).kind = k
     /\ Absorb(current, fragment)
     /\ Goto(s, IF k = "function_call" THEN "reading" ELSE "emitting")
  \/ /\ current # None => At(current).kind # k
     /\ UNCHANGED <<items, pc>>

BlockDelta(s) ==
  /\ pc[s] = "reading"
  /\ \E b \in OpenBlocks(s) : SaysMore(s, b) /\ Deliver(s, said[s][b].kind, <<s, b>>)
  /\ UNCHANGED <<current, held, foreign>>

\* The deltas of an unknown block may be of a known kind.
ForeignDelta(s) ==
  /\ pc[s] = "reading" /\ foreign[s] \in 1..MaxDeltas
  /\ foreign' = [foreign EXCEPT ![s] = @ + 1]
  /\ \E k \in IS!Kind : Deliver(s, k, <<s, 0>>)
  /\ UNCHANGED <<said, current, held>>

\* content_block_stop, up to its update: it ends the current block, whichever
\* block the model closes.
BlockStop(s) ==
  /\ pc[s] = "reading"
  /\ \/ \E b \in OpenBlocks(s) : Closes(s, b) /\ UNCHANGED foreign
     \/ foreign[s] > 0 /\ foreign' = [foreign EXCEPT ![s] = 0] /\ UNCHANGED said
  /\ held' = [held EXCEPT ![s] = current]
  /\ \/ current # None /\ Complete(current) /\ Goto(s, "closing")
     \/ current = None /\ UNCHANGED <<items, pc>>
  /\ UNCHANGED current

\* The rest of content_block_stop: a call is launched, the block is forgotten.
LaunchBlock(s) ==
  /\ pc[s] = "closing" /\ At(held[s]).kind = "function_call"
  /\ Run(held[s], s)
  /\ Goto(s, "launching")
  /\ UNCHANGED <<said, current, held, foreign>>

ForgetBlock(s) ==
  /\ \/ pc[s] = "closing" /\ At(held[s]).kind # "function_call"
     \/ pc[s] = "launching"
  /\ current' = None
  /\ Goto(s, "reading")
  /\ UNCHANGED <<said, items, held, foreign>>

Emitted(s) ==
  /\ pc[s] = "emitting"
  /\ Goto(s, "reading")
  /\ UNCHANGED <<said, items, current, held, foreign>>

Finish(s) ==
  /\ Between(s)
  /\ Goto(s, "done")
  /\ UNCHANGED <<said, items, current, held, foreign>>

\* The task is cancelled or raises; the provider's state stays as it is.
Cut(s) ==
  /\ s \in Active
  /\ Goto(s, "cut")
  /\ UNCHANGED <<said, items, current, held, foreign>>

Next ==
  \E s \in Stream :
    \/ Begin(s) \/ BlockDelta(s) \/ BlockStop(s) \/ LaunchBlock(s)
    \/ ForgetBlock(s) \/ Emitted(s) \/ Finish(s) \/ Cut(s)
    \/ ForeignStart(s) \/ ForeignDelta(s)
    \/ \E k \in IS!Kind : BlockStart(s, k)

Spec == Init /\ [][Next]_vars

=============================================================================
