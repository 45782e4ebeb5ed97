--------------------------- MODULE ProviderStream ---------------------------
(***************************************************************************)
(* What the three provider adapters have in common: responses that the     *)
(* model sends block by block and that chat_request() reads event by       *)
(* event, suspended while it waits for an event or for send_update().      *)
(* Between two suspensions a handler is atomic, but handlers of different  *)
(* responses interleave: a provider's Semaphore lets two of them run.      *)
(***************************************************************************)
EXTENDS Naturals, Sequences, FiniteSets

CONSTANTS
  Stream,      \* the responses read through one provider object
  MaxBlocks,   \* bound: blocks in a response
  MaxDeltas    \* bound: deltas in a block

VARIABLES
  said,    \* per response, the blocks the model has sent so far
  items,   \* per response, the items of its exchange
  pc       \* where the chat task that reads a response is suspended

base == <<said, items, pc>>

None == <<>>   \* Python's None where a reference <<s, i>> to items[s][i] may be

Active == {s \in Stream : pc[s] \notin {"idle", "done", "cut"}}

phase == [s \in Stream |-> IF s \in Active THEN "open" ELSE pc[s]]

\* The adapters' common contract.
IS == INSTANCE ItemStream

BaseInit ==
  /\ said = [s \in Stream |-> <<>>]
  /\ items = [s \in Stream |-> <<>>]
  /\ pc = [s \in Stream |-> "idle"]

Goto(s, where) == pc' = [pc EXCEPT ![s] = where]

\* --- What the model sends. ---

Says(s, k) ==
  /\ Len(said[s]) < MaxBlocks
  /\ said' = [said EXCEPT ![s] = Append(@, IS!Block(k))]

SaysMore(s, b) ==
  /\ ~said[s][b].closed /\ said[s][b].deltas < MaxDeltas
  /\ said' = [said EXCEPT ![s][b].deltas = @ + 1]

Closes(s, b) ==
  /\ ~said[s][b].closed
  /\ said' = [said EXCEPT ![s][b].closed = TRUE]

OpenBlocks(s) == {b \in DOMAIN said[s] : ~said[s][b].closed}

\* --- What an adapter does with the items; r = <<s, i>> refers to items[s][i]. ---

At(r) == items[r[1]][r[2]]

Absorb(r, fragment) == items' = [items EXCEPT ![r[1]][r[2]].content = Append(@, fragment)]

End(r, how) == items' = [items EXCEPT ![r[1]][r[2]].status = how]

Complete(r) == End(r, "completed")

NewItem(s, k) == items' = [items EXCEPT ![s] = Append(@, IS!Item(k))]

\* create_function_call() by the task that reads s.
Run(r, s) == items' = [items EXCEPT ![r[1]][r[2]].runs = Append(@, s)]

=============================================================================
