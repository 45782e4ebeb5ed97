----------------------------- MODULE ItemStream -----------------------------
(***************************************************************************)
(* What a provider adapter promises of the responses it reads: the items   *)
(* of an exchange mirror the blocks the model has sent, nothing of one     *)
(* response turns up in another, and every function call the model closes  *)
(* is launched once, by its own conversation.                              *)
(***************************************************************************)
EXTENDS Naturals, Sequences

CONSTANT Stream   \* the responses, one per exchange

VARIABLES
  said,    \* per response, the blocks the model has sent
  items,   \* per response, the items of its exchange
  phase    \* "idle", "open", "done" (read to its end) or "cut"

vars == <<said, items, phase>>

Kind == {"message", "reasoning", "function_call"}

Block(k) == [kind |-> k, deltas |-> 0, closed |-> FALSE]

\* content: the deltas an item has absorbed, each as <<response, block>>;
\* runs: the responses whose conversation launched the call.
Item(k) == [kind |-> k, content |-> <<>>, status |-> "in_progress", runs |-> <<>>]

Init ==
  /\ said = [s \in Stream |-> <<>>]
  /\ items = [s \in Stream |-> <<>>]
  /\ phase = [s \in Stream |-> "idle"]

Begin(s) ==
  /\ phase[s] = "idle"
  /\ phase' = [phase EXCEPT ![s] = "open"]
  /\ UNCHANGED <<said, items>>

Open(s, k) ==
  /\ phase[s] = "open"
  /\ said' = [said EXCEPT ![s] = Append(@, Block(k))]
  /\ items' = [items EXCEPT ![s] = Append(@, Item(k))]
  /\ UNCHANGED phase

Extend(s, b) ==
  /\ phase[s] = "open" /\ b \in DOMAIN items[s] /\ ~said[s][b].closed
  /\ said' = [said EXCEPT ![s][b].deltas = @ + 1]
  /\ items' = [items EXCEPT ![s][b].content = Append(@, <<s, b>>)]
  /\ UNCHANGED phase

Closed(blocks, J) ==
  [b \in DOMAIN blocks |-> [blocks[b] EXCEPT !.closed = @ \/ b \in J]]

Ended(its, I, how) ==
  [b \in DOMAIN its |-> IF b \in I THEN [its[b] EXCEPT !.status = how] ELSE its[b]]

\* What becomes of an item: the model may break off in the middle of one.
Outcome == {"completed", "incomplete"}

\* The model closes the blocks in J; the items in I are marked so.
Settle(s, J, I, how) ==
  /\ phase[s] = "open"
  /\ said' = [said EXCEPT ![s] = Closed(@, J)]
  /\ items' = [items EXCEPT ![s] = Ended(@, I, how)]
  /\ \A b \in I : said'[s][b].closed
  /\ UNCHANGED phase

Launch(s, b) ==
  /\ phase[s] = "open" /\ b \in DOMAIN items[s]
  /\ items[s][b].kind = "function_call" /\ items[s][b].status # "in_progress"
  /\ items[s][b].runs = <<>>
  /\ items' = [items EXCEPT ![s][b].runs = <<s>>]
  /\ UNCHANGED <<said, phase>>

\* A response is read to its end only when all it said has been settled.
Finish(s) ==
  /\ phase[s] = "open"
  /\ \A b \in DOMAIN items[s] :
       /\ items[s][b].status # "in_progress"
       /\ items[s][b].kind = "function_call" => items[s][b].runs = <<s>>
  /\ phase' = [phase EXCEPT ![s] = "done"]
  /\ UNCHANGED <<said, items>>

\* The connection fails, a monitor fails, or the conversation is stopped.
Cut(s) ==
  /\ phase[s] = "open"
  /\ phase' = [phase EXCEPT ![s] = "cut"]
  /\ UNCHANGED <<said, items>>

Step(s) ==
  \/ Begin(s) \/ Finish(s) \/ Cut(s)
  \/ \E k \in Kind : Open(s, k)
  \/ \E b \in DOMAIN items[s] : Extend(s, b) \/ Launch(s, b)
  \/ \E J, I \in SUBSET DOMAIN items[s], how \in Outcome : Settle(s, J, I, how)

\* What the contract asks for the sake of response s alone.
Follows(s) == [Step(s)]_<<said[s], items[s], phase[s]>>

Next == \E s \in Stream : Step(s)

Spec == Init /\ [][Next]_vars

-----------------------------------------------------------------------------
\* Item b of response s is its block b: it holds all its deltas, in their order, and
\* nothing else, and is launched only when it is whole.
IsMirror(s, b) ==
  LET block == said[s][b]  item == items[s][b] IN
  /\ item.kind = block.kind
  /\ item.content = [i \in 1..block.deltas |-> <<s, b>>]
  /\ item.status # "in_progress" => block.closed
  /\ item.runs # <<>> =>
       item.runs = <<s>> /\ item.kind = "function_call" /\ item.status # "in_progress"

\* Nothing is left open when a response has been read.
Mirrors(s) ==
  /\ DOMAIN items[s] = DOMAIN said[s]
  /\ \A b \in DOMAIN items[s] :
       /\ IsMirror(s, b)
       /\ phase[s] = "done" =>
            /\ items[s][b].status # "in_progress"
            /\ items[s][b].kind = "function_call" => items[s][b].runs = <<s>>

\* What the contract is for: the items mirror the blocks, and every closed call of
\* a response that has been read was launched once.
ItemsMirrorBlocks == \A s \in Stream : Mirrors(s)

=============================================================================
