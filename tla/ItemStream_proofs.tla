------------------------- MODULE ItemStream_proofs -------------------------
(***************************************************************************)
(* Proofs about ItemStream: what follows from its steps alone, and so for  *)
(* every adapter that keeps the contract.                                  *)
(***************************************************************************)
EXTENDS ItemStream, SequenceTheorems, TLAPS

BlockType == [kind : Kind, deltas : Nat, closed : BOOLEAN]

ItemType == [kind : Kind, content : Seq(Stream \X Nat),
             status : {"in_progress", "completed", "incomplete"}, runs : Seq(Stream)]

TypeOK ==
  /\ said \in [Stream -> Seq(BlockType)]
  /\ items \in [Stream -> Seq(ItemType)]
  /\ DOMAIN phase = Stream

IInv == TypeOK /\ ItemsMirrorBlocks

LEMMA InitHolds == Init => IInv
BY DEF Init, IInv, TypeOK, ItemsMirrorBlocks, Mirrors

-----------------------------------------------------------------------------
\* A step of one response.

\* The blocks and items of a response, as a step finds them.
LEMMA Shape ==
  ASSUME TypeOK, NEW s \in Stream, Mirrors(s)
  PROVE  /\ said[s] \in Seq(BlockType) /\ items[s] \in Seq(ItemType) /\ Mirrors(s)
         /\ Len(said[s]) \in Nat /\ Len(items[s]) = Len(said[s])
         /\ DOMAIN said[s] = 1..Len(said[s]) /\ DOMAIN items[s] = 1..Len(said[s])
         /\ \A b \in 1..Len(said[s]) :
              said[s][b] \in BlockType /\ items[s][b] \in ItemType /\ IsMirror(s, b)
<1>1. said[s] \in Seq(BlockType) /\ items[s] \in Seq(ItemType) /\ Mirrors(s)
  BY DEF TypeOK
<1>2. /\ Len(said[s]) \in Nat /\ Len(items[s]) \in Nat
      /\ DOMAIN said[s] = 1..Len(said[s]) /\ DOMAIN items[s] = 1..Len(items[s])
  BY <1>1
<1>3. Len(items[s]) = Len(said[s])
  BY <1>1, <1>2 DEF Mirrors
<1> QED
  BY <1>1, <1>2, <1>3 DEF Mirrors

LEMMA PhaseStep ==
  ASSUME TypeOK, NEW s \in Stream, Mirrors(s), Begin(s) \/ Finish(s) \/ Cut(s)
  PROVE  TypeOK' /\ Mirrors(s)'
<1>1. UNCHANGED <<said, items>> /\ DOMAIN phase' = Stream /\ \A t \in Stream \ {s} : phase'[t] = phase[t]
  BY DEF Begin, Finish, Cut, TypeOK
<1>2. phase'[s] = "done" => \A b \in DOMAIN items[s] :
        /\ items[s][b].status # "in_progress"
        /\ items[s][b].kind = "function_call" => items[s][b].runs = <<s>>
  BY DEF Begin, Finish, Cut, TypeOK
<1>3. Mirrors(s)'
  BY <1>1, <1>2, Shape DEF Mirrors, IsMirror
<1> QED
  BY <1>1, <1>3 DEF TypeOK

LEMMA OpenStep ==
  ASSUME TypeOK, NEW s \in Stream, Mirrors(s), NEW k \in Kind, Open(s, k)
  PROVE  TypeOK' /\ Mirrors(s)'
<1> DEFINE n == Len(said[s])
<1>1. /\ n \in Nat /\ Len(items[s]) = n /\ DOMAIN said[s] = 1..n /\ DOMAIN items[s] = 1..n
      /\ said[s] \in Seq(BlockType) /\ items[s] \in Seq(ItemType)
      /\ \A b \in 1..n : IsMirror(s, b)
  BY Shape
<1>2. Block(k) \in BlockType /\ Item(k) \in ItemType
  BY DEF Block, Item, BlockType, ItemType
<1>3. /\ said' = [said EXCEPT ![s] = Append(said[s], Block(k))]
      /\ items' = [items EXCEPT ![s] = Append(items[s], Item(k))]
      /\ phase' = phase /\ phase[s] = "open"
  BY DEF Open
<1>4. /\ Append(said[s], Block(k)) \in Seq(BlockType) /\ Append(items[s], Item(k)) \in Seq(ItemType)
      /\ DOMAIN Append(said[s], Block(k)) = 1..(n + 1) /\ DOMAIN Append(items[s], Item(k)) = 1..(n + 1)
      /\ \A b \in 1..n : /\ Append(said[s], Block(k))[b] = said[s][b]
                         /\ Append(items[s], Item(k))[b] = items[s][b]
      /\ Append(said[s], Block(k))[n + 1] = Block(k) /\ Append(items[s], Item(k))[n + 1] = Item(k)
  BY <1>1, <1>2, AppendProperties
<1>5. /\ said' \in [Stream -> Seq(BlockType)] /\ items' \in [Stream -> Seq(ItemType)]
      /\ \A t \in Stream \ {s} : said'[t] = said[t] /\ items'[t] = items[t]
      /\ said'[s] = Append(said[s], Block(k)) /\ items'[s] = Append(items[s], Item(k))
  BY <1>3, <1>4 DEF TypeOK
<1>6. ASSUME NEW b \in 1..(n + 1) PROVE IsMirror(s, b)'
  <2>1. CASE b \in 1..n
    <3>1. IsMirror(s, b) /\ said'[s][b] = said[s][b] /\ items'[s][b] = items[s][b]
      BY <1>1, <1>4, <1>5, <2>1
    <3> QED
      BY ONLY <3>1 DEF IsMirror
  <2>2. CASE b = n + 1
    <3>1. said'[s][b] = Block(k) /\ items'[s][b] = Item(k)
      BY <1>4, <1>5, <2>2
    <3>2. /\ Block(k).kind = k /\ Block(k).deltas = 0
          /\ Item(k).kind = k /\ Item(k).content = <<>> /\ Item(k).runs = <<>>
          /\ Item(k).status = "in_progress"
      BY DEF Block, Item
    <3>3. [i \in 1..0 |-> <<s, b>>] = <<>>
      OBVIOUS
    <3> QED
      BY <3>1, <3>2, <3>3 DEF IsMirror
  <2> QED
    BY <1>1, <2>1, <2>2
<1>7. Mirrors(s)'
  BY <1>3, <1>4, <1>5, <1>6 DEF Mirrors
<1> QED
  BY <1>3, <1>5, <1>7 DEF TypeOK

\* One delta more.
LEMMA OneMore ==
  ASSUME NEW d \in Nat, NEW e
  PROVE  Append([i \in 1..d |-> e], e) = [i \in 1..(d + 1) |-> e]
<1> DEFINE q == [i \in 1..d |-> e]
           r == [i \in 1..(d + 1) |-> e]
<1>1. q \in Seq({e}) /\ Len(q) = d
  OBVIOUS
<1>2. /\ Append(q, e) \in Seq({e}) /\ Len(Append(q, e)) = d + 1
      /\ \A i \in 1..d : Append(q, e)[i] = q[i]
      /\ Append(q, e)[d + 1] = e
  BY <1>1, AppendProperties
<1>3. \A i \in 1..(d + 1) : Append(q, e)[i] = e
  <2>1. \A i \in 1..(d + 1) : i \in 1..d \/ i = d + 1
    OBVIOUS
  <2> QED
    BY <1>2, <2>1
<1>4. r \in Seq({e}) /\ Len(r) = d + 1 /\ \A i \in 1..(d + 1) : r[i] = e
  OBVIOUS
<1> HIDE DEF q, r
<1>5. Append(q, e) = r
  BY <1>2, <1>3, <1>4, SeqEqual
<1> QED
  BY <1>5 DEF q, r

LEMMA ExtendStep ==
  ASSUME TypeOK, NEW s \in Stream, Mirrors(s), NEW b \in DOMAIN items[s], Extend(s, b)
  PROVE  TypeOK' /\ Mirrors(s)'
<1> DEFINE n == Len(said[s])
           block == [said[s][b] EXCEPT !.deltas = said[s][b].deltas + 1]
           item == [items[s][b] EXCEPT !.content = Append(items[s][b].content, <<s, b>>)]
<1>1. /\ n \in Nat /\ Len(items[s]) = n /\ DOMAIN said[s] = 1..n /\ DOMAIN items[s] = 1..n
      /\ said[s] \in Seq(BlockType) /\ items[s] \in Seq(ItemType)
      /\ b \in 1..n /\ b \in Nat /\ said[s][b] \in BlockType /\ items[s][b] \in ItemType
      /\ \A a \in 1..n : IsMirror(s, a)
  BY Shape
<1>2. /\ said' = [said EXCEPT ![s] = [said[s] EXCEPT ![b] = block]]
      /\ items' = [items EXCEPT ![s] = [items[s] EXCEPT ![b] = item]]
      /\ phase' = phase /\ phase[s] = "open" /\ ~said[s][b].closed
  BY DEF Extend
<1>3. /\ block \in BlockType /\ block.kind = said[s][b].kind /\ block.closed = said[s][b].closed
      /\ block.deltas = said[s][b].deltas + 1 /\ said[s][b].deltas \in Nat
  BY <1>1 DEF BlockType
<1>4. /\ item \in ItemType /\ item.kind = items[s][b].kind /\ item.status = items[s][b].status
      /\ item.runs = items[s][b].runs /\ item.content = Append(items[s][b].content, <<s, b>>)
  <2>1. <<s, b>> \in Stream \X Nat /\ items[s][b].content \in Seq(Stream \X Nat)
    BY <1>1 DEF ItemType
  <2>2. Append(items[s][b].content, <<s, b>>) \in Seq(Stream \X Nat)
    BY <2>1
  <2> QED
    BY <1>1, <2>2 DEF ItemType
<1> HIDE DEF block, item
<1>5. /\ said' \in [Stream -> Seq(BlockType)] /\ items' \in [Stream -> Seq(ItemType)]
      /\ \A t \in Stream \ {s} : said'[t] = said[t] /\ items'[t] = items[t]
      /\ DOMAIN said'[s] = 1..n /\ DOMAIN items'[s] = 1..n
      /\ \A a \in 1..n \ {b} : said'[s][a] = said[s][a] /\ items'[s][a] = items[s][a]
      /\ said'[s][b] = block /\ items'[s][b] = item
  <2>1. /\ [said[s] EXCEPT ![b] = block] \in Seq(BlockType)
        /\ [items[s] EXCEPT ![b] = item] \in Seq(ItemType)
    BY <1>1, <1>3, <1>4, ExceptSeq
  <2>2. /\ said'[s] = [said[s] EXCEPT ![b] = block] /\ items'[s] = [items[s] EXCEPT ![b] = item]
        /\ said' \in [Stream -> Seq(BlockType)] /\ items' \in [Stream -> Seq(ItemType)]
        /\ \A t \in Stream \ {s} : said'[t] = said[t] /\ items'[t] = items[t]
    BY <1>2, <2>1 DEF TypeOK
  <2> QED
    BY <1>1, <2>2
<1>6. ASSUME NEW a \in 1..n PROVE IsMirror(s, a)'
  <2>1. CASE a # b
    <3>1. IsMirror(s, a) /\ said'[s][a] = said[s][a] /\ items'[s][a] = items[s][a]
      BY <1>1, <1>5, <2>1
    <3> QED
      BY ONLY <3>1 DEF IsMirror
  <2>2. CASE a = b
    <3>1. IsMirror(s, b)
      BY <1>1
    <3>2. item.content = [i \in 1..block.deltas |-> <<s, b>>]
      <4>1. items[s][b].content = [i \in 1..said[s][b].deltas |-> <<s, b>>]
        BY <3>1 DEF IsMirror
      <4>2. item.content = Append([i \in 1..said[s][b].deltas |-> <<s, b>>], <<s, b>>)
        BY <1>4, <4>1, Zenon
      <4>3. @ = [i \in 1..(said[s][b].deltas + 1) |-> <<s, b>>]
        BY <1>3, OneMore, Zenon
      <4> QED
        BY <1>3, <4>2, <4>3, Zenon
    <3>3. item.kind = block.kind /\ item.status = "in_progress" /\ item.runs = <<>>
      BY <1>2, <1>3, <1>4, <3>1 DEF IsMirror
    <3> QED
      BY <1>5, <2>2, <3>2, <3>3 DEF IsMirror
  <2> QED
    BY <2>1, <2>2
<1>7. Mirrors(s)'
  BY <1>2, <1>5, <1>6 DEF Mirrors
<1> QED
  BY <1>2, <1>5, <1>7 DEF TypeOK

LEMMA SettleStep ==
  ASSUME TypeOK, NEW s \in Stream, Mirrors(s), NEW J \in SUBSET DOMAIN items[s], NEW I \in SUBSET DOMAIN items[s],
         NEW how \in Outcome, Settle(s, J, I, how)
  PROVE  TypeOK' /\ Mirrors(s)'
<1> DEFINE n == Len(said[s])
           block(b) == [said[s][b] EXCEPT !.closed = said[s][b].closed \/ b \in J]
           item(b) == IF b \in I THEN [items[s][b] EXCEPT !.status = how] ELSE items[s][b]
<1>1. /\ n \in Nat /\ Len(items[s]) = n /\ DOMAIN said[s] = 1..n /\ DOMAIN items[s] = 1..n
      /\ said[s] \in Seq(BlockType) /\ items[s] \in Seq(ItemType)
      /\ \A b \in 1..n : said[s][b] \in BlockType /\ items[s][b] \in ItemType /\ IsMirror(s, b)
  BY Shape
<1>2. /\ said' = [said EXCEPT ![s] = [b \in 1..n |-> block(b)]]
      /\ items' = [items EXCEPT ![s] = [b \in 1..n |-> item(b)]]
      /\ phase' = phase /\ phase[s] = "open" /\ \A b \in I : said'[s][b].closed
  BY <1>1 DEF Settle, Closed, Ended
<1>3. \A b \in 1..n :
        /\ block(b) \in BlockType /\ block(b).kind = said[s][b].kind
        /\ block(b).deltas = said[s][b].deltas /\ (said[s][b].closed => block(b).closed)
        /\ item(b) \in ItemType /\ item(b).kind = items[s][b].kind
        /\ item(b).content = items[s][b].content /\ item(b).runs = items[s][b].runs
        /\ item(b).status = IF b \in I THEN how ELSE items[s][b].status
  BY <1>1 DEF BlockType, ItemType, Outcome
<1> HIDE DEF block, item
<1>4. /\ said' \in [Stream -> Seq(BlockType)] /\ items' \in [Stream -> Seq(ItemType)]
      /\ \A t \in Stream \ {s} : said'[t] = said[t] /\ items'[t] = items[t]
      /\ DOMAIN said'[s] = 1..n /\ DOMAIN items'[s] = 1..n
      /\ \A b \in 1..n : said'[s][b] = block(b) /\ items'[s][b] = item(b)
  <2>1. [b \in 1..n |-> block(b)] \in [1..n -> BlockType] /\ [b \in 1..n |-> item(b)] \in [1..n -> ItemType]
    BY <1>3
  <2>2. [b \in 1..n |-> block(b)] \in Seq(BlockType) /\ [b \in 1..n |-> item(b)] \in Seq(ItemType)
    BY <1>1, <2>1
  <2>3. said'[s] = [b \in 1..n |-> block(b)] /\ items'[s] = [b \in 1..n |-> item(b)]
    BY <1>2 DEF TypeOK
  <2>4. /\ said' \in [Stream -> Seq(BlockType)] /\ items' \in [Stream -> Seq(ItemType)]
        /\ \A t \in Stream \ {s} : said'[t] = said[t] /\ items'[t] = items[t]
    BY <1>2, <2>2 DEF TypeOK
  <2> QED
    BY <2>3, <2>4
<1>5. ASSUME NEW b \in 1..n PROVE IsMirror(s, b)'
  <2>1. IsMirror(s, b)
    BY <1>1
  <2>2. item(b).status # "in_progress" => block(b).closed
    BY <1>2, <1>3, <1>4, <2>1 DEF IsMirror
  <2>3. /\ item(b).kind = block(b).kind
        /\ item(b).content = [i \in 1..block(b).deltas |-> <<s, b>>]
        /\ item(b).runs # <<>> =>
             item(b).runs = <<s>> /\ item(b).kind = "function_call" /\ item(b).status # "in_progress"
    <3>1. how # "in_progress"
      BY DEF Outcome
    <3>2. item(b).content = [i \in 1..block(b).deltas |-> <<s, b>>]
      <4>1. /\ item(b).content = items[s][b].content /\ block(b).deltas = said[s][b].deltas
            /\ items[s][b].content = [i \in 1..said[s][b].deltas |-> <<s, b>>]
        BY <1>3, <2>1 DEF IsMirror
      <4> QED
        BY <4>1, Zenon
    <3> QED
      BY <1>3, <2>1, <3>1, <3>2 DEF IsMirror
  <2> QED
    BY <1>4, <2>2, <2>3 DEF IsMirror
<1>6. Mirrors(s)'
  BY <1>2, <1>4, <1>5 DEF Mirrors
<1> QED
  BY <1>2, <1>4, <1>6 DEF TypeOK

LEMMA LaunchStep ==
  ASSUME TypeOK, NEW s \in Stream, Mirrors(s), NEW b \in DOMAIN items[s], Launch(s, b)
  PROVE  TypeOK' /\ Mirrors(s)'
<1> DEFINE n == Len(said[s])
           item == [items[s][b] EXCEPT !.runs = <<s>>]
<1>1. /\ n \in Nat /\ Len(items[s]) = n /\ DOMAIN said[s] = 1..n /\ DOMAIN items[s] = 1..n
      /\ said[s] \in Seq(BlockType) /\ items[s] \in Seq(ItemType)
      /\ b \in 1..n /\ items[s][b] \in ItemType /\ \A a \in 1..n : IsMirror(s, a)
  BY Shape
<1>2. /\ said' = said /\ items' = [items EXCEPT ![s] = [items[s] EXCEPT ![b] = item]]
      /\ phase' = phase /\ phase[s] = "open"
      /\ items[s][b].kind = "function_call" /\ items[s][b].status # "in_progress"
  BY DEF Launch
<1>3. /\ item \in ItemType /\ item.kind = items[s][b].kind /\ item.status = items[s][b].status
      /\ item.runs = <<s>> /\ item.content = items[s][b].content
  <2>1. <<s>> \in Seq(Stream)
    OBVIOUS
  <2> QED
    BY <1>1, <2>1 DEF ItemType
<1> HIDE DEF item
<1>4. /\ items' \in [Stream -> Seq(ItemType)] /\ \A t \in Stream \ {s} : items'[t] = items[t]
      /\ DOMAIN items'[s] = 1..n /\ items'[s][b] = item
      /\ \A a \in 1..n \ {b} : items'[s][a] = items[s][a]
  <2>1. [items[s] EXCEPT ![b] = item] \in Seq(ItemType)
    BY <1>1, <1>3, ExceptSeq
  <2>2. /\ items'[s] = [items[s] EXCEPT ![b] = item]
        /\ items' \in [Stream -> Seq(ItemType)] /\ \A t \in Stream \ {s} : items'[t] = items[t]
    BY <1>2, <2>1 DEF TypeOK
  <2> QED
    BY <1>1, <2>2
<1>5. ASSUME NEW a \in 1..n PROVE IsMirror(s, a)'
  <2>1. IsMirror(s, a)
    BY <1>1
  <2>2. CASE a # b
    <3>1. said'[s][a] = said[s][a] /\ items'[s][a] = items[s][a]
      BY <1>2, <1>4, <2>2
    <3> QED
      BY ONLY <2>1, <3>1 DEF IsMirror
  <2>3. CASE a = b
    BY <1>2, <1>3, <1>4, <2>1, <2>3 DEF IsMirror
  <2> QED
    BY <2>2, <2>3
<1>6. Mirrors(s)'
  BY <1>1, <1>2, <1>4, <1>5 DEF Mirrors
<1>7. said' \in [Stream -> Seq(BlockType)] /\ \A t \in Stream \ {s} : said'[t] = said[t] /\ phase'[t] = phase[t]
  BY <1>2 DEF TypeOK
<1> QED
  BY <1>2, <1>4, <1>6, <1>7 DEF TypeOK

-----------------------------------------------------------------------------

LEMMA StepMirrors ==
  ASSUME TypeOK, NEW s \in Stream, Mirrors(s), Step(s)
  PROVE  TypeOK' /\ Mirrors(s)'
BY PhaseStep, OpenStep, ExtendStep, SettleStep, LaunchStep DEF Step

LEMMA SameMirrors ==
  ASSUME NEW s \in Stream, Mirrors(s), said'[s] = said[s], items'[s] = items[s], phase'[s] = phase[s]
  PROVE  Mirrors(s)'
<1>1. ASSUME NEW b \in DOMAIN items[s] PROVE IsMirror(s, b)'
  BY <1>1 DEF Mirrors, IsMirror
<1> QED
  BY <1>1 DEF Mirrors

LEMMA FollowingMirrors == ASSUME TypeOK, NEW s \in Stream, Mirrors(s), Follows(s) PROVE Mirrors(s)'
BY StepMirrors, SameMirrors DEF Follows

\* A step concerns one response.
LEMMA NextFollows == ASSUME TypeOK, [Next]_vars, NEW t \in Stream PROVE Follows(t)
<1>1. CASE Next
  <2>1. PICK s \in Stream : Step(s)
    BY <1>1 DEF Next
  <2>2. s # t => said'[t] = said[t] /\ items'[t] = items[t] /\ phase'[t] = phase[t]
    BY <2>1 DEF Step, Begin, Open, Extend, Settle, Launch, Finish, Cut, TypeOK
  <2> QED
    BY <2>1, <2>2 DEF Follows
<1>2. CASE UNCHANGED vars
  BY <1>2 DEF vars, Follows
<1> QED
  BY <1>1, <1>2

LEMMA StepKeeps == IInv /\ [Next]_vars => IInv'
<1> SUFFICES ASSUME IInv, [Next]_vars PROVE IInv'
  OBVIOUS
<1>1. TypeOK /\ \A t \in Stream : Mirrors(t)
  BY DEF IInv, ItemsMirrorBlocks
<1>2. \A t \in Stream : Mirrors(t)'
  BY <1>1, NextFollows, FollowingMirrors
<1>3. TypeOK'
  <2>1. CASE Next
    BY <1>1, <2>1, StepMirrors DEF Next
  <2>2. CASE UNCHANGED vars
    BY <1>1, <2>2 DEF vars, TypeOK
  <2> QED
    BY <2>1, <2>2
<1> QED
  BY <1>2, <1>3 DEF IInv, ItemsMirrorBlocks

\* Whatever keeps the contract mirrors the blocks in the items: no delta is lost,
\* moved or repeated, and a call is launched at most once, by its own conversation,
\* with all its arguments (what task_function_call(), svc_router.py, relies on).
THEOREM ContractMirrors == Spec => []ItemsMirrorBlocks
<1>1. IInv => ItemsMirrorBlocks
  BY DEF IInv
<1> QED
  BY <1>1, InitHolds, StepKeeps, PTL DEF Spec

=============================================================================
