--------------------- MODULE V1ChatCompletition_proofs ---------------------
(***************************************************************************)
(* Proofs about V1ChatCompletition, for any number of responses, blocks    *)
(* and deltas: it keeps the contract of ItemStream with every response     *)
(* that it does not read side by side with another.                        *)
(***************************************************************************)
EXTENDS MCStreams_proofs

-----------------------------------------------------------------------------
\* The rank of a call among the calls of its response.

CallsBefore(q, b) == {a \in 1..(b - 1) : q[a].kind = "function_call"}

Rank(q, b) == Cardinality(CallsBefore(q, b))

LEMMA RankIs == ASSUME NEW s, NEW b PROVE C!CallIndex(s, b) = Rank(said[s], b)
BY DEF C!CallIndex, C!Cardinality, Cardinality, Rank, CallsBefore

LEMMA RankFirst == ASSUME NEW q PROVE Rank(q, 1) = 0
<1>1. CallsBefore(q, 1) = {}
  BY DEF CallsBefore
<1> QED
  BY <1>1, FS_EmptySet DEF Rank

LEMMA RankNext ==
  ASSUME NEW q, NEW b \in Nat \ {0}
  PROVE  /\ Rank(q, b) \in Nat
         /\ q[b].kind = "function_call" => Rank(q, b + 1) = Rank(q, b) + 1
         /\ q[b].kind # "function_call" => Rank(q, b + 1) = Rank(q, b)
<1>1. IsFiniteSet(CallsBefore(q, b))
  <2>1. IsFiniteSet(1..(b - 1))
    BY FS_Interval
  <2>2. CallsBefore(q, b) \subseteq 1..(b - 1)
    BY DEF CallsBefore
  <2> QED
    BY <2>1, <2>2, FS_Subset
<1>2. Cardinality(CallsBefore(q, b)) \in Nat
  BY <1>1, FS_CardinalityType
<1>3. CallsBefore(q, b + 1) =
        IF q[b].kind = "function_call" THEN CallsBefore(q, b) \cup {b} ELSE CallsBefore(q, b)
  BY DEF CallsBefore
<1>4. b \notin CallsBefore(q, b)
  BY DEF CallsBefore
<1>5. Cardinality(CallsBefore(q, b) \cup {b}) = Cardinality(CallsBefore(q, b)) + 1
  BY <1>1, <1>4, FS_AddElement
<1> QED
  BY <1>2, <1>3, <1>5 DEF Rank

\* It depends on the kinds of the blocks before it.
LEMMA RankKept ==
  ASSUME NEW q, NEW r, NEW b \in Nat, \A a \in 1..(b - 1) : r[a].kind = q[a].kind
  PROVE  Rank(r, b) = Rank(q, b)
<1>1. CallsBefore(r, b) = CallsBefore(q, b)
  BY DEF CallsBefore
<1> QED
  BY <1>1 DEF Rank

-----------------------------------------------------------------------------
\* One response.

Entry == [index : Nat, ref : Stream \X Nat]

Iteration == [dict : {<<>>} \cup (Stream \X {"begin", "end"}),
              pos : Nat, size : Nat, final : BOOLEAN]

\* Its calls, in the order in which they came.
Line(s) == heap[<<s, "begin">>]

IsCall(s, b) == said[s][b].kind = "function_call"

\* The call with rank i is entry i + 1 of the dict.
Listed(s) ==
  LET n == Len(said[s]) IN
  /\ Len(Line(s)) = Rank(said[s], n + 1)
  /\ \A b \in 1..n : IsCall(s, b) =>
       /\ Rank(said[s], b) + 1 \in 1..Len(Line(s))
       /\ Line(s)[Rank(said[s], b) + 1].ref = <<s, b>>
  /\ \A p \in 1..Len(Line(s)) :
       /\ Line(s)[p].index = p - 1
       /\ \E b \in 1..n : IsCall(s, b) /\ Line(s)[p].ref = <<s, b>> /\ Rank(said[s], b) = p - 1

\* There is at most one text, and the message refers to it.
Texted(s) ==
  LET n == Len(said[s]) IN
  /\ \A b \in 1..n : said[s][b].kind \in {"message", "function_call"}
  /\ message = <<>> => \A b \in 1..n : IsCall(s, b)
  /\ message # <<>> => \E m \in 1..n : message = <<s, m>> /\ \A b \in 1..n : IsCall(s, b) <=> b # m

Waits(s, b) == items[s][b].status = "in_progress" /\ items[s][b].runs = <<>>
Launched(s, b) == items[s][b].status = "completed" /\ items[s][b].runs = <<s>>
Announced(s, b) ==
  /\ pc[s] = "sending" /\ Line(s)[loop[s].pos].ref = <<s, b>>
  /\ items[s][b].status = "completed" /\ items[s][b].runs = <<>>

AllOpen(s) == \A b \in 1..Len(said[s]) : ~said[s][b].closed /\ Waits(s, b)
AllClosed(s) == \A b \in 1..Len(said[s]) : said[s][b].closed

TextOver == message = <<>> \/ At(message).status # "in_progress"

\* What a loop l over the dict has left behind and has ahead of it.
Halfway(s, l) ==
  /\ l.dict = <<s, "begin">> /\ l.size = Len(Line(s)) /\ l.pos \in 0..Len(Line(s))
  /\ ~l.final => \A p \in 1..Len(Line(s)) : p > l.pos =>
       At(Line(s)[p].ref).status = "in_progress" /\ At(Line(s)[p].ref).runs = <<>>
  /\ l.final => TextOver /\ \A p \in 1..Len(Line(s)) : p <= l.pos =>
       At(Line(s)[p].ref).status # "in_progress"

CReads(s) ==
  /\ pc[s] \in {"reading", "emitting", "sending", "launching", "finalizing"}
  /\ calls = <<s, "begin">>
  /\ Listed(s) /\ Texted(s)
  /\ \/ pc[s] \in {"reading", "emitting"} /\ AllOpen(s)
     \/ AllClosed(s)
  /\ \A b \in 1..Len(said[s]) : IsCall(s, b) => Waits(s, b) \/ Launched(s, b) \/ Announced(s, b)
  /\ pc[s] \in {"sending", "launching"} => Halfway(s, loop[s]) /\ loop[s].pos > 0
  /\ pc[s] = "sending" =>
       LET item == At(Line(s)[loop[s].pos].ref) IN item.status = "completed" /\ item.runs = <<>>
  /\ pc[s] = "finalizing" => TextOver

\* What the provider object, the dicts and the suspended loops refer to belongs to
\* the responses that are read.
CHolds ==
  /\ Active # {} =>
       /\ calls \in Stream \X {"begin", "end"} /\ calls[1] \in shared \cup Active
       /\ message # <<>> => message[1] \in shared \cup Active
  /\ \A d \in Stream \X {"begin", "end"} :
       \A p \in DOMAIN heap[d] : heap[d][p].ref[1] \in shared \cup {d[1]}
  /\ \A s \in Active : pc[s] \in {"sending", "launching"} =>
       /\ loop[s].dict \in Stream \X {"begin", "end"} /\ loop[s].dict[1] \in shared \cup {s}
       /\ loop[s].pos \in DOMAIN heap[loop[s].dict]

\* As long as a response is read alone, its state is as CReads says.
CInv ==
  /\ BaseType
  /\ message \in Ref
  /\ heap \in [Stream \X {"begin", "end"} -> Seq(Entry)]
  /\ loop \in [Stream -> Iteration]
  /\ Sharing
  /\ \A s \in Stream \ shared : Paired(s) /\ (pc[s] = "idle" => said[s] = <<>> /\ Line(s) = <<>>)
  /\ \A s \in Active \ shared : CReads(s)
  /\ CHolds

LEMMA CInit == Init => CInv
BY DEF Init, C!Init, C!BaseInit, C!None, C!Dict, C!NoLoop, CInv, CHolds, Sharing, BaseType, Where,
       Ref, Active, Paired, Line, Iteration

\* What the blocks, items and entries of the response that is read look like.
LEMMA CShape ==
  ASSUME CInv, NEW s \in Active, s \notin shared
  PROVE  /\ s \in Stream /\ Active = {s} /\ BaseType /\ Paired(s) /\ CReads(s)
         /\ said[s] \in Seq(BlockType) /\ items[s] \in Seq(ItemType) /\ Line(s) \in Seq(Entry)
         /\ Len(said[s]) \in Nat /\ Len(items[s]) = Len(said[s]) /\ Len(Line(s)) \in Nat
         /\ DOMAIN said[s] = 1..Len(said[s]) /\ DOMAIN items[s] = 1..Len(said[s])
         /\ DOMAIN Line(s) = 1..Len(Line(s))
         /\ calls = <<s, "begin">> /\ heap[calls] = Line(s)
         /\ phase[s] = "open"
<1>1. s \in Stream /\ Active = {s} /\ BaseType /\ Paired(s) /\ CReads(s)
  BY DEF CInv, Sharing, Active
<1>2. said[s] \in Seq(BlockType) /\ items[s] \in Seq(ItemType) /\ Line(s) \in Seq(Entry)
  BY <1>1 DEF CInv, BaseType, Line
<1>3. /\ Len(said[s]) \in Nat /\ Len(items[s]) = Len(said[s]) /\ Len(Line(s)) \in Nat
      /\ DOMAIN said[s] = 1..Len(said[s]) /\ DOMAIN items[s] = 1..Len(said[s])
      /\ DOMAIN Line(s) = 1..Len(Line(s))
  BY <1>1, <1>2 DEF Paired
<1>4. calls = <<s, "begin">> /\ heap[calls] = Line(s)
  BY <1>1 DEF CReads, Line
<1>5. phase[s] = "open"
  BY <1>1 DEF phase
<1> QED
  BY <1>1, <1>2, <1>3, <1>4, <1>5

\* A step of the response that is read.
LEMMA CMoves ==
  ASSUME CInv, NEW s \in Active, s \notin shared, UNCHANGED shared, NEW w \in Where \ {"idle"}, pc' = [pc EXCEPT ![s] = w],
         said' \in [Stream -> Seq(BlockType)], items' \in [Stream -> Seq(ItemType)],
         \A t \in Stream \ {s} : said'[t] = said[t] /\ items'[t] = items[t],
         message' \in Ref, heap' \in [Stream \X {"begin", "end"} -> Seq(Entry)],
         \/ heap' = heap
         \/ /\ w \notin {"done", "cut"}
            /\ \A d \in (Stream \X {"begin", "end"}) \ {<<s, "begin">>} : heap'[d] = heap[d],
         loop' \in [Stream -> Iteration],
         Paired(s)', w \notin {"done", "cut"} => CReads(s)'
  PROVE  CInv'
<1>1. s \in Stream /\ Active' \subseteq {s} /\ Active = {s} /\ pc'[s] = w
  BY Suspends DEF CInv, BaseType, Sharing, Active
<1>2. BaseType'
  BY <1>1 DEF CInv, BaseType
<1>3. \A t \in Stream \ {s} : Line(t)' = Line(t)
  BY <1>1 DEF Line
<1>4. ASSUME NEW t \in Stream \ shared
      PROVE  Paired(t)' /\ (pc'[t] = "idle" => said'[t] = <<>> /\ Line(t)' = <<>>)
  <2>1. CASE t = s
    BY <1>1, <2>1
  <2>2. CASE t # s
    <3>1. said'[t] = said[t] /\ items'[t] = items[t] /\ pc'[t] = pc[t] /\ Line(t)' = Line(t)
      BY <1>3, <2>2 DEF CInv, BaseType
    <3>2. Paired(t) /\ (pc[t] = "idle" => said[t] = <<>> /\ Line(t) = <<>>)
      BY DEF CInv
    <3> QED
      BY ONLY <3>1, <3>2 DEF Paired
  <2> QED
    BY <2>1, <2>2
<1>5. s \in Active' => CReads(s)'
  BY <1>1 DEF Active
<1>6. Sharing'
  BY <1>1 DEF Sharing
<1>7. CHolds'
  <2>1. s \in Active' => /\ calls' = <<s, "begin">>
                         /\ message' # <<>> => message'[1] = s
    BY <1>5 DEF CReads, Texted
  <2>2. ASSUME NEW d \in Stream \X {"begin", "end"}, NEW p \in DOMAIN heap'[d]
        PROVE  heap'[d][p].ref[1] \in shared \cup {d[1]}
    <3>1. CASE heap'[d] = heap[d]
      BY <2>2, <3>1 DEF CInv, CHolds
    <3>2. CASE w \notin {"done", "cut"} /\ d = <<s, "begin">>
      <4>1. Listed(s)' /\ heap'[d] = Line(s)' /\ d[1] = s
        BY <3>2 DEF CReads, Line
      <4>2. Line(s)' \in Seq(Entry)
        BY <4>1
      <4>3. p \in 1..Len(Line(s)')
        BY <2>2, <4>1, <4>2
      <4>4. Line(s)'[p].ref[1] = s
        BY <4>1, <4>3 DEF Listed
      <4> QED
        BY <4>1, <4>4
    <3> QED
      BY <3>1, <3>2
  <2>3. ASSUME s \in Active', w \in {"sending", "launching"}
        PROVE  /\ loop'[s].dict = <<s, "begin">>
               /\ loop'[s].pos \in DOMAIN heap'[<<s, "begin">>]
    <3>1. /\ loop'[s].dict = <<s, "begin">> /\ loop'[s].pos \in 0..Len(Line(s)')
          /\ loop'[s].pos > 0
      BY <1>1, <1>5, <2>3 DEF CReads, Halfway
    <3>2. heap'[<<s, "begin">>] = Line(s)' /\ Line(s)' \in Seq(Entry)
      BY <1>1 DEF Line
    <3>3. DOMAIN Line(s)' = 1..Len(Line(s)') /\ Len(Line(s)') \in Nat
      BY <3>2
    <3> QED
      BY <3>1, <3>2, <3>3
  <2>4. <<s, "begin">> \in Stream \X {"begin", "end"} /\ <<s, "begin">>[1] = s
    BY <1>1
  <2>5. Active' # {} =>
          /\ calls' \in Stream \X {"begin", "end"} /\ calls'[1] \in shared' \cup Active'
          /\ message' # <<>> => message'[1] \in shared' \cup Active'
    BY <1>1, <2>1, <2>4
  <2>6. ASSUME NEW t \in Active', pc'[t] \in {"sending", "launching"}
        PROVE  /\ loop'[t].dict \in Stream \X {"begin", "end"} /\ loop'[t].dict[1] \in shared' \cup {t}
               /\ loop'[t].pos \in DOMAIN heap'[loop'[t].dict]
    <3>1. t = s /\ w \in {"sending", "launching"}
      BY <1>1, <2>6
    <3> QED
      BY <2>3, <2>4, <3>1
  <2> QED
    BY <2>2, <2>5, <2>6 DEF CHolds
<1> QED
  BY <1>1, <1>2, <1>4, <1>5, <1>6, <1>7 DEF CInv

-----------------------------------------------------------------------------
\* The chunks.

LEMMA CBegin ==
  ASSUME CInv, NEW s \in Stream, C!Begin(s), Remember
  PROVE  CInv' /\ \A t \in Stream \ shared' : IS!Follows(t)
<1>1. /\ pc[s] = "idle" /\ message' = <<>> /\ calls' = <<s, "begin">>
      /\ pc' = [pc EXCEPT ![s] = "reading"] /\ UNCHANGED <<said, items, heap, loop>>
  BY DEF C!Begin, C!Goto, C!None
<1>2. BaseType /\ Sharing /\ s \notin Active
  BY <1>1 DEF CInv, Active
<1>3. IS!Begin(s) /\ Active' = Active \cup {s}
  BY <1>1, <1>2, Starts
<1>4. /\ shared \subseteq shared' /\ Sharing'
      /\ Active = {} => shared' = shared
      /\ Active # {} => Active' \subseteq shared'
  BY <1>2, <1>3, SharesAll
<1>5. \A t \in Stream : IS!Follows(t)
  <2>1. IS!Next
    BY <1>3 DEF IS!Next, IS!Step
  <2> QED
    BY <1>2, <2>1, StepFollows
<1>6. BaseType' /\ message' \in Ref
  BY <1>1 DEF CInv, BaseType, Where, Ref
<1>7. \A t \in Stream \ shared' :
        Paired(t)' /\ (pc'[t] = "idle" => said'[t] = <<>> /\ Line(t)' = <<>>)
  BY <1>1, <1>4 DEF CInv, BaseType, Paired, Line
<1>8. CHolds'
  <2>1. pc'[s] = "reading" /\ \A t \in Active : t # s /\ pc'[t] = pc[t]
    BY <1>1, <1>2 DEF BaseType, Active
  <2>2. \A t \in Active' : pc'[t] \in {"sending", "launching"} => t \in Active /\ pc'[t] = pc[t]
    BY <1>3, <2>1
  <2> QED
    BY <1>1, <1>3, <1>4, <2>2 DEF CInv, CHolds
<1>9. \A t \in Active' \ shared' : CReads(t)'
  <2> SUFFICES ASSUME NEW t \in Active', t \notin shared' PROVE CReads(t)'
    OBVIOUS
  <2>1. t = s /\ s \notin shared
    BY <1>3, <1>4
  <2>2. /\ pc'[s] = "reading" /\ said'[s] = <<>> /\ Line(s)' = <<>>
        /\ Len(said'[s]) = 0 /\ Len(Line(s)') = 0
    BY <1>1, <2>1 DEF CInv, BaseType, Line
  <2>3. Len(Line(s)') = Rank(said'[s], Len(said'[s]) + 1)
    BY <2>2, RankFirst
  <2>4. Listed(s)'
    BY <2>2, <2>3 DEF Listed
  <2>5. Texted(s)' /\ AllOpen(s)'
    BY <1>1, <2>2 DEF Texted, AllOpen
  <2> QED
    BY <1>1, <2>1, <2>2, <2>4, <2>5 DEF CReads
<1> QED
  BY <1>1, <1>4, <1>5, <1>6, <1>7, <1>8, <1>9 DEF CInv

\* A block opens.
LEMMA COpens ==
  ASSUME CInv, NEW s \in Active, s \notin shared, UNCHANGED shared, pc[s] = "reading", AllOpen(s), NEW k \in IS!Kind,
         said' = [said EXCEPT ![s] = Append(said[s], IS!Block(k))],
         items' = [items EXCEPT ![s] = Append(items[s], IS!Item(k))],
         pc' = [pc EXCEPT ![s] = "emitting"]
  PROVE  /\ said' \in [Stream -> Seq(BlockType)] /\ items' \in [Stream -> Seq(ItemType)]
         /\ \A t \in Stream \ {s} : said'[t] = said[t] /\ items'[t] = items[t]
         /\ Len(said'[s]) = Len(said[s]) + 1
         /\ \A b \in 1..Len(said[s]) : said'[s][b] = said[s][b]
         /\ said'[s][Len(said[s]) + 1].kind = k
         /\ Paired(s)' /\ AllOpen(s)' /\ pc'[s] = "emitting" /\ IS!Next
<1> DEFINE n == Len(said[s])
<1>1. IS!Block(k) \in BlockType /\ IS!Item(k) \in ItemType
  BY DEF IS!Block, IS!Item, BlockType, ItemType
<1>2. s \in Stream /\ BaseType /\ Paired(s) /\ phase[s] = "open"
  BY CShape
<1>3. /\ said' \in [Stream -> Seq(BlockType)] /\ \A t \in Stream \ {s} : said'[t] = said[t]
      /\ n \in Nat /\ Len(said'[s]) = n + 1 /\ DOMAIN said[s] = 1..n
      /\ \A b \in 1..n : said'[s][b] = said[s][b]
      /\ said'[s][n + 1] = IS!Block(k)
  BY <1>1, <1>2, Longer DEF BaseType
<1>4. /\ items' \in [Stream -> Seq(ItemType)] /\ \A t \in Stream \ {s} : items'[t] = items[t]
      /\ Len(items[s]) = n /\ Len(items'[s]) = n + 1
      /\ \A b \in 1..n : items'[s][b] = items[s][b]
      /\ items'[s][n + 1] = IS!Item(k)
  BY <1>1, <1>2, <1>3, Longer DEF BaseType, Paired
<1>5. pc'[s] = "emitting"
  BY <1>2 DEF BaseType
<1>6. \A b \in 1..(n + 1) : b \in 1..n \/ b = n + 1
  BY <1>3
<1>7. Paired(s)'
  <2>1. \A b \in 1..n : items'[s][b].kind = said'[s][b].kind
    BY <1>2, <1>3, <1>4 DEF Paired
  <2>2. items'[s][n + 1].kind = said'[s][n + 1].kind
    BY <1>3, <1>4 DEF IS!Block, IS!Item
  <2> QED
    BY <1>3, <1>4, <1>6, <2>1, <2>2 DEF Paired
<1>8. AllOpen(s)'
  <2> DEFINE Fresh(b) == /\ ~said'[s][b].closed
                         /\ items'[s][b].status = "in_progress" /\ items'[s][b].runs = <<>>
  <2>1. \A b \in 1..n : Fresh(b)
    BY <1>3, <1>4 DEF AllOpen, Waits
  <2>2. IS!Block(k).closed = FALSE /\ IS!Item(k).status = "in_progress" /\ IS!Item(k).runs = <<>>
    BY DEF IS!Block, IS!Item
  <2>3. said'[s][n + 1].closed = FALSE
    BY <1>3, <2>2
  <2>4. items'[s][n + 1].status = "in_progress" /\ items'[s][n + 1].runs = <<>>
    BY <1>4, <2>2
  <2>5. \A b \in 1..(n + 1) : Fresh(b)
    BY <1>6, <2>1, <2>3, <2>4
  <2> QED
    BY <1>3, <2>5 DEF AllOpen, Waits
<1>9. phase' = phase
  BY <1>2, Suspends DEF Where
<1>10. IS!Open(s, k)
  BY <1>2, <1>9 DEF IS!Open
<1>11. said'[s][n + 1].kind = k
  BY <1>3 DEF IS!Block
<1> QED
  BY <1>2, <1>3, <1>4, <1>5, <1>7, <1>8, <1>10, <1>11 DEF IS!Next, IS!Step

\* A block goes on.
LEMMA CExtends ==
  ASSUME CInv, NEW s \in Active, s \notin shared, UNCHANGED shared, AllOpen(s), NEW b \in 1..Len(said[s]),
         said' = [said EXCEPT ![s][b].deltas = @ + 1],
         items' = [items EXCEPT ![s][b].content = Append(@, <<s, b>>)],
         NEW w \in {"reading", "emitting"}, pc' = [pc EXCEPT ![s] = w],
         UNCHANGED <<message, calls, heap, loop>>
  PROVE  CInv' /\ IS!Next
<1> DEFINE n == Len(said[s])
           block == [said[s][b] EXCEPT !.deltas = said[s][b].deltas + 1]
           item == [items[s][b] EXCEPT !.content = Append(items[s][b].content, <<s, b>>)]
<1>1. /\ s \in Stream /\ BaseType /\ Paired(s) /\ CReads(s)
      /\ said[s] \in Seq(BlockType) /\ items[s] \in Seq(ItemType) /\ Len(items[s]) = n
      /\ n \in Nat /\ b \in Nat /\ DOMAIN said[s] = 1..n /\ DOMAIN items[s] = 1..n /\ phase[s] = "open"
  BY CShape
<1>2. said[s][b] \in BlockType /\ items[s][b] \in ItemType
  BY <1>1
<1>3. block \in BlockType
  BY <1>2 DEF BlockType
<1>4. item \in ItemType
  <2>1. <<s, b>> \in Stream \X Nat /\ items[s][b].content \in Seq(Stream \X Nat)
    BY <1>1, <1>2 DEF ItemType
  <2>2. Append(items[s][b].content, <<s, b>>) \in Seq(Stream \X Nat)
    BY <2>1
  <2> QED
    BY <1>2, <2>2 DEF ItemType
<1>5. said' = [said EXCEPT ![s] = [said[s] EXCEPT ![b] = block]]
  OBVIOUS
<1>6. items' = [items EXCEPT ![s] = [items[s] EXCEPT ![b] = item]]
  OBVIOUS
<1>7. /\ block.kind = said[s][b].kind /\ block.closed = said[s][b].closed
      /\ item.kind = items[s][b].kind /\ item.status = items[s][b].status
      /\ item.runs = items[s][b].runs
  BY <1>2 DEF BlockType, ItemType
<1> HIDE DEF block, item
<1>8. /\ said' \in [Stream -> Seq(BlockType)] /\ \A t \in Stream \ {s} : said'[t] = said[t]
      /\ Len(said'[s]) = n /\ \A a \in 1..n \ {b} : said'[s][a] = said[s][a]
      /\ said'[s][b] = block
  <2>1. said \in [Stream -> Seq(BlockType)] /\ b \in DOMAIN said[s]
    BY <1>1 DEF BaseType
  <2>2. /\ said' \in [Stream -> Seq(BlockType)] /\ \A t \in Stream \ {s} : said'[t] = said[t]
        /\ Len(said'[s]) = Len(said[s]) /\ \A a \in DOMAIN said[s] \ {b} : said'[s][a] = said[s][a]
        /\ said'[s][b] = block
    BY ONLY <1>1, <1>3, <1>5, <2>1, Replaced
  <2> QED
    BY <1>1, <2>2
<1>9. /\ items' \in [Stream -> Seq(ItemType)] /\ \A t \in Stream \ {s} : items'[t] = items[t]
      /\ Len(items'[s]) = n /\ \A a \in 1..n \ {b} : items'[s][a] = items[s][a]
      /\ items'[s][b] = item
  <2>1. items \in [Stream -> Seq(ItemType)] /\ b \in DOMAIN items[s]
    BY <1>1 DEF BaseType
  <2>2. /\ items' \in [Stream -> Seq(ItemType)] /\ \A t \in Stream \ {s} : items'[t] = items[t]
        /\ Len(items'[s]) = Len(items[s]) /\ \A a \in DOMAIN items[s] \ {b} : items'[s][a] = items[s][a]
        /\ items'[s][b] = item
    BY ONLY <1>1, <1>4, <1>6, <2>1, Replaced
  <2> QED
    BY <1>1, <2>2
<1>10. \A a \in 1..n : /\ said'[s][a].kind = said[s][a].kind /\ said'[s][a].closed = said[s][a].closed
                       /\ items'[s][a].kind = items[s][a].kind
                       /\ items'[s][a].status = items[s][a].status /\ items'[s][a].runs = items[s][a].runs
  BY <1>7, <1>8, <1>9
<1>11. Paired(s)' /\ AllOpen(s)'
  BY <1>1, <1>8, <1>9, <1>10 DEF Paired, AllOpen, Waits
<1>12. pc'[s] = w /\ Line(s)' = Line(s)
  BY <1>1 DEF BaseType, Line
<1>13. \A a \in 1..(n + 1) : Rank(said'[s], a) = Rank(said[s], a)
  <2> SUFFICES ASSUME NEW a \in 1..(n + 1) PROVE Rank(said'[s], a) = Rank(said[s], a)
    OBVIOUS
  <2>1. \A c \in 1..(a - 1) : said'[s][c].kind = said[s][c].kind
    BY <1>1, <1>10
  <2>2. a \in Nat
    BY <1>1
  <2> QED
    BY ONLY <2>1, <2>2, RankKept
<1>14. Listed(s)'
  <2>1. Listed(s) /\ n + 1 \in 1..(n + 1) /\ \A a \in 1..n : a \in 1..(n + 1)
    BY <1>1 DEF CReads
  <2>2. \A a \in 1..n : IsCall(s, a)' = IsCall(s, a) /\ Rank(said'[s], a) = Rank(said[s], a)
    BY <1>10, <1>13, <2>1 DEF IsCall
  <2>3. Len(Line(s)') = Rank(said'[s], n + 1)
    BY <1>12, <1>13, <2>1 DEF Listed
  <2> QED
    BY <1>8, <1>12, <2>1, <2>2, <2>3 DEF Listed
<1>15. Texted(s)'
  BY <1>1, <1>8, <1>10 DEF CReads, Texted, IsCall
<1>16. CReads(s)'
  BY <1>1, <1>8, <1>11, <1>12, <1>14, <1>15 DEF CReads, AllOpen
<1>17. CInv'
  <2>1. w \in Where \ {"idle"} /\ heap' = heap
    BY DEF Where
  <2>2. /\ message' \in Ref /\ heap' \in [Stream \X {"begin", "end"} -> Seq(Entry)]
        /\ loop' \in [Stream -> Iteration]
    BY DEF CInv
  <2> QED
    BY <1>8, <1>9, <1>11, <1>16, <2>1, <2>2, CMoves
<1>18. phase' = phase
  BY <1>1, Suspends DEF Where
<1>19. IS!Extend(s, b)
  BY <1>1, <1>18 DEF IS!Extend, AllOpen
<1> QED
  BY <1>1, <1>17, <1>19 DEF IS!Next, IS!Step

LEMMA CUnfinished ==
  ASSUME CInv, NEW s \in Stream, s \notin shared, C!Unfinished(s)
  PROVE  s \in Active /\ pc[s] = "reading" /\ AllOpen(s)
<1>1. pc[s] = "reading" /\ \A b \in DOMAIN said[s] : ~said[s][b].closed
  BY DEF C!Unfinished, C!OpenBlocks
<1>2. s \in Active
  BY <1>1 DEF Active
<1>3. CReads(s) /\ DOMAIN said[s] = 1..Len(said[s])
  BY <1>2, CShape
<1>4. AllOpen(s)
  BY <1>1, <1>3 DEF CReads, AllOpen, AllClosed
<1> QED
  BY <1>1, <1>2, <1>4

\* A new block leaves the ranks of the others as they are.
LEMMA RanksGrow ==
  ASSUME NEW q, NEW r, NEW n \in Nat, \A a \in 1..n : r[a] = q[a]
  PROVE  /\ \A b \in 1..(n + 1) : Rank(r, b) = Rank(q, b) /\ Rank(r, b) \in Nat
         /\ r[n + 1].kind = "function_call" => Rank(r, (n + 1) + 1) = Rank(q, n + 1) + 1
         /\ r[n + 1].kind # "function_call" => Rank(r, (n + 1) + 1) = Rank(q, n + 1)
<1>1. \A b \in 1..(n + 1) : Rank(r, b) = Rank(q, b) /\ Rank(r, b) \in Nat
  <2> SUFFICES ASSUME NEW b \in 1..(n + 1) PROVE Rank(r, b) = Rank(q, b) /\ Rank(r, b) \in Nat
    OBVIOUS
  <2>1. b \in Nat \ {0} /\ \A a \in 1..(b - 1) : r[a].kind = q[a].kind
    OBVIOUS
  <2> QED
    BY ONLY <2>1, RankKept, RankNext
<1>2. n + 1 \in Nat \ {0} /\ n + 1 \in 1..(n + 1)
  OBVIOUS
<1>3. Rank(r, n + 1) = Rank(q, n + 1)
  BY <1>1, <1>2
<1>4. /\ r[n + 1].kind = "function_call" => Rank(r, (n + 1) + 1) = Rank(r, n + 1) + 1
      /\ r[n + 1].kind # "function_call" => Rank(r, (n + 1) + 1) = Rank(r, n + 1)
  BY ONLY <1>2, RankNext
<1> QED
  BY ONLY <1>1, <1>3, <1>4

\* delta.content
LEMMA CContentChunk ==
  ASSUME CInv, NEW s \in Stream, s \notin shared, UNCHANGED shared, C!ContentChunk(s)
  PROVE  CInv' /\ IS!Next
<1> DEFINE n == Len(said[s])
<1>1. C!Unfinished(s)
  BY DEF C!ContentChunk
<1>2. s \in Active /\ pc[s] = "reading" /\ AllOpen(s)
  BY <1>1, CUnfinished
<1>3. /\ pc' = [pc EXCEPT ![s] = "emitting"] /\ UNCHANGED <<calls, heap, loop>>
      /\ Texted(s) /\ Listed(s) /\ BaseType /\ Paired(s)
      /\ n \in Nat /\ Len(items[s]) = n /\ DOMAIN said[s] = 1..n /\ DOMAIN items[s] = 1..n
      /\ calls = <<s, "begin">> /\ Len(Line(s)) \in Nat
  BY <1>2, CShape DEF C!ContentChunk, C!Goto, CReads
<1>4. PICK b \in 1..ChatBlocks :
        /\ \A a \in 1..n : said[s][a].kind = "message" => a = b
        /\ C!Piece(s, "message", b)
        /\ \/ /\ message = <<>> /\ C!NewItem(s, "message")
              /\ message' = <<s, n + 1>>
           \/ message # <<>> /\ C!Absorb(message, <<s, b>>) /\ UNCHANGED message
  BY <1>3 DEF C!ContentChunk, C!None
<1>5. \A m \in 1..n : message = <<s, m>> => said[s][m].kind = "message"
  BY <1>3 DEF Texted, IsCall
<1>6. CASE message = <<>>
  <2>1. C!NewItem(s, "message") /\ message' = <<s, n + 1>> /\ \A a \in 1..n : IsCall(s, a)
    BY <1>3, <1>4, <1>6 DEF Texted
  <2>2. C!Says(s, "message")
    BY <1>3, <1>4, <2>1 DEF C!Piece, IsCall
  <2>3. "message" \in IS!Kind
    BY DEF IS!Kind
  <2>4. said' = [said EXCEPT ![s] = Append(said[s], IS!Block("message"))]
    BY <2>2 DEF C!Says, C!IS!Block, IS!Block
  <2>5. items' = [items EXCEPT ![s] = Append(items[s], IS!Item("message"))]
    BY <2>1 DEF C!NewItem, C!IS!Item, IS!Item
  <2>6. /\ said' \in [Stream -> Seq(BlockType)] /\ items' \in [Stream -> Seq(ItemType)]
        /\ \A t \in Stream \ {s} : said'[t] = said[t] /\ items'[t] = items[t]
        /\ Len(said'[s]) = n + 1
        /\ \A b_1 \in 1..n : said'[s][b_1] = said[s][b_1]
        /\ said'[s][n + 1].kind = "message"
        /\ Paired(s)' /\ AllOpen(s)' /\ pc'[s] = "emitting" /\ IS!Next
    BY <1>2, <1>3, <2>3, <2>4, <2>5, COpens
  <2>7. \A a \in 1..(n + 1) : a \in 1..n \/ a = n + 1
    BY <1>3
  <2>8. /\ \A a \in 1..(n + 1) : Rank(said'[s], a) = Rank(said[s], a)
        /\ Rank(said'[s], (n + 1) + 1) = Rank(said[s], n + 1)
    <3>1. n \in Nat /\ (\A a \in 1..n : said'[s][a] = said[s][a]) /\ said'[s][n + 1].kind # "function_call"
      BY <1>3, <2>6
    <3> HIDE DEF n
    <3> QED
      BY ONLY <3>1, RanksGrow
  <2>9. \A a \in 1..n : IsCall(s, a)' = IsCall(s, a) /\ Rank(said'[s], a) = Rank(said[s], a)
    BY <1>3, <2>6, <2>8 DEF IsCall
  <2>10. ~(said'[s][n + 1].kind = "function_call") /\ n + 1 \in 1..(n + 1) /\ \A a \in 1..n : a # n + 1
    BY <1>3, <2>6
  <2>11. Line(s)' = Line(s)
    BY <1>3 DEF Line
  <2>12. Listed(s)'
    <3>1. Len(Line(s)') = Rank(said'[s], Len(said'[s]) + 1)
      BY <1>3, <2>6, <2>8, <2>11 DEF Listed
    <3>2. \A a \in 1..Len(said'[s]) : IsCall(s, a)' =>
            /\ Rank(said'[s], a) + 1 \in 1..Len(Line(s)')
            /\ Line(s)'[Rank(said'[s], a) + 1].ref = <<s, a>>
      BY <1>3, <2>6, <2>7, <2>9, <2>10, <2>11 DEF Listed, IsCall
    <3>3. \A p \in 1..Len(Line(s)') :
            /\ Line(s)'[p].index = p - 1
            /\ \E a \in 1..Len(said'[s]) :
                    IsCall(s, a)' /\ Line(s)'[p].ref = <<s, a>> /\ Rank(said'[s], a) = p - 1
      <4> SUFFICES ASSUME NEW p \in 1..Len(Line(s))
                   PROVE  /\ Line(s)[p].index = p - 1
                          /\ \E a \in 1..Len(said'[s]) :
                                  IsCall(s, a)' /\ Line(s)[p].ref = <<s, a>> /\ Rank(said'[s], a) = p - 1
        BY <2>11
      <4>1. PICK a \in 1..n : IsCall(s, a) /\ Line(s)[p].ref = <<s, a>> /\ Rank(said[s], a) = p - 1
        BY <1>3 DEF Listed
      <4>2. a \in 1..Len(said'[s])
        BY <1>3, <2>6
      <4> QED
        BY <1>3, <2>9, <4>1, <4>2 DEF Listed
    <3> QED
      BY <3>1, <3>2, <3>3 DEF Listed
  <2>13. Texted(s)'
    <3>1. \A a \in 1..(n + 1) : said'[s][a].kind \in {"message", "function_call"}
      BY <1>3, <2>6, <2>7 DEF Texted
    <3>2. message' # <<>>
      BY <2>1
    <3>3. \A a \in 1..(n + 1) : said'[s][a].kind = "function_call" <=> a # n + 1
      BY <2>1, <2>6, <2>7, <2>10 DEF IsCall
    <3> QED
      BY <2>1, <2>6, <2>10, <3>1, <3>2, <3>3 DEF Texted, IsCall
  <2>14. CReads(s)'
    BY <1>3, <2>6, <2>12, <2>13 DEF CReads, AllOpen
  <2>15. /\ message' \in Ref /\ heap' \in [Stream \X {"begin", "end"} -> Seq(Entry)]
         /\ loop' \in [Stream -> Iteration] /\ heap' = heap
         /\ "emitting" \in Where \ {"idle"}
    BY <1>3, <2>1 DEF CInv, Line, Ref, Where
  <2>16. CInv'
    BY <1>2, <1>3, <2>6, <2>14, <2>15, CMoves
  <2> QED
    BY <2>6, <2>16
<1>7. CASE message # <<>>
  <2>1. PICK m \in 1..n : message = <<s, m>> /\ said[s][m].kind = "message"
    BY <1>3, <1>5, <1>7 DEF Texted
  <2>2. b = m /\ b \in 1..n /\ b # n + 1
    BY <1>3, <1>4, <2>1
  <2>3. C!SaysMore(s, b) /\ C!Absorb(<<s, b>>, <<s, b>>) /\ UNCHANGED message
    BY <1>4, <1>7, <2>1, <2>2 DEF C!Piece
  <2>4. said' = [said EXCEPT ![s][b].deltas = @ + 1]
    BY <2>3 DEF C!SaysMore
  <2>5. items' = [items EXCEPT ![s][b].content = Append(@, <<s, b>>)]
    BY <2>3 DEF C!Absorb
  <2> QED
    BY <1>2, <1>3, <2>2, <2>3, <2>4, <2>5, CExtends
<1> QED
  BY <1>6, <1>7

\* delta.tool_calls
LEMMA CCallChunk ==
  ASSUME CInv, NEW s \in Stream, s \notin shared, UNCHANGED shared, C!CallChunk(s)
  PROVE  CInv' /\ IS!Next
<1> DEFINE n == Len(said[s])
<1>1. C!Unfinished(s)
  BY DEF C!CallChunk
<1>2. s \in Active /\ pc[s] = "reading" /\ AllOpen(s)
  BY <1>1, CUnfinished
<1>3. /\ UNCHANGED <<message, calls, loop>>
      /\ Texted(s) /\ Listed(s) /\ BaseType /\ Paired(s)
      /\ n \in Nat /\ Len(items[s]) = n /\ DOMAIN said[s] = 1..n /\ DOMAIN items[s] = 1..n
      /\ calls = <<s, "begin">> /\ heap[calls] = Line(s) /\ Len(Line(s)) \in Nat
      /\ DOMAIN Line(s) = 1..Len(Line(s)) /\ Line(s) \in Seq(Entry)
  BY <1>2, CShape DEF C!CallChunk, CReads
<1>4. PICK b \in 1..ChatBlocks :
        /\ C!Piece(s, "function_call", b)
        /\ \/ /\ C!Entries(Rank(said[s], b)) = {}
              /\ C!NewItem(s, "function_call")
              /\ heap' = [heap EXCEPT ![calls] =
                           Append(heap[calls], [index |-> Rank(said[s], b), ref |-> <<s, n + 1>>])]
              /\ pc' = [pc EXCEPT ![s] = "emitting"]
           \/ /\ \E p \in C!Entries(Rank(said[s], b)) : C!Absorb(heap[calls][p].ref, <<s, b>>)
              /\ UNCHANGED <<heap, pc>>
  <2>1. PICK b \in 1..ChatBlocks :
        /\ C!Piece(s, "function_call", b)
        /\ \/ /\ C!Entries(C!CallIndex(s, b)) = {}
              /\ C!NewItem(s, "function_call")
              /\ heap' = [heap EXCEPT ![calls] =
                           Append(@, [index |-> C!CallIndex(s, b), ref |-> <<s, Len(items[s]) + 1>>])]
              /\ C!Goto(s, "emitting")
           \/ /\ \E p \in C!Entries(C!CallIndex(s, b)) : C!Absorb(heap[calls][p].ref, <<s, b>>)
              /\ UNCHANGED <<heap, pc>>
    BY DEF C!CallChunk
  <2>2. C!CallIndex(s, b) = Rank(said[s], b)
    BY RankIs
  <2> QED
    BY <1>3, <2>1, <2>2 DEF C!Goto
<1>5. \A p \in 1..Len(Line(s)) : Line(s)[p].index = p - 1
  BY <1>3 DEF Listed
<1>6. C!Entries(Rank(said[s], b)) = {p \in 1..Len(Line(s)) : p - 1 = Rank(said[s], b)}
  BY <1>3, <1>5 DEF C!Entries
<1>7. n + 1 \in 1..(n + 1) /\ \A a \in 1..n : a \in 1..(n + 1) /\ a # n + 1
  BY <1>3
<1>8. CASE b \in 1..n
  <2>1. IsCall(s, b) /\ C!SaysMore(s, b)
    BY <1>3, <1>4, <1>7, <1>8 DEF C!Piece, IsCall
  <2>2. Rank(said[s], b) + 1 \in 1..Len(Line(s)) /\ Line(s)[Rank(said[s], b) + 1].ref = <<s, b>>
    BY <1>3, <1>8, <2>1 DEF Listed
  <2>3. Rank(said[s], b) \in Nat
    BY <1>3, <1>8, RankNext
  <2>4. Rank(said[s], b) + 1 \in C!Entries(Rank(said[s], b))
    BY <1>6, <2>2, <2>3
  <2>5. \A p \in C!Entries(Rank(said[s], b)) : p = Rank(said[s], b) + 1
    BY <1>6, <2>3
  <2>6. C!Absorb(<<s, b>>, <<s, b>>) /\ UNCHANGED <<heap, pc>>
    BY <1>3, <1>4, <2>2, <2>4, <2>5
  <2>7. said' = [said EXCEPT ![s][b].deltas = @ + 1]
    BY <2>1 DEF C!SaysMore
  <2>8. items' = [items EXCEPT ![s][b].content = Append(@, <<s, b>>)]
    BY <2>6 DEF C!Absorb
  <2>9. pc' = [pc EXCEPT ![s] = "reading"]
    BY <1>2, <1>3, <2>6 DEF BaseType
  <2> QED
    BY <1>2, <1>3, <1>8, <2>6, <2>7, <2>8, <2>9, CExtends
<1>9. CASE b = n + 1
  <2> DEFINE x == Rank(said[s], n + 1)
             entry == [index |-> x, ref |-> <<s, n + 1>>]
  <2>1. Len(Line(s)) = x /\ x \in Nat
    BY <1>3 DEF Listed
  <2>2. C!Entries(x) = {}
    BY <1>6, <1>9, <2>1
  <2>3. /\ C!NewItem(s, "function_call")
        /\ heap' = [heap EXCEPT ![<<s, "begin">>] = Append(heap[<<s, "begin">>], entry)]
        /\ pc' = [pc EXCEPT ![s] = "emitting"]
    BY <1>3, <1>4, <1>9, <2>2
  <2>4. C!Says(s, "function_call")
    BY <1>3, <1>4, <1>7, <1>9 DEF C!Piece
  <2>5. "function_call" \in IS!Kind
    BY DEF IS!Kind
  <2>6. said' = [said EXCEPT ![s] = Append(said[s], IS!Block("function_call"))]
    BY <2>4 DEF C!Says, C!IS!Block, IS!Block
  <2>7. items' = [items EXCEPT ![s] = Append(items[s], IS!Item("function_call"))]
    BY <2>3 DEF C!NewItem, C!IS!Item, IS!Item
  <2>8. /\ said' \in [Stream -> Seq(BlockType)] /\ items' \in [Stream -> Seq(ItemType)]
        /\ \A t \in Stream \ {s} : said'[t] = said[t] /\ items'[t] = items[t]
        /\ Len(said'[s]) = n + 1
        /\ \A b_1 \in 1..n : said'[s][b_1] = said[s][b_1]
        /\ said'[s][n + 1].kind = "function_call"
        /\ Paired(s)' /\ AllOpen(s)' /\ pc'[s] = "emitting" /\ IS!Next
    BY <1>2, <1>3, <2>3, <2>5, <2>6, <2>7, COpens
  <2>9. \A a \in 1..(n + 1) : a \in 1..n \/ a = n + 1
    BY <1>3
  <2>10. /\ \A a \in 1..(n + 1) : Rank(said'[s], a) = Rank(said[s], a)
         /\ Rank(said'[s], (n + 1) + 1) = Rank(said[s], n + 1) + 1
    <3>1. n \in Nat /\ (\A a \in 1..n : said'[s][a] = said[s][a]) /\ said'[s][n + 1].kind = "function_call"
      BY <1>3, <2>8
    <3> HIDE DEF n
    <3> QED
      BY ONLY <3>1, RanksGrow
  <2>11. \A a \in 1..n : IsCall(s, a)' = IsCall(s, a) /\ Rank(said'[s], a) = Rank(said[s], a)
    BY <1>3, <2>8, <2>10 DEF IsCall
  <2>12. entry \in Entry
    BY <1>3, <2>1 DEF Entry
  <2>13. /\ heap' \in [Stream \X {"begin", "end"} -> Seq(Entry)]
         /\ \A d \in (Stream \X {"begin", "end"}) \ {<<s, "begin">>} : heap'[d] = heap[d]
         /\ Line(s)' = Append(Line(s), entry)
    <3>1. heap \in [Stream \X {"begin", "end"} -> Seq(Entry)] /\ Line(s) \in Seq(Entry)
      BY <1>3 DEF CInv
    <3> HIDE DEF entry
    <3>2. Append(heap[<<s, "begin">>], entry) \in Seq(Entry)
      BY <2>12, <3>1 DEF Line
    <3> QED
      BY <2>3, <3>1, <3>2 DEF Line
  <2>14. /\ Len(Line(s)') = x + 1 /\ Line(s)'[x + 1] = entry
         /\ \A p \in 1..x : Line(s)'[p] = Line(s)[p]
    <3> HIDE DEF entry, x
    <3> QED
      BY <1>3, <2>1, <2>12, <2>13
  <2>15. entry.index = x /\ entry.ref = <<s, n + 1>>
    OBVIOUS
  <2>16. \A p \in 1..(x + 1) : p \in 1..x \/ p = x + 1
    BY <2>1
  <2> HIDE DEF entry
  <2>17. Listed(s)'
    <3>1. Len(Line(s)') = Rank(said'[s], Len(said'[s]) + 1)
      BY <2>8, <2>10, <2>14
    <3>2. \A a \in 1..Len(said'[s]) : IsCall(s, a)' =>
            /\ Rank(said'[s], a) + 1 \in 1..Len(Line(s)')
            /\ Line(s)'[Rank(said'[s], a) + 1].ref = <<s, a>>
      <4>1. ASSUME NEW a \in 1..n, IsCall(s, a)'
            PROVE  /\ Rank(said'[s], a) + 1 \in 1..Len(Line(s)')
                   /\ Line(s)'[Rank(said'[s], a) + 1].ref = <<s, a>>
        <5>1. Rank(said[s], a) + 1 \in 1..x /\ Line(s)[Rank(said[s], a) + 1].ref = <<s, a>>
          BY <1>3, <2>1, <2>11, <4>1 DEF Listed
        <5>2. Rank(said[s], a) + 1 \in 1..(x + 1)
          BY <2>1, <5>1
        <5> QED
          BY <2>11, <2>14, <5>1, <5>2
      <4>2. Rank(said'[s], n + 1) = x
        BY <1>7, <2>10
      <4>3. /\ Rank(said'[s], n + 1) + 1 \in 1..Len(Line(s)')
            /\ Line(s)'[Rank(said'[s], n + 1) + 1].ref = <<s, n + 1>>
        BY <2>1, <2>14, <2>15, <4>2
      <4> QED
        BY <2>8, <2>9, <4>1, <4>3 DEF IsCall
    <3>3. \A p \in 1..Len(Line(s)') :
            /\ Line(s)'[p].index = p - 1
            /\ \E a \in 1..Len(said'[s]) :
                    IsCall(s, a)' /\ Line(s)'[p].ref = <<s, a>> /\ Rank(said'[s], a) = p - 1
      <4>1. ASSUME NEW p \in 1..x
            PROVE  /\ Line(s)'[p].index = p - 1
                   /\ \E a \in 1..(n + 1) :
                           IsCall(s, a)' /\ Line(s)'[p].ref = <<s, a>> /\ Rank(said'[s], a) = p - 1
        <5>1. PICK a \in 1..n : IsCall(s, a) /\ Line(s)[p].ref = <<s, a>> /\ Rank(said[s], a) = p - 1
          BY <1>3, <2>1 DEF Listed
        <5>2. Line(s)'[p] = Line(s)[p] /\ Line(s)[p].index = p - 1
          BY <1>5, <2>1, <2>14
        <5> QED
          BY <1>7, <2>11, <5>1, <5>2
      <4>2. Rank(said'[s], n + 1) = x /\ (x + 1) - 1 = x
        BY <1>7, <2>1, <2>10
      <4>3. said'[s][n + 1].kind = "function_call"
        BY <2>8
      <4>4. /\ Line(s)'[x + 1].index = (x + 1) - 1
            /\ \E a \in 1..(n + 1) :
                    IsCall(s, a)' /\ Line(s)'[x + 1].ref = <<s, a>> /\ Rank(said'[s], a) = (x + 1) - 1
        BY <1>7, <2>14, <2>15, <4>2, <4>3 DEF IsCall
      <4> QED
        BY <2>8, <2>14, <2>16, <4>1, <4>4
    <3> QED
      BY <3>1, <3>2, <3>3 DEF Listed
  <2>18. Texted(s)'
    <3>1. \A a \in 1..(n + 1) : said'[s][a].kind \in {"message", "function_call"}
      BY <1>3, <2>8, <2>9 DEF Texted
    <3>2. message = <<>> => \A a \in 1..(n + 1) : said'[s][a].kind = "function_call"
      BY <1>3, <2>8, <2>9 DEF Texted, IsCall
    <3>3. message # <<>> => \E m \in 1..(n + 1) :
            message = <<s, m>> /\ \A a \in 1..(n + 1) : said'[s][a].kind = "function_call" <=> a # m
      <4> SUFFICES ASSUME message # <<>>
                   PROVE  \E m \in 1..(n + 1) :
                     message = <<s, m>> /\ \A a \in 1..(n + 1) : said'[s][a].kind = "function_call" <=> a # m
        OBVIOUS
      <4>1. PICK m \in 1..n : message = <<s, m>> /\ \A a \in 1..n : said[s][a].kind = "function_call" <=> a # m
        BY <1>3 DEF Texted, IsCall
      <4>2. m \in 1..(n + 1) /\ m # n + 1
        BY <1>7
      <4>3. \A a \in 1..(n + 1) : said'[s][a].kind = "function_call" <=> a # m
        BY <2>8, <2>9, <4>1, <4>2
      <4> QED
        BY <4>1, <4>2, <4>3
    <3>4. message' = message /\ Len(said'[s]) = n + 1
      BY <1>3, <2>8
    <3> HIDE DEF n
    <3> QED
      BY ONLY <3>1, <3>2, <3>3, <3>4 DEF Texted, IsCall
  <2>19. CReads(s)'
    BY <1>3, <2>8, <2>17, <2>18 DEF CReads, AllOpen
  <2>20. message' \in Ref /\ loop' \in [Stream -> Iteration] /\ "emitting" \in Where \ {"idle"}
    BY <1>3 DEF CInv, Where
  <2>21. CInv'
    BY <1>2, <1>3, <2>3, <2>8, <2>13, <2>19, <2>20, CMoves
  <2> QED
    BY <2>8, <2>21
<1>10. b \in 1..n \/ b = n + 1
  BY <1>3, <1>4 DEF C!Piece
<1> QED
  BY <1>8, <1>9, <1>10

-----------------------------------------------------------------------------
\* The blocks are closed and the items completed.

LEMMA Settled ==
  ASSUME BaseType, NEW s \in Stream, Len(items[s]) = Len(said[s])
  PROVE  /\ IS!Closed(said[s], {}) = said[s]
         /\ IS!Closed(said[s], DOMAIN said[s]) =
              [b \in DOMAIN said[s] |-> [said[s][b] EXCEPT !.closed = TRUE]]
         /\ IS!Ended(items[s], {}, "completed") = items[s]
         /\ \A b \in 1..Len(said[s]) :
              [items[s] EXCEPT ![b].status = "completed"] = IS!Ended(items[s], {b}, "completed")
<1>1. /\ said[s] \in Seq(BlockType) /\ items[s] \in Seq(ItemType)
      /\ DOMAIN said[s] = 1..Len(said[s]) /\ DOMAIN items[s] = 1..Len(said[s])
  BY DEF BaseType
<1>2. \A b \in 1..Len(said[s]) : said[s][b] \in BlockType /\ items[s][b] \in ItemType
  BY <1>1
<1>3. IS!Closed(said[s], {}) = said[s]
  <2>1. \A b \in DOMAIN said[s] : [said[s][b] EXCEPT !.closed = said[s][b].closed \/ b \in {}] = said[s][b]
    BY <1>1, <1>2 DEF BlockType
  <2>2. IS!Closed(said[s], {}) = [b \in DOMAIN said[s] |-> said[s][b]]
    BY <2>1 DEF IS!Closed
  <2> QED
    BY <1>1, <2>2
<1>4. IS!Closed(said[s], DOMAIN said[s]) = [b \in DOMAIN said[s] |-> [said[s][b] EXCEPT !.closed = TRUE]]
  BY <1>1, <1>2 DEF IS!Closed, BlockType
<1>5. IS!Ended(items[s], {}, "completed") = items[s]
  BY <1>1 DEF IS!Ended
<1>6. \A b \in 1..Len(said[s]) : [items[s] EXCEPT ![b].status = "completed"] = IS!Ended(items[s], {b}, "completed")
  BY <1>1, <1>2 DEF IS!Ended, ItemType
<1> QED
  BY <1>3, <1>4, <1>5, <1>6

LEMMA CSettles ==
  ASSUME CInv, NEW s \in Active, s \notin shared, UNCHANGED shared,
         NEW J \in SUBSET (1..Len(said[s])), NEW I \in SUBSET (1..Len(said[s])),
         \A b \in 1..Len(said[s]) : said[s][b].closed \/ b \in J,
         said' = [said EXCEPT ![s] = IS!Closed(said[s], J)],
         items' = [items EXCEPT ![s] = IS!Ended(items[s], I, "completed")],
         NEW w \in Where \ {"idle", "done", "cut"}, pc' = [pc EXCEPT ![s] = w],
         UNCHANGED <<message, heap>>
  PROVE  /\ said' \in [Stream -> Seq(BlockType)] /\ items' \in [Stream -> Seq(ItemType)]
         /\ \A t \in Stream \ {s} : said'[t] = said[t] /\ items'[t] = items[t]
         /\ Len(said'[s]) = Len(said[s])
         /\ \A b \in 1..Len(said[s]) :
              /\ IsCall(s, b)' = IsCall(s, b) /\ items'[s][b].runs = items[s][b].runs
              /\ items'[s][b].status = IF b \in I THEN "completed" ELSE items[s][b].status
         /\ Paired(s)' /\ AllClosed(s)' /\ Listed(s)' /\ Texted(s)' /\ pc'[s] = w /\ IS!Next
<1> DEFINE n == Len(said[s])
<1>1. /\ s \in Stream /\ BaseType /\ Paired(s) /\ CReads(s)
      /\ said[s] \in Seq(BlockType) /\ items[s] \in Seq(ItemType) /\ Len(items[s]) = n
      /\ n \in Nat /\ DOMAIN said[s] = 1..n /\ DOMAIN items[s] = 1..n /\ phase[s] = "open"
  BY CShape
<1>2. \A b \in 1..n : said[s][b] \in BlockType /\ items[s][b] \in ItemType
  BY <1>1
<1>3. /\ IS!Closed(said[s], J) \in Seq(BlockType) /\ Len(IS!Closed(said[s], J)) = n
      /\ \A b \in 1..n : /\ IS!Closed(said[s], J)[b].kind = said[s][b].kind
                         /\ IS!Closed(said[s], J)[b].closed
  <2> DEFINE blocks == IS!Closed(said[s], J)
             block(b) == [said[s][b] EXCEPT !.closed = said[s][b].closed \/ b \in J]
  <2>1. \A b \in 1..n : block(b) \in BlockType /\ block(b).kind = said[s][b].kind /\ block(b).closed
    BY <1>1, <1>2 DEF BlockType
  <2>2. blocks = [b \in 1..n |-> block(b)]
    BY <1>1 DEF IS!Closed
  <2> HIDE DEF blocks, block
  <2>3. blocks \in [1..n -> BlockType] /\ \A b \in 1..n : blocks[b] = block(b)
    BY <2>1, <2>2
  <2>4. blocks \in Seq(BlockType) /\ Len(blocks) = n
    <3>1. n \in Nat /\ blocks \in [1..n -> BlockType]
      BY <1>1, <2>3
    <3> HIDE DEF n
    <3> QED
      BY ONLY <3>1
  <2> QED
    BY <2>1, <2>3, <2>4 DEF blocks
<1>4. /\ IS!Ended(items[s], I, "completed") \in Seq(ItemType) /\ Len(IS!Ended(items[s], I, "completed")) = n
      /\ \A b \in 1..n :
           /\ IS!Ended(items[s], I, "completed")[b].kind = items[s][b].kind
           /\ IS!Ended(items[s], I, "completed")[b].runs = items[s][b].runs
           /\ IS!Ended(items[s], I, "completed")[b].status = IF b \in I THEN "completed" ELSE items[s][b].status
  <2> DEFINE its == IS!Ended(items[s], I, "completed")
             item(b) == IF b \in I THEN [items[s][b] EXCEPT !.status = "completed"] ELSE items[s][b]
  <2>1. \A b \in 1..n :
          /\ item(b) \in ItemType /\ item(b).kind = items[s][b].kind /\ item(b).runs = items[s][b].runs
          /\ item(b).status = IF b \in I THEN "completed" ELSE items[s][b].status
    BY <1>1, <1>2 DEF ItemType
  <2>2. its = [b \in 1..n |-> item(b)]
    BY <1>1 DEF IS!Ended
  <2> HIDE DEF its, item
  <2>3. its \in [1..n -> ItemType] /\ \A b \in 1..n : its[b] = item(b)
    BY <2>1, <2>2
  <2>4. its \in Seq(ItemType) /\ Len(its) = n
    BY <1>1, <2>3
  <2> QED
    BY <2>1, <2>3, <2>4 DEF its
<1>5. /\ said' \in [Stream -> Seq(BlockType)] /\ items' \in [Stream -> Seq(ItemType)]
      /\ \A t \in Stream \ {s} : said'[t] = said[t] /\ items'[t] = items[t]
      /\ said'[s] = IS!Closed(said[s], J) /\ items'[s] = IS!Ended(items[s], I, "completed")
      /\ pc'[s] = w
  BY <1>1, <1>3, <1>4 DEF BaseType
<1>6. \A b \in 1..n :
        /\ said'[s][b].kind = said[s][b].kind /\ said'[s][b].closed
        /\ items'[s][b].kind = items[s][b].kind /\ items'[s][b].runs = items[s][b].runs
        /\ items'[s][b].status = IF b \in I THEN "completed" ELSE items[s][b].status
  BY <1>3, <1>4, <1>5
<1>7. Len(said'[s]) = n /\ Len(items'[s]) = n
  BY <1>3, <1>4, <1>5
<1>8. Paired(s)' /\ AllClosed(s)'
  BY <1>1, <1>6, <1>7 DEF Paired, AllClosed
<1>9. \A b \in 1..n : IsCall(s, b)' = IsCall(s, b)
  BY <1>6 DEF IsCall
<1>10. \A a \in 1..(n + 1) : Rank(said'[s], a) = Rank(said[s], a)
  <2> SUFFICES ASSUME NEW a \in 1..(n + 1) PROVE Rank(said'[s], a) = Rank(said[s], a)
    OBVIOUS
  <2>1. \A c \in 1..(a - 1) : said'[s][c].kind = said[s][c].kind
    BY <1>1, <1>6
  <2>2. a \in Nat
    BY <1>1
  <2> QED
    BY ONLY <2>1, <2>2, RankKept
<1>11. Listed(s)'
  <2>1. Listed(s) /\ n + 1 \in 1..(n + 1) /\ \A a \in 1..n : a \in 1..(n + 1)
    BY <1>1 DEF CReads
  <2>2. \A a \in 1..n : Rank(said'[s], a) = Rank(said[s], a)
    BY <1>10, <2>1
  <2>3. Line(s)' = Line(s) /\ Len(Line(s)') = Rank(said'[s], n + 1)
    BY <1>10, <2>1 DEF Listed, Line
  <2> QED
    BY <1>7, <1>9, <2>1, <2>2, <2>3 DEF Listed
<1>12. Texted(s)'
  BY <1>1, <1>6, <1>7, <1>9 DEF CReads, Texted, IsCall
<1>13. phase' = phase
  BY <1>1, Suspends
<1>14. IS!Settle(s, J, I, "completed")
  <2>1. \A b \in I : said'[s][b].closed
    BY <1>6
  <2> QED
    BY <1>1, <1>13, <2>1 DEF IS!Settle
<1>15. IS!Next
  BY <1>1, <1>14 DEF IS!Next, IS!Step, IS!Outcome
<1> QED
  BY <1>5, <1>6, <1>7, <1>8, <1>9, <1>11, <1>12, <1>15

-----------------------------------------------------------------------------
\* A loop over the calls runs to its next suspension.

\* No two calls have the same entry.
LEMMA Entered ==
  ASSUME CInv, NEW s \in Active, s \notin shared, NEW p \in 1..Len(Line(s))
  PROVE  \E b \in 1..Len(said[s]) :
           /\ Line(s)[p].ref = <<s, b>> /\ IsCall(s, b)
           /\ \A q \in 1..Len(Line(s)) : Line(s)[q].ref = <<s, b>> => q = p
<1>1. Listed(s) /\ Len(Line(s)) \in Nat
  BY CShape DEF CReads
<1>2. \A q \in 1..Len(Line(s)) :
        \E b \in 1..Len(said[s]) : IsCall(s, b) /\ Line(s)[q].ref = <<s, b>> /\ Rank(said[s], b) = q - 1
  BY <1>1 DEF Listed
<1>3. PICK b \in 1..Len(said[s]) : IsCall(s, b) /\ Line(s)[p].ref = <<s, b>> /\ Rank(said[s], b) = p - 1
  BY <1>2
<1>4. ASSUME NEW q \in 1..Len(Line(s)), Line(s)[q].ref = <<s, b>> PROVE q = p
  <2>1. PICK c \in 1..Len(said[s]) : Line(s)[q].ref = <<s, c>> /\ Rank(said[s], c) = q - 1
    BY <1>2
  <2>2. c = b
    BY <1>4, <2>1
  <2> QED
    BY <1>1, <1>3, <2>1, <2>2
<1> QED
  BY <1>3, <1>4

LEMMA CIterates ==
  ASSUME CInv, NEW s \in Active, s \notin shared, UNCHANGED shared, pc[s] # "sending", NEW l, l \in Iteration, Halfway(s, l),
         NEW J \in SUBSET (1..Len(said[s])), \A b \in 1..Len(said[s]) : said[s][b].closed \/ b \in J,
         said' = [said EXCEPT ![s] = IS!Closed(said[s], J)],
         l.final => said' = said,
         C!Iterate(s, l), UNCHANGED heap
  PROVE  CInv' /\ IS!Next
<1> DEFINE n == Len(said[s])
           ahead == {p \in (l.pos + 1)..Len(Line(s)) :
                       l.final => At(Line(s)[p].ref).status = "in_progress"}
<1>1. /\ s \in Stream /\ BaseType /\ Paired(s) /\ CReads(s) /\ Listed(s) /\ Texted(s) /\ Active = {s}
      /\ said[s] \in Seq(BlockType) /\ items[s] \in Seq(ItemType) /\ Len(items[s]) = n
      /\ n \in Nat /\ DOMAIN said[s] = 1..n /\ DOMAIN items[s] = 1..n /\ phase[s] = "open"
      /\ Len(Line(s)) \in Nat /\ calls = <<s, "begin">>
  BY CShape DEF CReads
<1>2. \A b \in 1..n : items[s][b] \in ItemType
  BY <1>1
<1>3. \A b \in 1..n : IsCall(s, b) => Waits(s, b) \/ Launched(s, b)
  BY <1>1 DEF CReads, Announced
<1>4. heap[l.dict] = Line(s) /\ Len(Line(s)) = l.size /\ l.pos \in Nat /\ l.pos \in 0..Len(Line(s))
  BY <1>1 DEF Halfway, Line
<1>5. \/ /\ \E p \in ahead :
              /\ \A q \in ahead : p <= q
              /\ C!Complete(Line(s)[p].ref)
              /\ loop' = [loop EXCEPT ![s] = [l EXCEPT !.pos = p]]
         /\ pc' = [pc EXCEPT ![s] = "sending"]
         /\ UNCHANGED <<message, calls>>
      \/ /\ ahead = {} /\ l.final
         /\ message' = <<>> /\ calls' = <<s, "end">>
         /\ pc' = [pc EXCEPT ![s] = "done"]
         /\ UNCHANGED <<items, loop>>
      \/ /\ ahead = {} /\ ~l.final
         /\ pc' = [pc EXCEPT ![s] = "reading"]
         /\ UNCHANGED <<items, message, calls, loop>>
  BY <1>4 DEF C!Iterate, C!Goto, C!None, C!At, At
<1>6. heap' = heap
  OBVIOUS
<1>7. message \in Ref /\ heap' \in [Stream \X {"begin", "end"} -> Seq(Entry)] /\ loop \in [Stream -> Iteration]
  BY DEF CInv
<1>8. Line(s)' = Line(s)
  BY DEF Line
<1>9. ASSUME NEW p \in ahead, \A q \in ahead : p <= q, C!Complete(Line(s)[p].ref),
             loop' = [loop EXCEPT ![s] = [l EXCEPT !.pos = p]],
             pc' = [pc EXCEPT ![s] = "sending"], UNCHANGED <<message, calls>>
      PROVE  CInv' /\ IS!Next
  <2>1. p \in 1..Len(Line(s)) /\ p > l.pos /\ p \in Nat /\ p > 0
    BY <1>4
  <2>2. PICK b \in 1..n : /\ Line(s)[p].ref = <<s, b>> /\ IsCall(s, b)
                          /\ \A q \in 1..Len(Line(s)) : Line(s)[q].ref = <<s, b>> => q = p
    BY <2>1, Entered
  <2>3. items[s][b].status = "in_progress" /\ items[s][b].runs = <<>>
    <3>1. CASE l.final
      <4>1. items[s][b].status = "in_progress"
        BY <2>2, <3>1 DEF At
      <4> QED
        BY <1>3, <2>2, <4>1 DEF Waits, Launched
    <3>2. CASE ~l.final
      BY <2>1, <2>2, <3>2 DEF Halfway, At
    <3> QED
      BY <3>1, <3>2
  <2>4. items' = [items EXCEPT ![s] = IS!Ended(items[s], {b}, "completed")]
    <3>1. items' = [items EXCEPT ![s] = [items[s] EXCEPT ![b].status = "completed"]]
      BY <1>9, <2>2 DEF C!Complete, C!End
    <3>2. [items[s] EXCEPT ![b].status = "completed"] = IS!Ended(items[s], {b}, "completed")
      BY <1>1, Settled
    <3> QED
      BY <3>1, <3>2
  <2>5. /\ said' \in [Stream -> Seq(BlockType)] /\ items' \in [Stream -> Seq(ItemType)]
        /\ \A t \in Stream \ {s} : said'[t] = said[t] /\ items'[t] = items[t]
        /\ Len(said'[s]) = Len(said[s])
        /\ \A a \in 1..Len(said[s]) :
             /\ IsCall(s, a)' = IsCall(s, a) /\ items'[s][a].runs = items[s][a].runs
             /\ items'[s][a].status = IF a \in {b} THEN "completed" ELSE items[s][a].status
        /\ Paired(s)' /\ AllClosed(s)' /\ Listed(s)' /\ Texted(s)' /\ pc'[s] = "sending" /\ IS!Next
    <3>1. {b} \in SUBSET (1..Len(said[s])) /\ "sending" \in Where \ {"idle", "done", "cut"}
      BY <2>2 DEF Where
    <3> QED
      BY <1>9, <2>4, <3>1, CSettles
  <2>6. /\ \A a \in 1..n : /\ items'[s][a].runs = items[s][a].runs
                           /\ a # b => items'[s][a].status = items[s][a].status
        /\ items'[s][b].status = "completed" /\ items'[s][b].runs = <<>>
    BY <2>3, <2>5
  <2>7. loop'[s] = [l EXCEPT !.pos = p] /\ loop' \in [Stream -> Iteration] /\ loop'[s].pos = p
    BY <1>1, <1>7, <1>9, <2>1 DEF Iteration
  <2>8. loop'[s].dict = l.dict /\ loop'[s].size = l.size /\ loop'[s].final = l.final
    BY <2>7 DEF Iteration
  <2>9. \A a \in 1..n : IsCall(s, a)' => Waits(s, a)' \/ Launched(s, a)' \/ Announced(s, a)'
    <3> SUFFICES ASSUME NEW a \in 1..n, IsCall(s, a)
                 PROVE  \/ items'[s][a].status = "in_progress" /\ items'[s][a].runs = <<>>
                        \/ items'[s][a].status = "completed" /\ items'[s][a].runs = <<s>>
                        \/ /\ pc'[s] = "sending" /\ Line(s)[p].ref = <<s, a>>
                           /\ items'[s][a].status = "completed" /\ items'[s][a].runs = <<>>
      BY <1>8, <2>5, <2>7 DEF Waits, Launched, Announced
    <3>1. CASE a = b
      BY <2>2, <2>5, <2>6, <3>1
    <3>2. CASE a # b
      BY <1>3, <2>6, <3>2 DEF Waits, Launched
    <3> QED
      BY <3>1, <3>2
  <2>10. ASSUME NEW q \in 1..Len(Line(s)), q # p
         PROVE  /\ At(Line(s)[q].ref).status' = At(Line(s)[q].ref).status
                /\ At(Line(s)[q].ref).runs' = At(Line(s)[q].ref).runs
    <3>1. PICK a \in 1..n : Line(s)[q].ref = <<s, a>>
      BY Entered
    <3>2. a # b
      BY <2>2, <2>10, <3>1
    <3> QED
      BY <1>8, <2>6, <3>1, <3>2 DEF At, Line
  <2>11. At(Line(s)[p].ref)'.status = "completed" /\ At(Line(s)[p].ref)'.runs = <<>>
    BY <2>2, <2>6 DEF At, Line
  <2>12. l.final => TextOver'
    <3> SUFFICES ASSUME l.final, message # <<>> PROVE items'[message[1]][message[2]].status # "in_progress"
      BY <1>9 DEF TextOver, At
    <3>1. At(message).status # "in_progress"
      BY DEF Halfway, TextOver
    <3>2. PICK m \in 1..n : message = <<s, m>>
      BY <1>1 DEF Texted
    <3>3. items[s][m].status # "in_progress"
      BY <3>1, <3>2 DEF At
    <3> QED
      BY <2>3, <2>6, <3>2, <3>3
  <2>13. Halfway(s, loop[s])'
    <3>1. loop'[s].dict = <<s, "begin">> /\ loop'[s].size = Len(Line(s)) /\ p \in 0..Len(Line(s))
      BY <1>4, <2>1, <2>8 DEF Halfway
    <3>2. ASSUME ~l.final, NEW q \in 1..Len(Line(s)), q > p
          PROVE  At(Line(s)[q].ref).status' = "in_progress" /\ At(Line(s)[q].ref).runs' = <<>>
      <4>1. q > l.pos /\ q # p
        BY <1>1, <1>4, <2>1, <3>2
      <4>2. At(Line(s)[q].ref).status = "in_progress" /\ At(Line(s)[q].ref).runs = <<>>
        BY <3>2, <4>1 DEF Halfway
      <4> QED
        BY <2>10, <4>1, <4>2
    <3>3. ASSUME l.final, NEW q \in 1..Len(Line(s)), q <= p
          PROVE  At(Line(s)[q].ref).status' # "in_progress"
      <4>1. CASE q = p
        BY <2>11, <4>1
      <4>2. CASE q # p
        <5>1. q < p
          BY <2>1, <3>3, <4>2
        <5>2. q \notin ahead
          BY <1>4, <1>9, <2>1, <5>1
        <5>3. PICK a \in 1..n : Line(s)[q].ref = <<s, a>>
          BY Entered
        <5>5. At(Line(s)[q].ref).status # "in_progress"
          <6>1. CASE q <= l.pos
            BY <3>3, <6>1 DEF Halfway
          <6>2. CASE q > l.pos
            <7>1. q \in (l.pos + 1)..Len(Line(s))
              BY <1>4, <6>2
            <7> QED
              BY <3>3, <5>2, <7>1
          <6> QED
            BY <1>4, <6>1, <6>2
        <5> QED
          BY <2>10, <4>2, <5>5
      <4> QED
        BY <4>1, <4>2
    <3> QED
      BY <1>8, <2>7, <2>8, <2>12, <3>1, <3>2, <3>3 DEF Halfway
  <2>14. CReads(s)'
    <3>1. LET item == At(Line(s)[p].ref)' IN item.status = "completed" /\ item.runs = <<>>
      BY <2>11
    <3> QED
      BY <1>1, <1>8, <1>9, <2>1, <2>5, <2>7, <2>9, <2>11, <2>13 DEF CReads
  <2>15. CInv'
    <3>1. "sending" \in Where \ {"idle"}
      BY DEF Where
    <3> QED
      BY <1>6, <1>7, <1>9, <2>5, <2>7, <2>14, <3>1, CMoves
  <2> QED
    BY <2>5, <2>15
<1>10. ASSUME ahead = {}, l.final, message' = <<>>, calls' = <<s, "end">>,
              pc' = [pc EXCEPT ![s] = "done"], UNCHANGED <<items, loop>>
       PROVE  CInv' /\ IS!Next
  <2>1. \A b \in 1..n : items[s][b].status # "in_progress"
    <3> SUFFICES ASSUME NEW b \in 1..n PROVE items[s][b].status # "in_progress"
      OBVIOUS
    <3>1. CASE IsCall(s, b)
      <4>1. PICK p \in 1..Len(Line(s)) : Line(s)[p].ref = <<s, b>>
        BY <1>1, <3>1 DEF Listed
      <4>2. CASE p <= l.pos
        BY <1>10, <4>1, <4>2 DEF Halfway, At
      <4>3. CASE p > l.pos
        <5>1. p \in (l.pos + 1)..Len(Line(s))
          BY <1>4, <4>3
        <5>2. At(Line(s)[p].ref).status # "in_progress"
          BY <1>10, <5>1
        <5> QED
          BY <4>1, <5>2 DEF At
      <4> QED
        BY <1>4, <4>2, <4>3
    <3>2. CASE ~IsCall(s, b)
      <4>1. message = <<s, b>> /\ message # <<>>
        BY <1>1, <3>2 DEF Texted
      <4>2. At(message).status # "in_progress"
        BY <1>10, <4>1 DEF Halfway, TextOver
      <4> QED
        BY <4>1, <4>2 DEF At
    <3> QED
      BY <3>1, <3>2
  <2>2. \A b \in 1..n : items[s][b].kind = "function_call" => items[s][b].runs = <<s>>
    BY <1>1, <1>3, <2>1 DEF Paired, IsCall, Waits, Launched
  <2>3. phase' = [phase EXCEPT ![s] = "done"] /\ said' = said
    <3>1. "done" \in Where
      BY DEF Where
    <3> QED
      BY <1>1, <1>10, <3>1, Suspends
  <2>4. IS!Finish(s)
    BY <1>1, <1>10, <2>1, <2>2, <2>3 DEF IS!Finish
  <2>5. CInv'
    <3>1. "done" \in Where \ {"idle"} /\ message' \in Ref /\ said \in [Stream -> Seq(BlockType)]
          /\ items \in [Stream -> Seq(ItemType)]
      BY <1>1, <1>10 DEF Where, Ref, BaseType
    <3>2. Paired(s)'
      BY <1>1, <1>10, <2>3 DEF Paired
    <3> QED
      BY <1>6, <1>7, <1>10, <2>3, <3>1, <3>2, CMoves
  <2> QED
    BY <1>1, <2>4, <2>5 DEF IS!Next, IS!Step
<1>11. ASSUME ahead = {}, ~l.final, pc' = [pc EXCEPT ![s] = "reading"],
              UNCHANGED <<items, message, calls, loop>>
       PROVE  CInv' /\ IS!Next
  <2>1. items' = [items EXCEPT ![s] = IS!Ended(items[s], {}, "completed")]
    <3>1. IS!Ended(items[s], {}, "completed") = items[s]
      BY <1>1, Settled
    <3> QED
      BY <1>1, <1>11, <3>1 DEF BaseType
  <2>2. /\ said' \in [Stream -> Seq(BlockType)] /\ items' \in [Stream -> Seq(ItemType)]
        /\ \A t \in Stream \ {s} : said'[t] = said[t] /\ items'[t] = items[t]
        /\ Len(said'[s]) = Len(said[s])
        /\ \A a \in 1..Len(said[s]) :
             /\ IsCall(s, a)' = IsCall(s, a) /\ items'[s][a].runs = items[s][a].runs
             /\ items'[s][a].status = IF a \in {} THEN "completed" ELSE items[s][a].status
        /\ Paired(s)' /\ AllClosed(s)' /\ Listed(s)' /\ Texted(s)' /\ pc'[s] = "reading" /\ IS!Next
    <3>1. {} \in SUBSET (1..Len(said[s])) /\ "reading" \in Where \ {"idle", "done", "cut"}
      BY DEF Where
    <3> QED
      BY <1>11, <2>1, <3>1, CSettles
  <2>3. \A a \in 1..n : IsCall(s, a)' => Waits(s, a)' \/ Launched(s, a)'
    BY <1>3, <1>11, <2>2 DEF Waits, Launched
  <2>4. CReads(s)'
    BY <1>1, <1>11, <2>2, <2>3 DEF CReads
  <2>5. CInv'
    <3>1. "reading" \in Where \ {"idle"}
      BY DEF Where
    <3> QED
      BY <1>6, <1>7, <1>11, <2>2, <2>4, <3>1, CMoves
  <2> QED
    BY <2>2, <2>5
<1> QED
  BY <1>5, <1>9, <1>10, <1>11

\* The blocks are closed by finish_reason, or have been.
LEMMA ClosedBy ==
  ASSUME CInv, NEW s \in Active, s \notin shared
  PROVE  /\ said' = said => said' = [said EXCEPT ![s] = IS!Closed(said[s], {})]
         /\ items' = items => items' = [items EXCEPT ![s] = IS!Ended(items[s], {}, "completed")]
         /\ \A b \in 1..Len(said[s]) : C!Complete(<<s, b>>) =>
              items' = [items EXCEPT ![s] = IS!Ended(items[s], {b}, "completed")]
<1>1. s \in Stream /\ BaseType /\ Len(items[s]) = Len(said[s])
  BY CShape
<1>2. IS!Closed(said[s], {}) = said[s] /\ IS!Ended(items[s], {}, "completed") = items[s]
  BY <1>1, Settled
<1>3. ASSUME NEW b \in 1..Len(said[s]), C!Complete(<<s, b>>)
      PROVE  items' = [items EXCEPT ![s] = IS!Ended(items[s], {b}, "completed")]
  <2>1. items' = [items EXCEPT ![s] = [items[s] EXCEPT ![b].status = "completed"]]
    BY <1>3 DEF C!Complete, C!End
  <2>2. [items[s] EXCEPT ![b].status = "completed"] = IS!Ended(items[s], {b}, "completed")
    BY <1>1, Settled
  <2> QED
    BY <2>1, <2>2
<1> QED
  BY <1>1, <1>2, <1>3 DEF BaseType

\* Outside a loop, a step that closes blocks and completes the text, if anything.
LEMMA CTextSettles ==
  ASSUME CInv, NEW s \in Active, s \notin shared, UNCHANGED shared, pc[s] = "reading",
         NEW J \in SUBSET (1..Len(said[s])), NEW I \in SUBSET (1..Len(said[s])),
         \A b \in 1..Len(said[s]) : said[s][b].closed \/ b \in J,
         \A b \in I : message = <<s, b>>,
         said' = [said EXCEPT ![s] = IS!Closed(said[s], J)],
         items' = [items EXCEPT ![s] = IS!Ended(items[s], I, "completed")],
         NEW w \in {"reading", "emitting", "finalizing"}, pc' = [pc EXCEPT ![s] = w],
         w = "finalizing" => message \in {<<s, b>> : b \in I},
         UNCHANGED <<message, calls, heap, loop>>
  PROVE  CInv' /\ IS!Next
<1> DEFINE n == Len(said[s])
<1>1. /\ said' \in [Stream -> Seq(BlockType)] /\ items' \in [Stream -> Seq(ItemType)]
      /\ \A t \in Stream \ {s} : said'[t] = said[t] /\ items'[t] = items[t]
      /\ Len(said'[s]) = Len(said[s])
      /\ \A b \in 1..Len(said[s]) :
           /\ IsCall(s, b)' = IsCall(s, b) /\ items'[s][b].runs = items[s][b].runs
           /\ items'[s][b].status = IF b \in I THEN "completed" ELSE items[s][b].status
      /\ Paired(s)' /\ AllClosed(s)' /\ Listed(s)' /\ Texted(s)' /\ pc'[s] = w /\ IS!Next
  <2>1. w \in Where \ {"idle", "done", "cut"}
    BY DEF Where
  <2> QED
    BY <2>1, CSettles
<1>2. CReads(s) /\ calls = <<s, "begin">>
  BY CShape
<1>3. \A b \in 1..n : IsCall(s, b) => b \notin I
  <2> SUFFICES ASSUME NEW b \in 1..n, IsCall(s, b), b \in I PROVE FALSE
    OBVIOUS
  <2>1. message = <<s, b>> /\ message # <<>>
    OBVIOUS
  <2>2. PICK m \in 1..n : message = <<s, m>> /\ \A a \in 1..n : IsCall(s, a) <=> a # m
    BY <1>2, <2>1 DEF CReads, Texted
  <2> QED
    BY <2>1, <2>2
<1>4. \A b \in 1..n : IsCall(s, b)' => Waits(s, b)' \/ Launched(s, b)'
  <2> SUFFICES ASSUME NEW b \in 1..n, IsCall(s, b) PROVE Waits(s, b)' \/ Launched(s, b)'
    BY <1>1
  <2>1. items'[s][b].runs = items[s][b].runs /\ items'[s][b].status = items[s][b].status
    BY <1>1, <1>3
  <2>2. Waits(s, b) \/ Launched(s, b)
    BY <1>2 DEF CReads, Announced
  <2> QED
    BY <2>1, <2>2 DEF Waits, Launched
<1>5. w = "finalizing" => TextOver'
  <2> SUFFICES ASSUME w = "finalizing" PROVE TextOver'
    OBVIOUS
  <2>1. PICK b \in I : message = <<s, b>>
    OBVIOUS
  <2>2. items'[s][b].status = "completed"
    BY <1>1
  <2> QED
    BY <2>1, <2>2 DEF TextOver, At
<1>6. CReads(s)'
  BY <1>1, <1>2, <1>4, <1>5 DEF CReads
<1>7. CInv'
  <2>1. /\ message' \in Ref /\ heap' \in [Stream \X {"begin", "end"} -> Seq(Entry)]
        /\ loop' \in [Stream -> Iteration] /\ w \in Where \ {"idle"}
        /\ heap' = heap
    BY DEF CInv, Where, Line
  <2> QED
    BY <1>1, <1>6, <2>1, CMoves
<1> QED
  BY <1>1, <1>7

\* finish_reason
LEMMA CFinishChunk ==
  ASSUME CInv, NEW s \in Stream, s \notin shared, UNCHANGED shared, NEW reason \in {"stop", "tool_calls", "length"},
         C!FinishChunk(s, reason)
  PROVE  CInv' /\ IS!Next
<1> DEFINE n == Len(said[s])
<1>1. s \in Active /\ pc[s] = "reading" /\ AllOpen(s)
  BY CUnfinished DEF C!FinishChunk
<1>2. /\ BaseType /\ Len(items[s]) = n /\ DOMAIN said[s] = 1..n /\ calls = <<s, "begin">>
      /\ heap[calls] = Line(s) /\ Len(Line(s)) \in Nat /\ n \in Nat /\ Listed(s) /\ Texted(s)
  BY <1>1, CShape DEF CReads
<1>3. said' = [said EXCEPT ![s] = IS!Closed(said[s], 1..n)]
  <2>1. said' = [said EXCEPT ![s] = [b \in DOMAIN said[s] |-> [said[s][b] EXCEPT !.closed = TRUE]]]
    BY DEF C!FinishChunk
  <2>2. IS!Closed(said[s], DOMAIN said[s]) = [b \in DOMAIN said[s] |-> [said[s][b] EXCEPT !.closed = TRUE]]
    BY <1>2, Settled
  <2> QED
    BY <1>2, <2>1, <2>2
<1>4. UNCHANGED heap
  BY DEF C!FinishChunk
<1>5. CASE C!Iterate(s, C!NewLoop(FALSE))
  <2> DEFINE l == C!NewLoop(FALSE)
  <2>1. /\ l.dict = <<s, "begin">> /\ l.pos = 0 /\ l.size = Len(Line(s)) /\ l.final = FALSE
        /\ l \in Iteration
    BY <1>2 DEF C!NewLoop, Iteration
  <2>2. ASSUME NEW p \in 1..Len(Line(s))
        PROVE  At(Line(s)[p].ref).status = "in_progress" /\ At(Line(s)[p].ref).runs = <<>>
    <3>1. PICK b \in 1..n : Line(s)[p].ref = <<s, b>>
      BY <1>1, Entered
    <3> QED
      BY <1>1, <3>1 DEF At, AllOpen, Waits
  <2>3. Halfway(s, l)
    <3>1. 0 \in 0..Len(Line(s))
      BY <1>2
    <3> HIDE DEF l
    <3> QED
      BY <2>1, <2>2, <3>1 DEF Halfway
  <2>4. 1..n \in SUBSET (1..Len(said[s])) /\ \A b \in 1..n : said[s][b].closed \/ b \in 1..n
    OBVIOUS
  <2> HIDE DEF l
  <2>5. C!Iterate(s, l)
    BY <1>5 DEF l
  <2> QED
    BY <1>1, <1>3, <1>4, <2>1, <2>3, <2>4, <2>5, CIterates
<1>6. CASE /\ message # <<>> /\ C!Complete(message) /\ C!Goto(s, "emitting")
           /\ UNCHANGED <<message, calls, loop>>
  <2>1. PICK m \in 1..n : message = <<s, m>>
    BY <1>2, <1>6 DEF Texted
  <2>2. items' = [items EXCEPT ![s] = IS!Ended(items[s], {m}, "completed")]
    BY <1>1, <1>6, <2>1, ClosedBy
  <2>3. pc' = [pc EXCEPT ![s] = "emitting"]
    BY <1>6 DEF C!Goto
  <2>4. /\ {m} \in SUBSET (1..Len(said[s])) /\ 1..n \in SUBSET (1..Len(said[s]))
        /\ \A b \in {m} : message = <<s, b>>
    BY <2>1
  <2> QED
    BY <1>1, <1>3, <1>4, <1>6, <2>2, <2>3, <2>4, CTextSettles
<1>7. CASE UNCHANGED <<items, pc, message, calls, loop>>
  <2>1. items' = [items EXCEPT ![s] = IS!Ended(items[s], {}, "completed")]
    BY <1>1, <1>7, ClosedBy
  <2>2. pc' = [pc EXCEPT ![s] = "reading"]
    BY <1>1, <1>2, <1>7 DEF BaseType
  <2>3. {} \in SUBSET (1..Len(said[s])) /\ 1..n \in SUBSET (1..Len(said[s]))
    OBVIOUS
  <2> QED
    BY <1>1, <1>3, <1>4, <1>7, <2>1, <2>2, <2>3, CTextSettles
<1> QED
  BY <1>5, <1>6, <1>7 DEF C!FinishChunk, C!None

\* The call just announced is launched.
LEMMA CLaunchItem ==
  ASSUME CInv, NEW s \in Stream, s \notin shared, UNCHANGED shared, C!LaunchItem(s)
  PROVE  CInv' /\ IS!Next
<1> DEFINE n == Len(said[s])
           p == loop[s].pos
<1>1. s \in Active /\ pc[s] = "sending"
  BY DEF C!LaunchItem, Active
<1>2. /\ BaseType /\ Paired(s) /\ CReads(s) /\ calls = <<s, "begin">>
      /\ items[s] \in Seq(ItemType) /\ Len(items[s]) = n /\ DOMAIN items[s] = 1..n /\ n \in Nat
      /\ DOMAIN said[s] = 1..n /\ Len(Line(s)) \in Nat /\ phase[s] = "open"
  BY <1>1, CShape
<1>3. Listed(s) /\ Texted(s) /\ AllClosed(s) /\ Halfway(s, loop[s]) /\ p > 0 /\ p \in 0..Len(Line(s))
  BY <1>1, <1>2 DEF CReads, Halfway
<1>4. p \in 1..Len(Line(s)) /\ heap[loop[s].dict] = Line(s)
  BY <1>2, <1>3 DEF Halfway, Line
<1>5. PICK b \in 1..n : /\ Line(s)[p].ref = <<s, b>> /\ IsCall(s, b)
                        /\ \A q \in 1..Len(Line(s)) : Line(s)[q].ref = <<s, b>> => q = p
  BY <1>1, <1>4, Entered
<1>6. items[s][b].status = "completed" /\ items[s][b].runs = <<>> /\ items[s][b].kind = "function_call"
  BY <1>1, <1>2, <1>5 DEF CReads, At, Paired, IsCall
<1> DEFINE item == [items[s][b] EXCEPT !.runs = <<s>>]
<1>7. /\ items' = [items EXCEPT ![s] = [items[s] EXCEPT ![b] = item]]
      /\ pc' = [pc EXCEPT ![s] = "launching"]
      /\ UNCHANGED <<said, message, calls, heap, loop>>
  <2>1. C!Run(<<s, b>>, s) /\ C!Goto(s, "launching") /\ UNCHANGED <<said, message, calls, heap, loop>>
    BY <1>4, <1>5 DEF C!LaunchItem
  <2>2. items' = [items EXCEPT ![s][b].runs = Append(items[s][b].runs, s)]
    BY <2>1 DEF C!Run
  <2>3. Append(items[s][b].runs, s) = <<s>>
    BY <1>6
  <2> QED
    BY <2>1, <2>2, <2>3 DEF C!Goto
<1>8. item \in ItemType /\ item.kind = items[s][b].kind /\ item.status = "completed" /\ item.runs = <<s>>
  <2>1. items[s][b] \in ItemType /\ <<s>> \in Seq(Stream)
    BY <1>2
  <2> QED
    BY <1>6, <2>1 DEF ItemType
<1> HIDE DEF item
<1>9. /\ items' \in [Stream -> Seq(ItemType)] /\ \A t \in Stream \ {s} : items'[t] = items[t]
      /\ Len(items'[s]) = n /\ \A a \in 1..n \ {b} : items'[s][a] = items[s][a]
      /\ items'[s][b] = item
  <2>1. items \in [Stream -> Seq(ItemType)] /\ b \in DOMAIN items[s]
    BY <1>2 DEF BaseType
  <2>2. /\ items' \in [Stream -> Seq(ItemType)] /\ \A t \in Stream \ {s} : items'[t] = items[t]
        /\ Len(items'[s]) = Len(items[s]) /\ \A a \in DOMAIN items[s] \ {b} : items'[s][a] = items[s][a]
        /\ items'[s][b] = item
    BY ONLY s \in Stream, <1>7, <1>8, <2>1, Replaced
  <2> QED
    BY <1>2, <2>2
<1>10. \A a \in 1..n : /\ items'[s][a].kind = items[s][a].kind
                       /\ items'[s][a].status = items[s][a].status
                       /\ a # b => items'[s][a].runs = items[s][a].runs
  BY <1>6, <1>8, <1>9
<1>11. Paired(s)' /\ pc'[s] = "launching" /\ Line(s)' = Line(s)
  BY <1>2, <1>7, <1>9, <1>10 DEF Paired, BaseType, Line
<1>12. Listed(s)' /\ Texted(s)' /\ AllClosed(s)'
  BY <1>3, <1>7 DEF Listed, Texted, AllClosed, IsCall, Line
<1>13. \A a \in 1..n : IsCall(s, a)' => Waits(s, a)' \/ Launched(s, a)'
  <2> SUFFICES ASSUME NEW a \in 1..n, IsCall(s, a) PROVE Waits(s, a)' \/ Launched(s, a)'
    BY <1>7 DEF IsCall
  <2>1. CASE a = b
    BY <1>8, <1>9, <2>1 DEF Launched
  <2>2. CASE a # b
    <3>1. ~Announced(s, a)
      BY <1>5, <2>2 DEF Announced
    <3>2. Waits(s, a) \/ Launched(s, a)
      BY <1>2, <3>1 DEF CReads
    <3> QED
      BY <1>10, <2>2, <3>2 DEF Waits, Launched
  <2> QED
    BY <2>1, <2>2
<1>14. ASSUME NEW q \in 1..Len(Line(s))
       PROVE  /\ At(Line(s)[q].ref).status' = At(Line(s)[q].ref).status
              /\ q # p => At(Line(s)[q].ref).runs' = At(Line(s)[q].ref).runs
  <2>1. PICK a \in 1..n : /\ Line(s)[q].ref = <<s, a>>
                          /\ \A r \in 1..Len(Line(s)) : Line(s)[r].ref = <<s, a>> => r = q
    BY <1>1, Entered
  <2>2. q # p => a # b
    BY <1>5, <2>1
  <2> QED
    BY <1>10, <1>11, <2>1, <2>2 DEF At, Line
<1>15. Halfway(s, loop[s])'
  <2>1. TextOver' = TextOver
    <3>1. CASE message = <<>>
      BY <1>7, <3>1 DEF TextOver
    <3>2. CASE message # <<>>
      <4>1. PICK m \in 1..n : message = <<s, m>>
        BY <1>3, <3>2 DEF Texted
      <4> QED
        BY <1>7, <1>10, <3>2, <4>1 DEF TextOver, At
    <3> QED
      BY <3>1, <3>2
  <2>2. \A q \in 1..Len(Line(s)) : q > p => q # p
    BY <1>2, <1>4
  <2> QED
    BY <1>3, <1>7, <1>11, <1>14, <2>1, <2>2 DEF Halfway
<1>16. CReads(s)'
  BY <1>2, <1>3, <1>7, <1>11, <1>12, <1>13, <1>15 DEF CReads
<1>17. CInv'
  <2>1. /\ message' \in Ref /\ heap' \in [Stream \X {"begin", "end"} -> Seq(Entry)]
        /\ loop' \in [Stream -> Iteration] /\ heap' = heap
        /\ "launching" \in Where \ {"idle"} /\ said' \in [Stream -> Seq(BlockType)]
    BY <1>2, <1>7 DEF CInv, Where, Line, BaseType
  <2> QED
    BY <1>1, <1>7, <1>9, <1>11, <1>16, <2>1, CMoves
<1>18. phase' = phase
  BY <1>1, <1>2, <1>7, Suspends DEF Where
<1>19. IS!Launch(s, b)
  <2>1. items' = [items EXCEPT ![s][b].runs = <<s>>]
    BY <1>7 DEF item
  <2> QED
    BY <1>2, <1>6, <1>7, <1>18, <2>1 DEF IS!Launch
<1> QED
  BY <1>2, <1>17, <1>19 DEF IS!Next, IS!Step

LEMMA CContinue ==
  ASSUME CInv, NEW s \in Stream, s \notin shared, UNCHANGED shared, C!Continue(s)
  PROVE  CInv' /\ IS!Next
<1>1. s \in Active /\ pc[s] = "launching" /\ C!Iterate(s, loop[s]) /\ said' = said /\ UNCHANGED heap
  BY DEF C!Continue, Active
<1>2. Halfway(s, loop[s]) /\ AllClosed(s) /\ loop[s] \in Iteration
  BY <1>1, CShape DEF CReads, CInv
<1>3. said' = [said EXCEPT ![s] = IS!Closed(said[s], {})]
  BY <1>1, ClosedBy
<1>4. {} \in SUBSET (1..Len(said[s])) /\ \A b \in 1..Len(said[s]) : said[s][b].closed \/ b \in {}
  BY <1>2 DEF AllClosed
<1> QED
  BY <1>1, <1>2, <1>3, <1>4, CIterates

\* [DONE]: first the text ...
LEMMA CFinalizeText ==
  ASSUME CInv, NEW s \in Stream, s \notin shared, UNCHANGED shared, C!FinalizeText(s)
  PROVE  CInv' /\ IS!Next
<1> DEFINE n == Len(said[s])
<1>1. /\ s \in Active /\ pc[s] = "reading" /\ \A b \in DOMAIN said[s] : said[s][b].closed
      /\ message # <<>> /\ C!Complete(message) /\ pc' = [pc EXCEPT ![s] = "finalizing"]
      /\ UNCHANGED <<said, message, calls, heap, loop>>
  BY DEF C!FinalizeText, C!OpenBlocks, C!Goto, C!None, Active
<1>2. DOMAIN said[s] = 1..n /\ Texted(s)
  BY <1>1, CShape DEF CReads
<1>3. PICK m \in 1..n : message = <<s, m>>
  BY <1>1, <1>2 DEF Texted
<1>4. items' = [items EXCEPT ![s] = IS!Ended(items[s], {m}, "completed")]
  BY <1>1, <1>3, ClosedBy
<1>5. said' = [said EXCEPT ![s] = IS!Closed(said[s], {})]
  BY <1>1, ClosedBy
<1>6. /\ {m} \in SUBSET (1..Len(said[s])) /\ {} \in SUBSET (1..Len(said[s]))
      /\ \A b \in 1..Len(said[s]) : said[s][b].closed \/ b \in {}
      /\ \A b \in {m} : message = <<s, b>>
      /\ message \in {<<s, b>> : b \in {m}}
  BY <1>1, <1>2, <1>3
<1> QED
  BY <1>1, <1>4, <1>5, <1>6, CTextSettles

\* ... and then the calls.
LEMMA CFinalizeCalls ==
  ASSUME CInv, NEW s \in Stream, s \notin shared, UNCHANGED shared, C!FinalizeCalls(s)
  PROVE  CInv' /\ IS!Next
<1> DEFINE n == Len(said[s])
           l == C!NewLoop(TRUE)
<1>1. /\ C!Iterate(s, l) /\ said' = said /\ UNCHANGED heap
      /\ \/ pc[s] = "finalizing"
         \/ /\ pc[s] = "reading" /\ \A b \in DOMAIN said[s] : said[s][b].closed
            /\ message # <<>> => At(message).status # "in_progress"
  BY DEF C!FinalizeCalls, C!OpenBlocks, C!None, C!At, At
<1>2. s \in Active
  BY <1>1 DEF Active
<1>3. /\ CReads(s) /\ DOMAIN said[s] = 1..n /\ calls = <<s, "begin">> /\ heap[calls] = Line(s)
      /\ Len(Line(s)) \in Nat
  BY <1>2, CShape
<1>4. AllClosed(s)
  BY <1>1, <1>3 DEF CReads, AllClosed
<1>5. TextOver
  BY <1>1, <1>3 DEF TextOver, CReads
<1>6. /\ l.dict = <<s, "begin">> /\ l.pos = 0 /\ l.size = Len(Line(s)) /\ l.final = TRUE
      /\ l \in Iteration
  BY <1>2, <1>3 DEF C!NewLoop, Iteration, Active
<1>7. said' = [said EXCEPT ![s] = IS!Closed(said[s], {})]
  BY <1>1, <1>2, ClosedBy
<1>8. {} \in SUBSET (1..Len(said[s])) /\ \A b \in 1..Len(said[s]) : said[s][b].closed \/ b \in {}
  BY <1>4 DEF AllClosed
<1> HIDE DEF l
<1>9. Halfway(s, l)
  <2>1. 0 \in 0..Len(Line(s)) /\ \A p \in 1..Len(Line(s)) : ~(p <= 0)
    BY <1>3
  <2> QED
    BY <1>5, <1>6, <2>1 DEF Halfway
<1>10. pc[s] # "sending"
  BY <1>1
<1> QED
  BY <1>1, <1>2, <1>6, <1>7, <1>8, <1>9, <1>10, CIterates

LEMMA CEmitted ==
  ASSUME CInv, NEW s \in Stream, s \notin shared, UNCHANGED shared, C!Emitted(s)
  PROVE  CInv' /\ UNCHANGED IS!vars
<1>1. /\ s \in Active /\ pc[s] = "emitting" /\ pc' = [pc EXCEPT ![s] = "reading"]
      /\ UNCHANGED <<said, items, message, calls, heap, loop>>
  BY DEF C!Emitted, C!Goto, Active
<1>2. BaseType /\ CReads(s) /\ Paired(s)
  BY <1>1, CShape
<1>3. pc'[s] = "reading" /\ phase' = phase
  BY <1>1, <1>2, Suspends DEF BaseType, Where
<1>4. Paired(s)' /\ Listed(s)' /\ Texted(s)' /\ AllOpen(s)' = AllOpen(s) /\ AllClosed(s)' = AllClosed(s)
  BY <1>1, <1>2 DEF CReads, Paired, Listed, Texted, AllOpen, AllClosed, IsCall, Line, Waits
<1>5. \A b \in 1..Len(said[s]) : IsCall(s, b)' => Waits(s, b)' \/ Launched(s, b)'
  BY <1>1, <1>2 DEF CReads, IsCall, Waits, Launched, Announced
<1>6. CReads(s)'
  BY <1>1, <1>2, <1>3, <1>4, <1>5 DEF CReads
<1>7. CInv'
  <2>1. /\ message' \in Ref /\ heap' \in [Stream \X {"begin", "end"} -> Seq(Entry)]
        /\ loop' \in [Stream -> Iteration] /\ heap' = heap
        /\ "reading" \in Where \ {"idle"} /\ said' \in [Stream -> Seq(BlockType)]
        /\ items' \in [Stream -> Seq(ItemType)]
    BY <1>1, <1>2 DEF CInv, Where, Line, BaseType
  <2> QED
    BY <1>1, <1>4, <1>6, <2>1, CMoves
<1> QED
  BY <1>1, <1>3, <1>7 DEF IS!vars

LEMMA CCut ==
  ASSUME CInv, NEW s \in Stream, s \notin shared, UNCHANGED shared, C!Cut(s)
  PROVE  CInv' /\ IS!Next
<1>1. /\ s \in Active /\ pc' = [pc EXCEPT ![s] = "cut"]
      /\ UNCHANGED <<said, items, message, calls, heap, loop>>
  BY SameNames DEF C!Cut, C!Goto
<1>2. BaseType /\ Paired(s)
  BY <1>1, CShape
<1>3. /\ message' \in Ref /\ heap' \in [Stream \X {"begin", "end"} -> Seq(Entry)]
      /\ loop' \in [Stream -> Iteration] /\ heap' = heap
      /\ "cut" \in Where \ {"idle"} /\ said' \in [Stream -> Seq(BlockType)]
      /\ items' \in [Stream -> Seq(ItemType)] /\ Paired(s)'
  BY <1>1, <1>2 DEF CInv, Where, Line, BaseType, Paired
<1>4. CInv'
  BY <1>1, <1>3, CMoves
<1>5. IS!Next
  BY <1>1, <1>2, CutIsCut
<1> QED
  BY <1>4, <1>5

-----------------------------------------------------------------------------
\* Responses that are read side by side.

\* Whatever becomes of them, the ones that are read alone are not touched.
LEMMA CAside ==
  ASSUME CInv, NEW s \in Active, s \in shared, UNCHANGED shared,
         NEW w \in Where \ {"idle"}, pc' = [pc EXCEPT ![s] = w],
         said' \in [Stream -> Seq(BlockType)], \A t \in Stream \ {s} : said'[t] = said[t],
         items' \in [Stream -> Seq(ItemType)], \A t \in Stream \ shared : items'[t] = items[t],
         message' \in Ref, message' # <<>> => message'[1] \in shared,
         calls' \in Stream \X {"begin", "end"}, calls'[1] \in shared,
         heap' \in [Stream \X {"begin", "end"} -> Seq(Entry)],
         \A t \in Stream \ shared : Line(t)' = Line(t),
         \A d \in Stream \X {"begin", "end"} :
           /\ DOMAIN heap[d] \subseteq DOMAIN heap'[d]
           /\ \A p \in DOMAIN heap'[d] : heap'[d][p].ref[1] \in shared \cup {d[1]},
         loop' \in [Stream -> Iteration], \A t \in Stream \ {s} : loop'[t] = loop[t],
         w \in {"sending", "launching"} =>
           /\ loop'[s].dict \in Stream \X {"begin", "end"} /\ loop'[s].dict[1] \in shared
           /\ loop'[s].pos \in DOMAIN heap'[loop'[s].dict]
  PROVE  CInv' /\ \A t \in Stream \ shared : IS!Follows(t)
<1>1. s \in Stream /\ BaseType /\ Active' \subseteq Active /\ Active \subseteq shared /\ Active \subseteq Stream
  <2>1. BaseType /\ s \in Stream
    BY DEF CInv, Active
  <2> QED
    BY <2>1, Suspends, AllShared DEF CInv, Active
<1>2. BaseType' /\ pc'[s] = w /\ \A t \in Stream \ {s} : pc'[t] = pc[t]
  BY <1>1 DEF BaseType
<1>3. \A t \in Stream \ shared : said'[t] = said[t] /\ items'[t] = items[t] /\ pc'[t] = pc[t]
  BY <1>2
<1>4. \A t \in Stream \ shared : Paired(t)' /\ (pc'[t] = "idle" => said'[t] = <<>> /\ Line(t)' = <<>>)
  BY <1>3 DEF CInv, Paired
<1>5. Active' \subseteq shared' /\ Sharing'
  BY <1>1 DEF Sharing
<1>6. CHolds'
  <2>1. ASSUME NEW t \in Active', pc'[t] \in {"sending", "launching"}
        PROVE  /\ loop'[t].dict \in Stream \X {"begin", "end"} /\ loop'[t].dict[1] \in shared'
               /\ loop'[t].pos \in DOMAIN heap'[loop'[t].dict]
    <3>1. CASE t = s
      BY <1>2, <2>1, <3>1
    <3>2. CASE t # s
      <4>1. t \in Active /\ t \in shared /\ pc'[t] = pc[t] /\ loop'[t] = loop[t]
        BY <1>1, <1>2, <3>2
      <4>2. /\ loop[t].dict \in Stream \X {"begin", "end"} /\ loop[t].dict[1] \in shared
            /\ loop[t].pos \in DOMAIN heap[loop[t].dict]
        BY <2>1, <4>1 DEF CInv, CHolds
      <4> QED
        BY <4>1, <4>2
    <3> QED
      BY <3>1, <3>2
  <2> QED
    BY <2>1 DEF CHolds
<1>7. CInv'
  BY <1>2, <1>4, <1>5, <1>6 DEF CInv
<1>8. \A t \in Stream \ shared : phase'[t] = phase[t]
  BY <1>1, <1>3 DEF phase, Active
<1> QED
  BY <1>3, <1>7, <1>8 DEF IS!Follows

\* Most steps leave the dicts and the loops alone, and do not end in a loop.
LEMMA COutside ==
  ASSUME CInv, NEW s \in Active, s \in shared, UNCHANGED <<shared, calls, heap, loop>>,
         NEW w \in {"reading", "emitting", "finalizing", "cut"}, pc' = [pc EXCEPT ![s] = w],
         said' \in [Stream -> Seq(BlockType)], \A t \in Stream \ {s} : said'[t] = said[t],
         items' \in [Stream -> Seq(ItemType)], \A t \in Stream \ shared : items'[t] = items[t],
         message' \in Ref, message' # <<>> => message'[1] \in shared
  PROVE  CInv' /\ \A t \in Stream \ shared : IS!Follows(t)
<1>1. /\ heap' \in [Stream \X {"begin", "end"} -> Seq(Entry)] /\ loop' \in [Stream -> Iteration]
      /\ calls' \in Stream \X {"begin", "end"} /\ calls'[1] \in shared
      /\ \A d \in Stream \X {"begin", "end"} :
           /\ DOMAIN heap[d] \subseteq DOMAIN heap'[d]
           /\ \A p \in DOMAIN heap'[d] : heap'[d][p].ref[1] \in shared \cup {d[1]}
  BY AllShared DEF CInv, CHolds
<1>2. \A t \in Stream \ shared : Line(t)' = Line(t)
  BY DEF Line
<1>3. w \in Where \ {"idle"} /\ w \notin {"sending", "launching"}
  BY DEF Where
<1> QED
  BY <1>1, <1>2, <1>3, CAside

\* A loop touches an item of a dict that belongs to such a response.
LEMMA CIteratesAside ==
  ASSUME CInv, NEW s \in Active, s \in shared, UNCHANGED <<shared, heap>>,
         said' \in [Stream -> Seq(BlockType)], \A t \in Stream \ {s} : said'[t] = said[t],
         NEW l \in Iteration, l.dict \in Stream \X {"begin", "end"}, l.dict[1] \in shared,
         C!Iterate(s, l)
  PROVE  CInv' /\ \A t \in Stream \ shared : IS!Follows(t)
<1> DEFINE entries == heap[l.dict]
           ahead == {p \in (l.pos + 1)..Len(entries) :
                       l.final => C!At(entries[p].ref).status = "in_progress"}
<1>1. /\ s \in Stream /\ BaseType /\ message \in Ref /\ heap \in [Stream \X {"begin", "end"} -> Seq(Entry)]
      /\ loop \in [Stream -> Iteration] /\ calls \in Stream \X {"begin", "end"} /\ calls[1] \in shared
      /\ message # <<>> => message[1] \in shared
      /\ \A d \in Stream \X {"begin", "end"} :
           \A p \in DOMAIN heap[d] : heap[d][p].ref[1] \in shared \cup {d[1]}
  BY AllShared DEF CInv, CHolds, Active
<1>2. \A t \in Stream : Line(t)' = Line(t)
  BY DEF Line
<1>3. ASSUME NEW p \in ahead, C!Complete(entries[p].ref),
             loop' = [loop EXCEPT ![s] = [l EXCEPT !.pos = p]],
             pc' = [pc EXCEPT ![s] = "sending"], UNCHANGED <<message, calls>>
      PROVE  CInv' /\ \A t \in Stream \ shared : IS!Follows(t)
  <2>1. entries \in Seq(Entry) /\ l.pos \in Nat /\ p \in Nat /\ p \in DOMAIN entries
    <3>1. entries \in Seq(Entry) /\ l.pos \in Nat
      BY <1>1 DEF Iteration
    <3>2. p \in (l.pos + 1)..Len(entries)
      OBVIOUS
    <3> HIDE DEF entries, ahead
    <3>3. DOMAIN entries = 1..Len(entries) /\ Len(entries) \in Nat
      BY <3>1
    <3> QED
      BY <3>1, <3>2, <3>3
  <2>2. entries[p].ref \in Stream \X Nat /\ entries[p].ref[1] \in shared
    <3>1. entries[p] \in Entry
      BY <2>1
    <3> QED
      BY <1>1, <2>1, <3>1 DEF Entry
  <2>3. items' \in [Stream -> Seq(ItemType)] /\ \A t \in Stream \ shared : items'[t] = items[t]
    BY <1>1, <1>3, <2>2, Ending DEF C!Complete, C!End
  <2>4. /\ loop' \in [Stream -> Iteration] /\ \A t \in Stream \ {s} : loop'[t] = loop[t]
        /\ loop'[s].dict = l.dict /\ loop'[s].pos = p
    BY <1>1, <1>3, <2>1 DEF Iteration
  <2>5. loop'[s].pos \in DOMAIN heap'[loop'[s].dict]
    BY <2>1, <2>4
  <2> HIDE DEF entries, ahead
  <2> QED
    BY <1>1, <1>2, <1>3, <2>3, <2>4, <2>5, CAside DEF Where
<1>4. ASSUME NEW w \in {"cut", "done", "reading"}, pc' = [pc EXCEPT ![s] = w], UNCHANGED <<items, loop>>,
             \/ UNCHANGED <<message, calls>>
             \/ message' = <<>> /\ calls' = <<s, "end">>
      PROVE  CInv' /\ \A t \in Stream \ shared : IS!Follows(t)
  <2>1. items' \in [Stream -> Seq(ItemType)] /\ \A t \in Stream \ shared : items'[t] = items[t]
    BY <1>1, <1>4 DEF BaseType
  <2>2. /\ message' \in Ref /\ (message' # <<>> => message'[1] \in shared)
        /\ calls' \in Stream \X {"begin", "end"} /\ calls'[1] \in shared
    BY <1>1, <1>4 DEF Ref
  <2>3. loop' \in [Stream -> Iteration] /\ \A t \in Stream \ {s} : loop'[t] = loop[t]
    BY <1>1, <1>4
  <2> QED
    BY <1>1, <1>2, <1>4, <2>1, <2>2, <2>3, CAside DEF Where
<1> QED
  BY <1>3, <1>4 DEF C!Iterate, C!Goto, C!None

\* Read side by side with others, a response takes what step it may.
LEMMA CShared ==
  ASSUME CInv, NEW s \in Active, s \in shared, UNCHANGED shared,
         \/ C!ContentChunk(s) \/ C!CallChunk(s) \/ C!LaunchItem(s) \/ C!Continue(s)
         \/ C!FinalizeText(s) \/ C!FinalizeCalls(s) \/ C!Emitted(s) \/ C!Cut(s)
         \/ \E reason \in {"stop", "tool_calls", "length"} : C!FinishChunk(s, reason)
  PROVE  CInv' /\ \A t \in Stream \ shared : IS!Follows(t)
<1>1. /\ s \in Stream /\ BaseType /\ pc \in [Stream -> Where] /\ pc[s] # "idle"
      /\ message \in Ref /\ heap \in [Stream \X {"begin", "end"} -> Seq(Entry)]
      /\ loop \in [Stream -> Iteration] /\ calls \in Stream \X {"begin", "end"} /\ calls[1] \in shared
      /\ message # <<>> => message \in Stream \X Nat /\ message[1] \in shared
      /\ \A d \in Stream \X {"begin", "end"} :
           \A p \in DOMAIN heap[d] : heap[d][p].ref[1] \in shared \cup {d[1]}
      /\ pc[s] \in {"sending", "launching"} =>
           /\ loop[s].dict \in Stream \X {"begin", "end"} /\ loop[s].dict[1] \in shared
           /\ loop[s].pos \in DOMAIN heap[loop[s].dict]
      /\ pc = [pc EXCEPT ![s] = pc[s]]
  BY AllShared DEF CInv, CHolds, BaseType, Active, Ref
<1>2. /\ said \in [Stream -> Seq(BlockType)] /\ items \in [Stream -> Seq(ItemType)]
      /\ Len(items[s]) \in Nat
  BY <1>1 DEF BaseType
<1>3. ASSUME NEW k \in IS!Kind, NEW b \in 1..ChatBlocks, C!Piece(s, k, b)
      PROVE  /\ said' \in [Stream -> Seq(BlockType)] /\ \A t \in Stream \ {s} : said'[t] = said[t]
             /\ <<s, b>> \in Stream \X Nat
  <2>1. b \in Nat
    OBVIOUS
  <2>2. CASE C!Says(s, k)
    <3>1. said' = [said EXCEPT ![s] = Append(said[s], IS!Block(k))]
      BY <2>2 DEF C!Says, C!IS!Block, IS!Block
    <3> QED
      BY <1>1, <2>1, <3>1, SayingNew
  <2>3. CASE b \in DOMAIN said[s] /\ C!SaysMore(s, b)
    BY <1>1, <2>1, <2>3, SayingMore DEF C!SaysMore
  <2> QED
    BY <1>3, <2>2, <2>3 DEF C!Piece
<1>4. ASSUME NEW k \in IS!Kind, C!NewItem(s, k)
      PROVE  items' \in [Stream -> Seq(ItemType)] /\ \A t \in Stream \ shared : items'[t] = items[t]
  <2>1. items' = [items EXCEPT ![s] = Append(items[s], IS!Item(k))]
    BY <1>4 DEF C!NewItem, C!IS!Item, IS!Item
  <2> QED
    BY <1>1, <2>1, Adding
<1>5. ASSUME NEW x \in Stream \X Nat, x[1] \in shared, NEW f \in Stream \X Nat, C!Absorb(x, f)
      PROVE  items' \in [Stream -> Seq(ItemType)] /\ \A t \in Stream \ shared : items'[t] = items[t]
  BY <1>1, <1>5, Absorbed DEF C!Absorb
<1>6. "message" \in IS!Kind /\ "function_call" \in IS!Kind
  BY DEF IS!Kind
<1>7. CASE C!ContentChunk(s)
  <2>1. PICK b \in 1..ChatBlocks :
          /\ C!Piece(s, "message", b)
          /\ \/ C!NewItem(s, "message") /\ message' = <<s, Len(items[s]) + 1>>
             \/ message # <<>> /\ C!Absorb(message, <<s, b>>) /\ UNCHANGED message
    BY <1>7 DEF C!ContentChunk, C!None
  <2>2. /\ said' \in [Stream -> Seq(BlockType)] /\ \A t \in Stream \ {s} : said'[t] = said[t]
        /\ <<s, b>> \in Stream \X Nat
    BY <1>3, <1>6, <2>1
  <2>3. items' \in [Stream -> Seq(ItemType)] /\ \A t \in Stream \ shared : items'[t] = items[t]
    BY <1>1, <1>4, <1>5, <1>6, <2>1, <2>2
  <2>4. message' \in Ref /\ (message' # <<>> => message'[1] \in shared)
    BY <1>1, <1>2, <2>1 DEF Ref
  <2>5. pc' = [pc EXCEPT ![s] = "emitting"] /\ UNCHANGED <<calls, heap, loop>>
    BY <1>7 DEF C!ContentChunk, C!Goto
  <2> QED
    BY <2>2, <2>3, <2>4, <2>5, COutside
<1>8. CASE C!CallChunk(s)
  <2>1. PICK b \in 1..ChatBlocks :
          /\ C!Piece(s, "function_call", b)
          /\ \/ /\ C!NewItem(s, "function_call")
                /\ heap' = [heap EXCEPT ![calls] =
                             Append(@, [index |-> C!CallIndex(s, b), ref |-> <<s, Len(items[s]) + 1>>])]
                /\ C!Goto(s, "emitting")
             \/ /\ \E p \in C!Entries(C!CallIndex(s, b)) : C!Absorb(heap[calls][p].ref, <<s, b>>)
                /\ UNCHANGED <<heap, pc>>
    BY <1>8 DEF C!CallChunk
  <2>2. /\ said' \in [Stream -> Seq(BlockType)] /\ \A t \in Stream \ {s} : said'[t] = said[t]
        /\ <<s, b>> \in Stream \X Nat
    BY <1>3, <1>6, <2>1
  <2>3. UNCHANGED <<message, calls, loop>> /\ pc[s] = "reading"
    BY <1>8 DEF C!CallChunk, C!Unfinished
  <2>4. ASSUME C!NewItem(s, "function_call"), C!Goto(s, "emitting"),
               heap' = [heap EXCEPT ![calls] =
                         Append(@, [index |-> C!CallIndex(s, b), ref |-> <<s, Len(items[s]) + 1>>])]
        PROVE  CInv' /\ \A t \in Stream \ shared : IS!Follows(t)
    <3> DEFINE entry == [index |-> C!CallIndex(s, b), ref |-> <<s, Len(items[s]) + 1>>]
    <3>1. entry \in Entry /\ entry.ref[1] = s
      <4>1. C!CallIndex(s, b) \in Nat
        <5>1. b \in Nat \ {0}
          OBVIOUS
        <5> QED
          BY <5>1, RankIs, RankNext
      <4> QED
        BY <1>1, <1>2, <4>1 DEF Entry
    <3>2. heap' = [heap EXCEPT ![calls] = Append(heap[calls], entry)]
      BY <2>4
    <3> HIDE DEF entry
    <3>3. /\ heap[calls] \in Seq(Entry) /\ Append(heap[calls], entry) \in Seq(Entry)
          /\ DOMAIN heap[calls] = 1..Len(heap[calls]) /\ Len(heap[calls]) \in Nat
          /\ DOMAIN Append(heap[calls], entry) = 1..(Len(heap[calls]) + 1)
          /\ \A p \in 1..Len(heap[calls]) : Append(heap[calls], entry)[p] = heap[calls][p]
          /\ Append(heap[calls], entry)[Len(heap[calls]) + 1] = entry
      <4>1. heap[calls] \in Seq(Entry)
        BY <1>1
      <4> QED
        BY <3>1, <4>1
    <3>4. heap' \in [Stream \X {"begin", "end"} -> Seq(Entry)]
      BY <1>1, <3>2, <3>3
    <3>5. /\ heap'[calls] = Append(heap[calls], entry)
          /\ \A d \in (Stream \X {"begin", "end"}) \ {calls} : heap'[d] = heap[d]
      BY <1>1, <3>2
    <3>6. \A p \in DOMAIN heap'[calls] : heap'[calls][p].ref[1] \in shared
      <4> SUFFICES ASSUME NEW p \in 1..(Len(heap[calls]) + 1) PROVE heap'[calls][p].ref[1] \in shared
        BY <3>3, <3>5
      <4>1. CASE p \in 1..Len(heap[calls])
        BY <1>1, <3>3, <3>5, <4>1
      <4>2. CASE p = Len(heap[calls]) + 1
        BY <3>1, <3>3, <3>5, <4>2
      <4> QED
        BY <3>3, <4>1, <4>2
    <3>7. \A d \in Stream \X {"begin", "end"} :
            /\ DOMAIN heap[d] \subseteq DOMAIN heap'[d]
            /\ \A p \in DOMAIN heap'[d] : heap'[d][p].ref[1] \in shared \cup {d[1]}
      <4> SUFFICES ASSUME NEW d \in Stream \X {"begin", "end"}
                   PROVE  /\ DOMAIN heap[d] \subseteq DOMAIN heap'[d]
                          /\ \A p \in DOMAIN heap'[d] : heap'[d][p].ref[1] \in shared \cup {d[1]}
        OBVIOUS
      <4>1. CASE d = calls
        <5>1. DOMAIN heap[calls] \subseteq DOMAIN heap'[calls]
          BY <3>3, <3>5
        <5> QED
          BY <3>6, <4>1, <5>1
      <4>2. CASE d # calls
        BY <1>1, <3>5, <4>2
      <4> QED
        BY <4>1, <4>2
    <3>8. \A t \in Stream \ shared : Line(t)' = Line(t)
      <4> SUFFICES ASSUME NEW t \in Stream \ shared PROVE heap'[<<t, "begin">>] = heap[<<t, "begin">>]
        BY DEF Line
      <4>1. <<t, "begin">> # calls
        BY <1>1
      <4> QED
        BY <3>5, <4>1
    <3>9. items' \in [Stream -> Seq(ItemType)] /\ \A t \in Stream \ shared : items'[t] = items[t]
      BY <1>4, <1>6, <2>4
    <3>10. pc' = [pc EXCEPT ![s] = "emitting"]
      BY <2>4 DEF C!Goto
    <3> QED
      BY <1>1, <2>2, <2>3, <3>4, <3>7, <3>8, <3>9, <3>10, CAside DEF Where
  <2>5. ASSUME NEW p \in C!Entries(C!CallIndex(s, b)), C!Absorb(heap[calls][p].ref, <<s, b>>),
               UNCHANGED <<heap, pc>>
        PROVE  CInv' /\ \A t \in Stream \ shared : IS!Follows(t)
    <3>1. p \in DOMAIN heap[calls] /\ heap[calls] \in Seq(Entry)
      BY <1>1 DEF C!Entries
    <3>2. heap[calls][p].ref \in Stream \X Nat /\ heap[calls][p].ref[1] \in shared
      <4>1. heap[calls][p] \in Entry
        BY <3>1
      <4> QED
        BY <1>1, <3>1, <4>1 DEF Entry
    <3>3. items' \in [Stream -> Seq(ItemType)] /\ \A t \in Stream \ shared : items'[t] = items[t]
      BY <1>5, <2>2, <2>5, <3>2
    <3>4. pc' = [pc EXCEPT ![s] = "reading"]
      BY <1>1, <2>3, <2>5
    <3> QED
      BY <1>1, <2>2, <2>3, <2>5, <3>3, <3>4, COutside
  <2> QED
    BY <2>1, <2>4, <2>5
<1>9. CASE C!LaunchItem(s)
  <2>1. /\ pc[s] = "sending" /\ C!Run(heap[loop[s].dict][loop[s].pos].ref, s)
        /\ pc' = [pc EXCEPT ![s] = "launching"] /\ UNCHANGED <<said, message, calls, heap, loop>>
    BY <1>9 DEF C!LaunchItem, C!Goto
  <2>2. /\ loop[s].dict \in Stream \X {"begin", "end"} /\ loop[s].dict[1] \in shared
        /\ loop[s].pos \in DOMAIN heap[loop[s].dict]
    BY <1>1, <2>1
  <2> DEFINE x == heap[loop[s].dict][loop[s].pos].ref
  <2>3. x \in Stream \X Nat /\ x[1] \in shared
    <3>1. heap[loop[s].dict] \in Seq(Entry)
      BY <1>1, <2>2
    <3>2. heap[loop[s].dict][loop[s].pos] \in Entry
      BY <2>2, <3>1
    <3> QED
      BY <1>1, <2>2, <3>2 DEF Entry
  <2>4. items' = [items EXCEPT ![x[1]][x[2]].runs = Append(@, s)]
    BY <2>1 DEF C!Run
  <2> HIDE DEF x
  <2>5. items' \in [Stream -> Seq(ItemType)] /\ \A t \in Stream \ shared : items'[t] = items[t]
    BY <1>1, <2>3, <2>4, Running
  <2>6. /\ said' \in [Stream -> Seq(BlockType)] /\ \A t \in Stream \ {s} : said'[t] = said[t]
        /\ \A t \in Stream : Line(t)' = Line(t)
    BY <1>2, <2>1 DEF Line
  <2> QED
    BY <1>1, <2>1, <2>2, <2>5, <2>6, CAside DEF Where
<1>10. CASE C!Continue(s)
  <2>1. pc[s] = "launching" /\ C!Iterate(s, loop[s]) /\ UNCHANGED <<said, heap>>
    BY <1>10 DEF C!Continue
  <2>2. /\ loop[s] \in Iteration
        /\ said' \in [Stream -> Seq(BlockType)] /\ \A t \in Stream \ {s} : said'[t] = said[t]
    BY <1>1, <1>2, <2>1
  <2> QED
    BY <1>1, <2>1, <2>2, CIteratesAside
<1>11. ASSUME NEW final \in BOOLEAN
       PROVE  /\ C!NewLoop(final) \in Iteration /\ C!NewLoop(final).dict = calls
  <2>1. Len(heap[calls]) \in Nat
    <3>1. heap[calls] \in Seq(Entry)
      BY <1>1
    <3> QED
      BY <3>1
  <2> QED
    BY <1>1, <2>1 DEF C!NewLoop, Iteration
<1>12. CASE C!FinalizeCalls(s)
  <2>1. C!Iterate(s, C!NewLoop(TRUE)) /\ UNCHANGED <<said, heap>>
    BY <1>12 DEF C!FinalizeCalls
  <2>2. said' \in [Stream -> Seq(BlockType)] /\ \A t \in Stream \ {s} : said'[t] = said[t]
    BY <1>2, <2>1
  <2>3. C!NewLoop(TRUE) \in Iteration /\ C!NewLoop(TRUE).dict = calls
    BY <1>11
  <2> QED
    BY <1>1, <2>1, <2>2, <2>3, CIteratesAside
<1>13. ASSUME message # <<>>, C!Complete(message)
       PROVE  items' \in [Stream -> Seq(ItemType)] /\ \A t \in Stream \ shared : items'[t] = items[t]
  BY <1>1, <1>13, Ending DEF C!Complete, C!End
<1>14. CASE C!FinalizeText(s)
  <2>1. /\ message # <<>> /\ C!Complete(message) /\ pc' = [pc EXCEPT ![s] = "finalizing"]
        /\ UNCHANGED <<said, message, calls, heap, loop>>
    BY <1>14 DEF C!FinalizeText, C!Goto, C!None
  <2>2. said' \in [Stream -> Seq(BlockType)] /\ \A t \in Stream \ {s} : said'[t] = said[t]
    BY <1>2, <2>1
  <2>3. items' \in [Stream -> Seq(ItemType)] /\ \A t \in Stream \ shared : items'[t] = items[t]
    BY <1>13, <2>1
  <2> QED
    BY <1>1, <2>1, <2>2, <2>3, COutside
<1>15. CASE C!Emitted(s) \/ C!Cut(s)
  <2>1. /\ UNCHANGED <<said, items, message, calls, heap, loop>>
        /\ \E w \in {"reading", "cut"} : pc' = [pc EXCEPT ![s] = w]
    BY <1>15 DEF C!Emitted, C!Cut, C!Goto
  <2>2. /\ said' \in [Stream -> Seq(BlockType)] /\ \A t \in Stream \ {s} : said'[t] = said[t]
        /\ items' \in [Stream -> Seq(ItemType)] /\ \A t \in Stream \ shared : items'[t] = items[t]
    BY <1>2, <2>1
  <2> QED
    BY <1>1, <2>1, <2>2, COutside
<1>16. ASSUME NEW reason \in {"stop", "tool_calls", "length"}, C!FinishChunk(s, reason)
       PROVE  CInv' /\ \A t \in Stream \ shared : IS!Follows(t)
  <2>1. said' \in [Stream -> Seq(BlockType)] /\ \A t \in Stream \ {s} : said'[t] = said[t]
    <3>1. said' = [said EXCEPT ![s] = [b \in DOMAIN said[s] |-> [said[s][b] EXCEPT !.closed = TRUE]]]
      BY <1>16 DEF C!FinishChunk
    <3>2. said[s] \in Seq(BlockType) /\ DOMAIN said[s] = 1..Len(said[s]) /\ Len(said[s]) \in Nat
      <4>1. said[s] \in Seq(BlockType)
        BY <1>1, <1>2
      <4> QED
        BY <4>1
    <3>3. \A b \in DOMAIN said[s] : [said[s][b] EXCEPT !.closed = TRUE] \in BlockType
      <4>1. \A b \in DOMAIN said[s] : said[s][b] \in BlockType
        BY <3>2
      <4> QED
        BY <4>1 DEF BlockType
    <3>4. [b \in DOMAIN said[s] |-> [said[s][b] EXCEPT !.closed = TRUE]] \in Seq(BlockType)
      BY <3>2, <3>3
    <3> QED
      BY <1>1, <1>2, <3>1, <3>4
  <2>2. UNCHANGED heap /\ pc[s] = "reading"
    BY <1>16 DEF C!FinishChunk, C!Unfinished
  <2>3. CASE C!Iterate(s, C!NewLoop(FALSE))
    <3>1. C!NewLoop(FALSE) \in Iteration /\ C!NewLoop(FALSE).dict = calls
      BY <1>11
    <3> QED
      BY <1>1, <2>1, <2>2, <2>3, <3>1, CIteratesAside
  <2>4. CASE message # <<>> /\ C!Complete(message) /\ C!Goto(s, "emitting") /\ UNCHANGED <<message, calls, loop>>
    <3>1. /\ items' \in [Stream -> Seq(ItemType)] /\ \A t \in Stream \ shared : items'[t] = items[t]
          /\ pc' = [pc EXCEPT ![s] = "emitting"]
      BY <1>13, <2>4 DEF C!Goto
    <3> QED
      BY <1>1, <2>1, <2>2, <2>4, <3>1, COutside
  <2>5. CASE UNCHANGED <<items, pc, message, calls, loop>>
    <3>1. /\ items' \in [Stream -> Seq(ItemType)] /\ \A t \in Stream \ shared : items'[t] = items[t]
          /\ pc' = [pc EXCEPT ![s] = "reading"]
      BY <1>1, <1>2, <2>2, <2>5
    <3> QED
      BY <1>1, <2>1, <2>2, <2>5, <3>1, COutside
  <2> QED
    BY <1>16, <2>3, <2>4, <2>5 DEF C!FinishChunk, C!None
<1> QED
  BY <1>7, <1>8, <1>9, <1>10, <1>12, <1>14, <1>15, <1>16

LEMMA CStep ==
  ASSUME CInv, C!Next, Remember
  PROVE  CInv' /\ \A t \in Stream \ shared' : IS!Follows(t)
<1>1. PICK s \in Stream :
        \/ C!Begin(s) \/ C!ContentChunk(s) \/ C!CallChunk(s) \/ C!LaunchItem(s) \/ C!Continue(s)
        \/ C!FinalizeText(s) \/ C!FinalizeCalls(s) \/ C!Emitted(s) \/ C!Cut(s)
        \/ \E reason \in {"stop", "tool_calls", "length"} : C!FinishChunk(s, reason)
  BY DEF C!Next
<1>2. CASE C!Begin(s)
  BY <1>2, CBegin
<1>3. CASE ~C!Begin(s)
  <2>1. s \in Active
    BY <1>1, <1>3, SameNames
       DEF C!ContentChunk, C!CallChunk, C!LaunchItem, C!Continue, C!FinalizeText, C!FinalizeCalls,
           C!Emitted, C!Cut, C!FinishChunk, C!Unfinished, Active
  <2>2. pc \in [Stream -> Where] /\ \E w : pc' = [pc EXCEPT ![s] = w] \/ pc' = pc
    BY <1>1, <1>3
       DEF C!ContentChunk, C!CallChunk, C!LaunchItem, C!Continue, C!FinalizeText, C!FinalizeCalls,
           C!Emitted, C!Cut, C!FinishChunk, C!Iterate, C!Goto, CInv, BaseType
  <2>3. Active' \subseteq Active
    BY <2>1, <2>2 DEF Active
  <2>4. shared' = shared
    BY <2>3, SharesNoMore DEF CInv
  <2>5. CASE s \in shared
    BY <1>1, <1>3, <2>1, <2>4, <2>5, CShared
  <2>6. CASE s \notin shared
    <3>1. CInv' /\ [IS!Next]_(IS!vars)
      BY <1>1, <1>3, <2>4, <2>6, CContentChunk, CCallChunk, CLaunchItem, CContinue, CFinalizeText,
         CFinalizeCalls, CEmitted, CCut, CFinishChunk
    <3> QED
      BY <3>1, StepFollows DEF CInv
  <2> QED
    BY <2>5, <2>6
<1> QED
  BY <1>2, <1>3

LEMMA CStutter ==
  ASSUME CInv, UNCHANGED vars PROVE CInv' /\ \A t \in Stream \ shared' : IS!Follows(t)
<1>1. UNCHANGED <<shared, said, items, pc, message, calls, heap, loop>>
  BY DEF vars, cvars, base
<1>2. Active' = Active /\ phase' = phase /\ Active \subseteq Stream
  BY <1>1 DEF Active, phase
<1>3. \A s \in Stream : Paired(s)' = Paired(s) /\ Line(s)' = Line(s)
  BY <1>1 DEF Paired, Line
<1>4. ASSUME NEW s \in Stream PROVE CReads(s)' = CReads(s)
  BY <1>1 DEF CReads, Listed, Texted, AllOpen, AllClosed, IsCall, Waits, Launched, Announced, Halfway,
              TextOver, At, Line
<1>5. CHolds' /\ Sharing'
  BY <1>1, <1>2 DEF CInv, CHolds, Sharing
<1>6. CInv'
  BY <1>1, <1>2, <1>3, <1>4, <1>5 DEF CInv, BaseType
<1> QED
  BY <1>1, <1>2, <1>6 DEF IS!Follows

\* V1ChatCompletition keeps the contract of ItemStream with every response that is
\* not read side by side with another, for any number of responses admitted at a
\* time: whether finish_reason or [DONE] settles the calls, each is launched once,
\* after all its arguments, and a response ends only when all of them are
\* (chat_request(), v1chatcompletition.py).
THEOREM ChatsKeepTheContract == Spec => ChatMirrors
<1> DEFINE Inv == adapter = "chat" => CInv
           A == adapter = "chat" => \A s \in Stream \ shared' : IS!Follows(s)
<1>1. Init => Inv
  BY CInit
<1>2. Inv /\ [Next]_vars => Inv' /\ A
  <2> SUFFICES ASSUME Inv, [Next]_vars, adapter = "chat" \/ adapter' = "chat"
               PROVE  CInv' /\ \A s \in Stream \ shared' : IS!Follows(s)
    OBVIOUS
  <2>1. adapter = "chat" /\ CInv
    BY DEF Next, vars
  <2> QED
    BY <2>1, CStep, CStutter DEF Next
<1>3. Spec => [][A]_vars
  <2> HIDE DEF Inv, A
  <2> QED
    BY <1>1, <1>2, PTL DEF Spec
<1> QED
  BY <1>3 DEF ChatMirrors

\* So what two responses that are read side by side do to each other, through
\* _current_assistant_message, _current_tool_calls and a loop suspended in a dict
\* that the other one has filled, stays between them: the items of every other
\* exchange mirror what the model has sent for it, and hold nothing of another
\* response (v1chatcompletition.py; without the proviso it is false).
THEOREM ChatsDoNotCross ==
  Spec => [](adapter = "chat" =>
               \A s \in Stream \ shared :
                 /\ IS!Mirrors(s)
                 /\ \A i \in DOMAIN items[s] : \A f \in DOMAIN items[s][i].content :
                      items[s][i].content[f][1] = s)
<1> DEFINE Inv == adapter = "chat" => CInv /\ \A s \in Stream \ shared : IS!Mirrors(s)
           P == adapter = "chat" =>
                  \A s \in Stream \ shared :
                    /\ IS!Mirrors(s)
                    /\ \A i \in DOMAIN items[s] : \A f \in DOMAIN items[s][i].content :
                         items[s][i].content[f][1] = s
<1>1. Init => Inv
  BY CInit, MirrorsBegin DEF Init, C!Init, C!BaseInit, BaseInit, IS!ItemsMirrorBlocks
<1>2. Inv /\ [Next]_vars => Inv'
  <2> SUFFICES ASSUME Inv, [Next]_vars, adapter' = "chat"
               PROVE  CInv' /\ \A s \in Stream \ shared' : IS!Mirrors(s)'
    OBVIOUS
  <2>1. adapter = "chat" /\ CInv /\ \A s \in Stream \ shared : IS!Mirrors(s)
    BY DEF Next, vars
  <2>2. CInv' /\ (\A s \in Stream \ shared' : IS!Follows(s)) /\ shared \subseteq shared'
    BY <2>1, CStep, CStutter DEF Next, Remember, vars
  <2>3. BaseType
    BY <2>1 DEF CInv
  <2> QED
    BY <2>1, <2>2, <2>3, FollowingKeepsMirror
<1>3. Inv => P
  BY MirrorIsOwn
<1> QED
  <2> HIDE DEF Inv, P
  <2>1. Spec => []Inv
    BY <1>1, <1>2, PTL DEF Spec
  <2>2. Spec => []P
    BY <2>1, <1>3, PTL
  <2> QED
    BY <2>2 DEF P

=============================================================================
