-------------------------- MODULE MCStreams_proofs --------------------------
(***************************************************************************)
(* Proofs about the adapters, for any number of responses, blocks and      *)
(* deltas: V1Messages and V1Response keep the contract of ItemStream, each *)
(* under the conditions that its theorem names, and so mirror what the     *)
(* model sends; the Responses adapter keeps responses apart under none;    *)
(* and the requests of all three tell the story of their conversation.     *)
(***************************************************************************)
EXTENDS MCStreams, FiniteSetTheorems, SequenceTheorems, WellFoundedInduction, TLAPS

-----------------------------------------------------------------------------
\* Types, and sequences that change in one place.

BlockType == [kind : IS!Kind, deltas : Nat, closed : BOOLEAN]

ItemType == [kind : IS!Kind, content : Seq(Stream \X Nat),
             status : {"in_progress", "completed", "incomplete"}, runs : Seq(Stream)]

Where == {"idle", "reading", "emitting", "closing", "launching", "sending", "finalizing",
          "done", "cut"}

BaseType ==
  /\ said \in [Stream -> Seq(BlockType)]
  /\ items \in [Stream -> Seq(ItemType)]
  /\ pc \in [Stream -> Where]

\* A sequence of one response gets a new element ...
LEMMA Longer ==
  ASSUME NEW T, NEW f \in [Stream -> Seq(T)], NEW s \in Stream, NEW e \in T,
         NEW g, g = [f EXCEPT ![s] = Append(f[s], e)]
  PROVE  /\ g \in [Stream -> Seq(T)]
         /\ \A t \in Stream \ {s} : g[t] = f[t]
         /\ Len(f[s]) \in Nat /\ Len(g[s]) = Len(f[s]) + 1
         /\ DOMAIN f[s] = 1..Len(f[s]) /\ DOMAIN g[s] = 1..Len(g[s])
         /\ \A i \in DOMAIN f[s] : g[s][i] = f[s][i]
         /\ g[s][Len(g[s])] = e
<1>1. g[s] = Append(f[s], e) /\ g \in [Stream -> Seq(T)] /\ \A t \in Stream \ {s} : g[t] = f[t]
  BY AppendProperties
<1> QED
  BY <1>1, AppendProperties

\* ... or another element in place of its i-th.
LEMMA Replaced ==
  ASSUME NEW T, NEW f \in [Stream -> Seq(T)], NEW s \in Stream, NEW i \in DOMAIN f[s], NEW e \in T,
         NEW g, g = [f EXCEPT ![s] = [f[s] EXCEPT ![i] = e]]
  PROVE  /\ g \in [Stream -> Seq(T)]
         /\ \A t \in Stream \ {s} : g[t] = f[t]
         /\ Len(f[s]) \in Nat /\ Len(g[s]) = Len(f[s])
         /\ DOMAIN f[s] = 1..Len(f[s]) /\ DOMAIN g[s] = 1..Len(f[s])
         /\ \A j \in DOMAIN f[s] \ {i} : g[s][j] = f[s][j]
         /\ g[s][i] = e
<1>1. [f[s] EXCEPT ![i] = e] \in Seq(T) /\ Len([f[s] EXCEPT ![i] = e]) = Len(f[s])
  BY ExceptSeq
<1>2. g[s] = [f[s] EXCEPT ![i] = e] /\ \A t \in Stream \ {s} : g[t] = f[t]
  OBVIOUS
<1>3. g \in [Stream -> Seq(T)]
  BY <1>1
<1> QED
  BY <1>1, <1>2, <1>3

-----------------------------------------------------------------------------
\* What the contract sees of a step.

LEMMA SameNames ==
  /\ M!Active = Active /\ M!phase = phase
  /\ R!Active = Active /\ R!phase = phase
  /\ C!Active = Active /\ C!phase = phase
BY DEF M!Active, M!phase, R!Active, R!phase, C!Active, C!phase, Active, phase

\* A suspension elsewhere does not change the phase; an end does.
LEMMA Suspends ==
  ASSUME BaseType, NEW s \in Active, NEW w \in Where, pc' = [pc EXCEPT ![s] = w]
  PROVE  /\ s \in Stream /\ phase[s] = "open" /\ phase \in [Stream -> Where \cup {"open"}]
         /\ w \notin {"idle", "done", "cut"} => phase' = phase /\ Active' = Active
         /\ w \in {"done", "cut"} => phase' = [phase EXCEPT ![s] = w] /\ Active' = Active \ {s}
BY DEF BaseType, Active, phase

LEMMA Starts ==
  ASSUME BaseType, NEW s \in Stream, pc[s] = "idle", pc' = [pc EXCEPT ![s] = "reading"],
         UNCHANGED <<said, items>>
  PROVE  IS!Begin(s) /\ Active' = Active \cup {s}
<1>1. phase[s] = "idle" /\ phase' = [phase EXCEPT ![s] = "open"] /\ Active' = Active \cup {s}
  BY DEF BaseType, Active, phase
<1> QED
  BY <1>1 DEF IS!Begin

LEMMA CutIsCut ==
  ASSUME BaseType, NEW s \in Active, pc' = [pc EXCEPT ![s] = "cut"], UNCHANGED <<said, items>>
  PROVE  IS!Next
<1>1. s \in Stream /\ phase[s] = "open" /\ phase' = [phase EXCEPT ![s] = "cut"]
  BY Suspends DEF Where
<1> QED
  BY <1>1 DEF IS!Next, IS!Step, IS!Cut

\* What follows from the contract.
Abstract == INSTANCE ItemStream_proofs

LEMMA SameContract ==
  /\ \A s \in Stream : IS!Mirrors(s) <=> Abstract!Mirrors(s)
  /\ \A s \in Stream : IS!Mirrors(s)' <=> Abstract!Mirrors(s)'
  /\ \A s \in Stream : IS!Step(s) <=> Abstract!Step(s)
<1>1. \A s \in Stream : IS!Mirrors(s) <=> Abstract!Mirrors(s)
  BY DEF IS!Mirrors, IS!IsMirror, Abstract!Mirrors, Abstract!IsMirror
<1>2. \A s \in Stream : IS!Mirrors(s)' <=> Abstract!Mirrors(s)'
  BY DEF IS!Mirrors, IS!IsMirror, Abstract!Mirrors, Abstract!IsMirror
<1>3. ASSUME NEW s \in Stream PROVE IS!Step(s) <=> Abstract!Step(s)
  BY DEF IS!Step, IS!Begin, IS!Open, IS!Extend, IS!Settle, IS!Launch, IS!Finish, IS!Cut,
         IS!Kind, IS!Block, IS!Item, IS!Closed, IS!Ended, IS!Outcome,
         Abstract!Step, Abstract!Begin, Abstract!Open, Abstract!Extend,
         Abstract!Settle, Abstract!Launch, Abstract!Finish, Abstract!Cut,
         Abstract!Kind, Abstract!Block, Abstract!Item, Abstract!Closed, Abstract!Ended,
         Abstract!Outcome
<1> QED
  BY <1>1, <1>2, <1>3

LEMMA AbstractType == ASSUME BaseType PROVE Abstract!TypeOK
BY DEF BaseType, BlockType, ItemType, IS!Kind, phase,
       Abstract!TypeOK, Abstract!BlockType, Abstract!ItemType, Abstract!Kind

\* A step that keeps the contract keeps it with each response ...
LEMMA StepFollows ==
  ASSUME BaseType, [IS!Next]_(IS!vars)
  PROVE  \A s \in Stream : IS!Follows(s)
<1>1. [Abstract!Next]_(Abstract!vars)
  BY SameContract DEF IS!Next, Abstract!Next, IS!vars, Abstract!vars
<1>2. \A s \in Stream : Abstract!Follows(s)
  BY <1>1, AbstractType, Abstract!NextFollows
<1> QED
  BY <1>2, SameContract DEF IS!Follows, Abstract!Follows

\* ... and whatever keeps it with one response mirrors its blocks.
LEMMA FollowingKeepsMirror ==
  ASSUME BaseType, NEW s \in Stream, IS!Mirrors(s), IS!Follows(s)
  PROVE  IS!Mirrors(s)'
<1>1. Abstract!TypeOK /\ Abstract!Mirrors(s) /\ Abstract!Follows(s)
  BY AbstractType, SameContract DEF IS!Follows, Abstract!Follows
<1>2. Abstract!Mirrors(s)'
  BY <1>1, Abstract!FollowingMirrors
<1> QED
  BY <1>2, SameContract

LEMMA KeepsMirrors ==
  ASSUME BaseType, IS!ItemsMirrorBlocks, [IS!Next]_(IS!vars)
  PROVE  IS!ItemsMirrorBlocks'
BY StepFollows, FollowingKeepsMirror DEF IS!ItemsMirrorBlocks

LEMMA MirrorsBegin == BaseInit => IS!ItemsMirrorBlocks
BY DEF BaseInit, IS!ItemsMirrorBlocks, IS!Mirrors, IS!IsMirror, phase, Active

\* A mirror shows nothing of another response.
LEMMA MirrorIsOwn ==
  ASSUME NEW s \in Stream, IS!Mirrors(s), NEW i \in DOMAIN items[s],
         NEW f \in DOMAIN items[s][i].content
  PROVE  items[s][i].content[f][1] = s
<1>1. items[s][i].content = [g \in 1..said[s][i].deltas |-> <<s, i>>]
  BY DEF IS!Mirrors, IS!IsMirror
<1>2. items[s][i].content[f] = <<s, i>>
  BY <1>1
<1> QED
  BY <1>2

LEMMA MirrorsDoNotCross == IS!ItemsMirrorBlocks => NoCrossTalk
BY MirrorIsOwn DEF IS!ItemsMirrorBlocks, NoCrossTalk

\* The model closes a block, and its item is completed.
LEMMA SettlesOne ==
  ASSUME BaseType, NEW s \in Active, NEW b \in DOMAIN said[s], Len(said[s]) = Len(items[s]),
         NEW how \in IS!Outcome,
         said' = [said EXCEPT ![s][b].closed = TRUE],
         items' = [items EXCEPT ![s][b].status = how],
         phase' = phase
  PROVE  IS!Next
<1>1. s \in Stream /\ phase[s] = "open" /\ said[s] \in Seq(BlockType) /\ items[s] \in Seq(ItemType)
  BY DEF Active, BaseType, phase
<1>2. /\ DOMAIN said[s] = 1..Len(said[s]) /\ DOMAIN items[s] = 1..Len(said[s])
      /\ \A a \in DOMAIN said[s] : said[s][a] \in BlockType /\ items[s][a] \in ItemType
  BY <1>1
<1>3. [said[s] EXCEPT ![b].closed = TRUE] = IS!Closed(said[s], {b})
  BY <1>1, <1>2 DEF BlockType, IS!Closed
<1>4. [items[s] EXCEPT ![b].status = how] = IS!Ended(items[s], {b}, how)
  BY <1>1, <1>2 DEF ItemType, IS!Ended
<1>5. said' = [said EXCEPT ![s] = IS!Closed(said[s], {b})]
  BY <1>3
<1>6. items' = [items EXCEPT ![s] = IS!Ended(items[s], {b}, how)]
  BY <1>4
<1>7. said'[s][b].closed
  BY <1>1, <1>2 DEF BaseType, BlockType
<1>8. IS!Settle(s, {b}, {b}, how)
  BY <1>1, <1>5, <1>6, <1>7 DEF IS!Settle
<1> QED
  BY <1>1, <1>2, <1>8 DEF IS!Next, IS!Step
-----------------------------------------------------------------------------
\* Responses whose blocks come one after the other.

\* Every block has its item.
Paired(s) ==
  /\ Len(items[s]) = Len(said[s])
  /\ \A b \in 1..Len(said[s]) : items[s][b].kind = said[s][b].kind

\* The item of a block that is over.
Whole(s, b) ==
  items[s][b].status # "in_progress" /\ (items[s][b].kind = "function_call" => items[s][b].runs = <<s>>)

\* Only the last block may be open or being closed; all before it are over.
Reads(s) ==
  LET n == Len(said[s]) IN
  /\ pc[s] \in {"reading", "emitting", "closing", "launching"}
  /\ \A b \in 1..n : b < n => said[s][b].closed /\ Whole(s, b)
  /\ n > 0 /\ ~said[s][n].closed =>
       /\ pc[s] \in {"reading", "emitting"}
       /\ items[s][n].status = "in_progress" /\ items[s][n].runs = <<>>
       /\ said[s][n].deltas = 0 => items[s][n].content = <<>>
  /\ n > 0 /\ said[s][n].closed /\ pc[s] # "closing" => Whole(s, n)
  /\ pc[s] \in {"closing", "launching"} =>
       n > 0 /\ said[s][n].closed /\ items[s][n].status # "in_progress"
  /\ pc[s] = "closing" => items[s][n].runs = <<>>
  /\ pc[s] = "launching" => items[s][n].kind = "function_call"

\* ... for every response that is not read side by side with another.
OneByOne ==
  /\ BaseType
  /\ \A s \in Stream \ shared : Paired(s) /\ (pc[s] = "idle" => said[s] = <<>>)
  /\ \A s \in Active \ shared : Reads(s)

LEMMA OneByOneInit == BaseInit => OneByOne
BY DEF BaseInit, OneByOne, BaseType, Where, Active, Paired

\* What the last block and its item look like to a step.
LEMMA Last ==
  ASSUME OneByOne, NEW s \in Active, s \notin shared
  PROVE  /\ s \in Stream /\ BaseType /\ Paired(s) /\ Reads(s)
         /\ said[s] \in Seq(BlockType) /\ items[s] \in Seq(ItemType)
         /\ Len(said[s]) \in Nat /\ Len(items[s]) = Len(said[s])
         /\ DOMAIN said[s] = 1..Len(said[s]) /\ DOMAIN items[s] = 1..Len(said[s])
         /\ \A b \in DOMAIN said[s] : ~said[s][b].closed => b = Len(said[s])
<1>1. s \in Stream /\ BaseType /\ Paired(s) /\ Reads(s)
  BY DEF OneByOne, Active
<1>2. said[s] \in Seq(BlockType) /\ items[s] \in Seq(ItemType)
  BY <1>1 DEF BaseType
<1>3. /\ Len(said[s]) \in Nat /\ Len(items[s]) = Len(said[s])
      /\ DOMAIN said[s] = 1..Len(said[s]) /\ DOMAIN items[s] = 1..Len(said[s])
  BY <1>1, <1>2 DEF Paired
<1>4. \A b \in DOMAIN said[s] : ~said[s][b].closed => b = Len(said[s])
  BY <1>1, <1>3 DEF Reads
<1> QED
  BY <1>1, <1>2, <1>3, <1>4

\* A step of one response leaves the others as they are.
LEMMA Moves ==
  ASSUME OneByOne, NEW s \in Active, s \notin shared, UNCHANGED shared,
         NEW w \in Where \ {"idle"}, pc' = [pc EXCEPT ![s] = w],
         said' \in [Stream -> Seq(BlockType)], items' \in [Stream -> Seq(ItemType)],
         \A t \in Stream \ {s} : said'[t] = said[t] /\ items'[t] = items[t],
         Paired(s)', w \notin {"done", "cut"} => Reads(s)'
  PROVE  OneByOne'
<1>1. s \in Stream /\ Active' \subseteq Active \cup {s} /\ Active \subseteq Stream
  BY Suspends DEF OneByOne, Active
<1>2. BaseType'
  BY <1>1 DEF OneByOne, BaseType
<1>3. \A t \in Stream \ shared : Paired(t)' /\ (pc'[t] = "idle" => said'[t] = <<>>)
  BY <1>1 DEF OneByOne, BaseType, Paired
<1>4. ASSUME NEW t \in Active' \ {s}, t \notin shared PROVE Reads(t)'
  <2>1. t \in Active /\ t \in Stream \ {s}
    BY <1>1
  <2>2. pc'[t] = pc[t] /\ said'[t] = said[t] /\ items'[t] = items[t]
    BY <2>1 DEF OneByOne, BaseType
  <2>3. Reads(t)
    BY <1>4, <2>1 DEF OneByOne
  <2> QED
    BY ONLY <2>2, <2>3 DEF Reads, Whole
<1>5. s \in Active' => Reads(s)'
  BY <1>1 DEF OneByOne, BaseType, Active
<1> QED
  BY <1>2, <1>3, <1>4, <1>5 DEF OneByOne

LEMMA Begins ==
  ASSUME OneByOne, NEW s \in Stream, s \notin shared, UNCHANGED shared,
         pc[s] = "idle", pc' = [pc EXCEPT ![s] = "reading"],
         UNCHANGED <<said, items>>
  PROVE  /\ OneByOne' /\ IS!Next /\ Active' = Active \cup {s}
         /\ pc'[s] = "reading" /\ Len(said'[s]) = 0
<1>1. IS!Begin(s) /\ Active' = Active \cup {s} /\ shared' = shared
  BY Starts DEF OneByOne
<1>2. said'[s] = <<>> /\ Len(said'[s]) = 0 /\ pc'[s] = "reading"
  BY DEF OneByOne, BaseType
<1>3. Reads(s)'
  BY <1>2 DEF Reads
<1>4. ASSUME NEW t \in Active \ {s}, t \notin shared PROVE Reads(t)'
  <2>1. pc'[t] = pc[t] /\ said'[t] = said[t] /\ items'[t] = items[t] /\ Reads(t)
    BY <1>4 DEF OneByOne, BaseType, Active
  <2> QED
    BY ONLY <2>1 DEF Reads, Whole
<1>5. OneByOne'
  BY <1>1, <1>3, <1>4 DEF OneByOne, BaseType, Where, Paired
<1> QED
  BY <1>1, <1>2, <1>5 DEF IS!Next, IS!Step

\* A block opens.
LEMMA Opens ==
  ASSUME OneByOne, NEW s \in Stream, s \notin shared, UNCHANGED shared,
         pc[s] = "reading", \A b \in DOMAIN said[s] : said[s][b].closed,
         NEW k \in IS!Kind,
         said' = [said EXCEPT ![s] = Append(said[s], IS!Block(k))],
         items' = [items EXCEPT ![s] = Append(items[s], IS!Item(k))],
         pc' = [pc EXCEPT ![s] = "emitting"]
  PROVE  OneByOne' /\ IS!Next /\ Len(said'[s]) = Len(items[s]) + 1
<1> DEFINE n == Len(said[s])
<1>1. IS!Block(k) \in BlockType /\ IS!Item(k) \in ItemType
  BY DEF IS!Block, IS!Item, BlockType, ItemType
<1>2. s \in Active /\ BaseType /\ Paired(s) /\ Reads(s)
  BY DEF OneByOne, Active
<1>3. /\ said' \in [Stream -> Seq(BlockType)] /\ \A t \in Stream \ {s} : said'[t] = said[t]
      /\ n \in Nat /\ Len(said'[s]) = n + 1 /\ DOMAIN said[s] = 1..n
      /\ \A b \in 1..n : said'[s][b] = said[s][b]
      /\ said'[s][n + 1] = IS!Block(k)
  BY <1>1, <1>2, Longer DEF BaseType
<1>4. /\ items' \in [Stream -> Seq(ItemType)] /\ \A t \in Stream \ {s} : items'[t] = items[t]
      /\ Len(items[s]) = n /\ Len(items'[s]) = n + 1
      /\ \A b \in 1..n : items'[s][b] = items[s][b]
      /\ items'[s][n + 1] = IS!Item(k)
  BY <1>1, <1>2, <1>3, Longer DEF BaseType, Paired
<1>5. pc'[s] = "emitting"
  BY <1>2 DEF BaseType
<1>6. Paired(s)'
  <2>1. \A b \in 1..n : items'[s][b].kind = said'[s][b].kind
    BY <1>2, <1>3, <1>4 DEF Paired
  <2>2. items'[s][n + 1].kind = said'[s][n + 1].kind
    BY <1>3, <1>4 DEF IS!Block, IS!Item
  <2>3. \A b \in 1..(n + 1) : items'[s][b].kind = said'[s][b].kind
    <3>1. \A b \in 1..(n + 1) : b \in 1..n \/ b = n + 1
      BY <1>3
    <3> QED
      BY <2>1, <2>2, <3>1
  <2> QED
    BY <1>3, <1>4, <2>3 DEF Paired
<1>7. Reads(s)'
  <2>1. \A b \in 1..n : said[s][b].closed /\ Whole(s, b)
    BY <1>2, <1>3 DEF Reads
  <2>2. \A b \in 1..n : said'[s][b].closed /\ Whole(s, b)'
    BY <2>1, <1>3, <1>4 DEF Whole
  <2> QED
    BY <2>2, <1>3, <1>4, <1>5 DEF Reads, IS!Block, IS!Item
<1>8. OneByOne'
  <2>1. "emitting" \in Where \ {"idle"}
    BY DEF Where
  <2> QED
    BY <1>2, <1>3, <1>4, <1>6, <1>7, <2>1, Moves
<1>9. phase[s] = "open" /\ phase' = phase
  BY <1>2, Suspends DEF Where
<1>10. IS!Open(s, k)
  BY <1>9 DEF IS!Open
<1> QED
  BY <1>3, <1>4, <1>8, <1>10 DEF IS!Next, IS!Step

\* A delta of the open block reaches its item.
LEMMA Extends ==
  ASSUME OneByOne, NEW s \in Stream, s \notin shared, UNCHANGED shared,
         pc[s] = "reading", NEW n, n = Len(said[s]), n \in DOMAIN said[s],
         ~said[s][n].closed,
         said' = [said EXCEPT ![s][n].deltas = @ + 1],
         items' = [items EXCEPT ![s][n].content = Append(@, <<s, n>>)],
         NEW w \in {"reading", "emitting"}, pc' = [pc EXCEPT ![s] = w]
  PROVE  OneByOne' /\ IS!Next /\ Len(said'[s]) = n
<1>1. s \in Active
  BY DEF Active
<1>2. /\ BaseType /\ Paired(s) /\ Reads(s)
      /\ said[s] \in Seq(BlockType) /\ items[s] \in Seq(ItemType) /\ Len(items[s]) = n
      /\ n \in Nat /\ n \in 1..n /\ DOMAIN said[s] = 1..n /\ DOMAIN items[s] = 1..n
  BY <1>1, Last
<1> DEFINE block == [said[s][n] EXCEPT !.deltas = said[s][n].deltas + 1]
           item == [items[s][n] EXCEPT !.content = Append(items[s][n].content, <<s, n>>)]
<1>8. said[s][n] \in BlockType /\ items[s][n] \in ItemType
  BY <1>2
<1>9. block \in BlockType
  BY <1>8 DEF BlockType
<1>10. item \in ItemType
  <2>1. <<s, n>> \in Stream \X Nat /\ items[s][n].content \in Seq(Stream \X Nat)
    BY <1>2, <1>8 DEF ItemType
  <2>2. Append(items[s][n].content, <<s, n>>) \in Seq(Stream \X Nat)
    BY <2>1
  <2> QED
    BY <1>8, <2>2 DEF ItemType
<1>11. /\ said' = [said EXCEPT ![s] = [said[s] EXCEPT ![n] = block]]
       /\ items' = [items EXCEPT ![s] = [items[s] EXCEPT ![n] = item]]
  OBVIOUS
<1>12. /\ block.kind = said[s][n].kind /\ block.closed = said[s][n].closed /\ block.deltas # 0
       /\ item.kind = items[s][n].kind /\ item.status = items[s][n].status
       /\ item.runs = items[s][n].runs
  BY <1>8 DEF BlockType, ItemType
<1> HIDE DEF block, item
<1>13. /\ said' \in [Stream -> Seq(BlockType)] /\ \A t \in Stream \ {s} : said'[t] = said[t]
       /\ Len(said'[s]) = n /\ \A a \in 1..n \ {n} : said'[s][a] = said[s][a]
       /\ said'[s][n] = block
  <2>1. /\ said' \in [Stream -> Seq(BlockType)]
        /\ \A t \in Stream \ {s} : said'[t] = said[t]
        /\ Len(said'[s]) = Len(said[s])
        /\ \A a \in DOMAIN said[s] \ {n} : said'[s][a] = said[s][a]
        /\ said'[s][n] = block
    <3>1. said \in [Stream -> Seq(BlockType)] /\ n \in DOMAIN said[s]
      BY <1>2 DEF BaseType
    <3>2. said' = [said EXCEPT ![s] = [said[s] EXCEPT ![n] = block]] /\ block \in BlockType
      BY <1>1, <1>2, <1>9, <1>11
    <3> QED
      BY ONLY s \in Stream, <3>1, <3>2, Replaced
  <2> QED
    BY <1>2, <2>1
<1>14. /\ items' \in [Stream -> Seq(ItemType)] /\ \A t \in Stream \ {s} : items'[t] = items[t]
       /\ Len(items'[s]) = n /\ \A a \in 1..n \ {n} : items'[s][a] = items[s][a]
       /\ items'[s][n] = item
  <2>1. /\ items' \in [Stream -> Seq(ItemType)]
        /\ \A t \in Stream \ {s} : items'[t] = items[t]
        /\ Len(items'[s]) = Len(items[s])
        /\ \A a \in DOMAIN items[s] \ {n} : items'[s][a] = items[s][a]
        /\ items'[s][n] = item
    <3>1. items \in [Stream -> Seq(ItemType)] /\ n \in DOMAIN items[s]
      BY <1>2 DEF BaseType
    <3>2. items' = [items EXCEPT ![s] = [items[s] EXCEPT ![n] = item]] /\ item \in ItemType
      BY <1>1, <1>2, <1>10, <1>11
    <3> QED
      BY <3>1, <3>2, Replaced
  <2> QED
    BY <1>2, <2>1
<1>15. Paired(s)'
  BY <1>2, <1>12, <1>13, <1>14 DEF Paired
<1>16. pc'[s] = w
  BY <1>2 DEF BaseType
<1>17. Reads(s)'
  <2>1. \A a \in 1..n : a < n => said'[s][a].closed /\ Whole(s, a)'
    BY <1>2, <1>13, <1>14 DEF Reads, Whole
  <2> QED
    <3>1. items[s][n].status = "in_progress" /\ items[s][n].runs = <<>>
      BY <1>2 DEF Reads
    <3>2. /\ Len(said'[s]) = n /\ ~said'[s][n].closed /\ said'[s][n].deltas # 0
          /\ items'[s][n].status = "in_progress" /\ items'[s][n].runs = <<>>
          /\ pc'[s] \in {"reading", "emitting"}
      BY <1>12, <1>13, <1>14, <1>16, <3>1
    <3> QED
      BY <2>1, <3>2 DEF Reads
<1>18. OneByOne'
  <2>1. w \in Where \ {"idle"}
    BY DEF Where
  <2> QED
    BY <1>1, <1>13, <1>14, <1>15, <1>17, <2>1, Moves
<1>19. phase[s] = "open" /\ phase' = phase
  BY <1>1, <1>2, Suspends DEF Where
<1>20. IS!Extend(s, n)
  BY <1>2, <1>19 DEF IS!Extend
<1> QED
  BY <1>2, <1>13, <1>18, <1>20 DEF IS!Next, IS!Step

\* The model closes the block, and its item is completed.
LEMMA ClosesLast ==
  ASSUME OneByOne, NEW s \in Stream, s \notin shared, UNCHANGED shared,
         pc[s] = "reading", NEW n, n = Len(said[s]), n \in DOMAIN said[s],
         ~said[s][n].closed,
         NEW how \in IS!Outcome,
         said' = [said EXCEPT ![s][n].closed = TRUE],
         items' = [items EXCEPT ![s][n].status = how],
         pc' = [pc EXCEPT ![s] = "closing"]
  PROVE  OneByOne' /\ IS!Next /\ Len(said'[s]) = n /\ pc'[s] = "closing" /\ said'[s][n].closed
<1>1. s \in Active
  BY DEF Active
<1>2. /\ BaseType /\ Paired(s) /\ Reads(s)
      /\ said[s] \in Seq(BlockType) /\ items[s] \in Seq(ItemType) /\ Len(items[s]) = n
      /\ n \in Nat /\ n \in 1..n /\ DOMAIN said[s] = 1..n /\ DOMAIN items[s] = 1..n
      /\ items[s][n].runs = <<>>
  BY <1>1, Last DEF Reads
<1> DEFINE block == [said[s][n] EXCEPT !.closed = TRUE]
           item == [items[s][n] EXCEPT !.status = how]
<1>6. said[s][n] \in BlockType /\ items[s][n] \in ItemType
  BY <1>2
<1>7. block \in BlockType /\ item \in ItemType
  BY <1>6 DEF BlockType, ItemType, IS!Outcome
<1>8. /\ said' = [said EXCEPT ![s] = [said[s] EXCEPT ![n] = block]]
      /\ items' = [items EXCEPT ![s] = [items[s] EXCEPT ![n] = item]]
  OBVIOUS
<1>9. /\ block.kind = said[s][n].kind /\ block.closed
      /\ item.kind = items[s][n].kind /\ item.status = how /\ item.runs = items[s][n].runs
  BY <1>6 DEF BlockType, ItemType
<1>17. how # "in_progress"
  BY DEF IS!Outcome
<1> HIDE DEF block, item
<1>10. /\ said' \in [Stream -> Seq(BlockType)] /\ \A t \in Stream \ {s} : said'[t] = said[t]
       /\ Len(said'[s]) = n /\ \A a \in 1..n \ {n} : said'[s][a] = said[s][a]
       /\ said'[s][n] = block
  <2>1. /\ said' \in [Stream -> Seq(BlockType)]
        /\ \A t \in Stream \ {s} : said'[t] = said[t]
        /\ Len(said'[s]) = Len(said[s])
        /\ \A a \in DOMAIN said[s] \ {n} : said'[s][a] = said[s][a]
        /\ said'[s][n] = block
    <3>1. said \in [Stream -> Seq(BlockType)] /\ n \in DOMAIN said[s]
      BY <1>2 DEF BaseType
    <3>2. said' = [said EXCEPT ![s] = [said[s] EXCEPT ![n] = block]] /\ block \in BlockType
      BY <1>1, <1>2, <1>7, <1>8
    <3> QED
      BY ONLY s \in Stream, <3>1, <3>2, Replaced
  <2> QED
    BY <1>2, <2>1
<1>11. /\ items' \in [Stream -> Seq(ItemType)] /\ \A t \in Stream \ {s} : items'[t] = items[t]
       /\ Len(items'[s]) = n /\ \A a \in 1..n \ {n} : items'[s][a] = items[s][a]
       /\ items'[s][n] = item
  <2>1. /\ items' \in [Stream -> Seq(ItemType)]
        /\ \A t \in Stream \ {s} : items'[t] = items[t]
        /\ Len(items'[s]) = Len(items[s])
        /\ \A a \in DOMAIN items[s] \ {n} : items'[s][a] = items[s][a]
        /\ items'[s][n] = item
    <3>1. items \in [Stream -> Seq(ItemType)] /\ n \in DOMAIN items[s]
      BY <1>2 DEF BaseType
    <3>2. items' = [items EXCEPT ![s] = [items[s] EXCEPT ![n] = item]] /\ item \in ItemType
      BY <1>1, <1>2, <1>7, <1>8
    <3> QED
      BY <3>1, <3>2, Replaced
  <2> QED
    BY <1>2, <2>1
<1>12. Paired(s)'
  BY <1>2, <1>9, <1>10, <1>11 DEF Paired
<1>13. pc'[s] = "closing"
  BY <1>2 DEF BaseType
<1>14. Reads(s)'
  <2>1. \A a \in 1..n : a < n => said'[s][a].closed /\ Whole(s, a)'
    BY <1>2, <1>10, <1>11 DEF Reads, Whole
  <2> QED
    BY <1>2, <1>9, <1>10, <1>11, <1>13, <1>17, <2>1 DEF Reads
<1>15. OneByOne'
  <2>1. "closing" \in Where \ {"idle"}
    BY DEF Where
  <2> QED
    BY <1>1, <1>10, <1>11, <1>12, <1>14, <2>1, Moves
<1>16. phase' = phase
  BY <1>1, <1>2, Suspends DEF Where
<1> QED
  BY <1>1, <1>2, <1>9, <1>10, <1>13, <1>15, <1>16, SettlesOne

\* The function call that was closed is launched.
LEMMA RunsLast ==
  ASSUME OneByOne, NEW s \in Stream, s \notin shared, UNCHANGED shared,
         pc[s] = "closing", NEW n, n = Len(said[s]),
         items[s][n].kind = "function_call",
         items' = [items EXCEPT ![s][n].runs = Append(@, s)], UNCHANGED said,
         NEW w \in {"launching", "emitting"}, pc' = [pc EXCEPT ![s] = w]
  PROVE  OneByOne' /\ IS!Next
<1>1. s \in Active
  BY DEF Active
<1>2. /\ BaseType /\ Paired(s) /\ Reads(s)
      /\ items[s] \in Seq(ItemType) /\ Len(items[s]) = n
      /\ n \in Nat /\ n \in 1..n /\ DOMAIN items[s] = 1..n
      /\ said[s][n].closed /\ items[s][n].status # "in_progress" /\ items[s][n].runs = <<>>
  BY <1>1, Last DEF Reads
<1> DEFINE item == [items[s][n] EXCEPT !.runs = <<s>>]
<1>4. items[s][n] \in ItemType
  BY <1>2
<1>5. item \in ItemType /\ item.kind = "function_call" /\ item.status # "in_progress" /\ item.runs = <<s>>
  <2>1. <<s>> \in Seq(Stream)
    OBVIOUS
  <2> QED
    BY <1>2, <1>4, <2>1 DEF ItemType
<1>6. items' = [items EXCEPT ![s] = [items[s] EXCEPT ![n] = item]]
  <2>1. Append(items[s][n].runs, s) = <<s>>
    BY <1>2
  <2> QED
    BY <2>1
<1>13. items' = [items EXCEPT ![s][n].runs = <<s>>]
  BY <1>6
<1> HIDE DEF item
<1>7. /\ items' \in [Stream -> Seq(ItemType)] /\ \A t \in Stream \ {s} : items'[t] = items[t]
      /\ Len(items'[s]) = n /\ \A a \in 1..n \ {n} : items'[s][a] = items[s][a]
      /\ items'[s][n] = item
  <2>1. /\ items' \in [Stream -> Seq(ItemType)]
        /\ \A t \in Stream \ {s} : items'[t] = items[t]
        /\ Len(items'[s]) = Len(items[s])
        /\ \A a \in DOMAIN items[s] \ {n} : items'[s][a] = items[s][a]
        /\ items'[s][n] = item
    <3>1. items \in [Stream -> Seq(ItemType)] /\ n \in DOMAIN items[s]
      BY <1>2 DEF BaseType
    <3>2. items' = [items EXCEPT ![s] = [items[s] EXCEPT ![n] = item]] /\ item \in ItemType
      BY <1>1, <1>2, <1>5, <1>6
    <3> QED
      BY <3>1, <3>2, Replaced
  <2> QED
    BY <1>2, <2>1
<1>8. Paired(s)'
  BY <1>2, <1>5, <1>7 DEF Paired
<1>9. pc'[s] = w
  BY <1>2 DEF BaseType
<1>10. Reads(s)'
  <2>1. \A a \in 1..n : a < n => said'[s][a].closed /\ Whole(s, a)'
    BY <1>2, <1>7, <1>9 DEF Reads, Whole
  <2> QED
    BY <1>2, <1>5, <1>7, <1>9, <2>1 DEF Reads, Whole
<1>11. OneByOne'
  <2>1. said' \in [Stream -> Seq(BlockType)]
    BY <1>2 DEF BaseType
  <2>2. w \in Where \ {"idle"}
    BY DEF Where
  <2> QED
    BY <1>1, <1>7, <1>8, <1>10, <2>1, <2>2, Moves
<1>12. phase[s] = "open" /\ phase' = phase
  BY <1>1, <1>2, Suspends DEF Where
<1>14. IS!Launch(s, n)
  BY <1>2, <1>12, <1>13 DEF IS!Launch
<1> QED
  BY <1>2, <1>11, <1>14 DEF IS!Next, IS!Step

\* A response that is read side by side with another is not followed any further.
LEMMA SetAside ==
  ASSUME OneByOne, BaseType', shared \subseteq shared',
         \A t \in Stream \ shared' : said'[t] = said[t] /\ items'[t] = items[t] /\ pc'[t] = pc[t]
  PROVE  OneByOne'
<1>1. \A t \in Stream \ shared' : Paired(t)' /\ (pc'[t] = "idle" => said'[t] = <<>>)
  BY DEF OneByOne, Paired
<1>2. ASSUME NEW t \in Active', t \notin shared' PROVE Reads(t)'
  <2>1. t \in Stream /\ t \in Active /\ t \notin shared
    BY <1>2 DEF Active
  <2>2. pc'[t] = pc[t] /\ said'[t] = said[t] /\ items'[t] = items[t]
    BY <1>2, <2>1
  <2>3. Reads(t)
    BY <2>1 DEF OneByOne
  <2> QED
    BY ONLY <2>2, <2>3 DEF Reads, Whole
<1> QED
  BY <1>1, <1>2 DEF OneByOne

\* Back to the next event.
LEMMA Resumes ==
  ASSUME OneByOne, NEW s \in Stream, s \notin shared, UNCHANGED shared,
         pc[s] \in {"closing", "launching", "emitting"},
         pc[s] = "closing" => items[s][Len(said[s])].kind # "function_call",
         pc' = [pc EXCEPT ![s] = "reading"], UNCHANGED <<said, items>>
  PROVE  OneByOne' /\ phase' = phase
<1>2. s \in Active /\ BaseType /\ Paired(s) /\ Reads(s)
  BY DEF OneByOne, Active
<1>3. pc'[s] = "reading" /\ Len(said[s]) \in Nat
  BY <1>2 DEF BaseType
<1>4. Reads(s)'
  <2>1. pc[s] \in {"closing", "launching"} => Whole(s, Len(said[s]))
    BY <1>2 DEF Reads, Whole
  <2>2. \A a \in 1..Len(said[s]) : a < Len(said[s]) => said'[s][a].closed /\ Whole(s, a)'
    BY <1>2 DEF Reads, Whole
  <2> QED
    BY <1>2, <1>3, <2>1, <2>2 DEF Reads, Whole
<1>5. OneByOne'
  <2>2. "reading" \in Where \ {"idle"} /\ Paired(s)'
    BY <1>2 DEF Where, Paired
  <2> QED
    BY <1>2, <1>4, <2>2, Moves DEF BaseType
<1>6. phase' = phase
  BY <1>2, Suspends DEF Where
<1> QED
  BY <1>5, <1>6

\* The response is cut, or read to its end.
LEMMA Stops ==
  ASSUME OneByOne, NEW s \in Active, s \notin shared, UNCHANGED shared,
         NEW w \in {"done", "cut"}, pc' = [pc EXCEPT ![s] = w],
         UNCHANGED <<said, items>>,
         w = "done" => pc[s] = "reading" /\ \A b \in DOMAIN said[s] : said[s][b].closed
  PROVE  OneByOne' /\ IS!Next
<1>2. s \in Stream /\ BaseType /\ Paired(s) /\ Reads(s)
  BY DEF OneByOne, Active
<1>3. OneByOne'
  BY <1>2, Moves DEF BaseType, Where, Paired
<1>4. CASE w = "cut"
  BY <1>2, <1>3, <1>4, CutIsCut
<1>5. CASE w = "done"
  <2>2. phase[s] = "open" /\ phase' = [phase EXCEPT ![s] = "done"]
    BY <1>2, <1>5, Suspends DEF Where
  <2>3. DOMAIN items[s] = 1..Len(said[s]) /\ Len(said[s]) \in Nat /\ DOMAIN said[s] = 1..Len(said[s])
    BY <1>2 DEF BaseType, Paired, Active
  <2>4. \A b \in DOMAIN items[s] : Whole(s, b)
    BY <1>2, <1>5, <2>3 DEF Reads
  <2>5. IS!Finish(s)
    BY <2>2, <2>4 DEF IS!Finish, Whole
  <2> QED
    BY <1>2, <1>3, <2>5 DEF IS!Next, IS!Step
<1> QED
  BY <1>4, <1>5

-----------------------------------------------------------------------------
\* Responses that are read side by side.

\* Only they are ever active together with another one ...
Sharing == \A s \in Active \ shared : Active = {s}

\* ... so a step of one of them finds all that are active among them.
LEMMA AllShared == ASSUME Sharing, NEW s \in Active, s \in shared PROVE Active \subseteq shared
BY DEF Sharing

\* Nothing is shared anew unless a response begins.
LEMMA SharesNoMore ==
  ASSUME Sharing, Active' \subseteq Active, Remember
  PROVE  shared' = shared
<1>1. CASE \E s, t \in Active' : s # t
  <2>1. Active \subseteq shared
    BY <1>1 DEF Sharing
  <2> QED
    BY <2>1 DEF Remember, Together
<1>2. CASE ~\E s, t \in Active' : s # t
  <2>1. Together' = {}
    BY <1>2 DEF Together
  <2> QED
    BY <2>1 DEF Remember
<1> QED
  BY <1>1, <1>2

\* One that begins is alone, or shares with all the others.
LEMMA SharesAll ==
  ASSUME Sharing, NEW s \in Stream, s \notin Active, Active' = Active \cup {s}, Remember
  PROVE  /\ shared \subseteq shared' /\ Sharing'
         /\ Active = {} => shared' = shared
         /\ Active # {} => Active' \subseteq shared'
<1>1. CASE Active = {}
  <2>1. Active' = {s}
    BY <1>1
  <2>2. Together' = {}
    BY <2>1 DEF Together
  <2> QED
    BY <1>1, <2>1, <2>2 DEF Remember, Sharing
<1>2. CASE Active # {}
  <2>1. PICK t \in Active : t # s
    BY <1>2
  <2>2. s \in Active' /\ t \in Active'
    BY <2>1
  <2>3. Together' = Active'
    BY <2>1, <2>2 DEF Together
  <2> QED
    BY <1>2, <2>3 DEF Remember, Sharing
<1> QED
  BY <1>1, <1>2

\* What a handler does to an item that it holds, wherever the item is.
LEMMA Touched ==
  ASSUME NEW its \in [Stream -> Seq(ItemType)], NEW a \in Stream, NEW i, NEW e,
         i \in DOMAIN its[a] => e \in ItemType,
         NEW g, g = [its EXCEPT ![a] = [its[a] EXCEPT ![i] = e]]
  PROVE  g \in [Stream -> Seq(ItemType)] /\ \A t \in Stream \ {a} : g[t] = its[t]
<1>1. [its[a] EXCEPT ![i] = e] \in Seq(ItemType)
  <2>1. CASE i \in DOMAIN its[a]
    BY <2>1, ExceptSeq
  <2>2. CASE i \notin DOMAIN its[a]
    <3>1. its[a] \in Seq(ItemType) /\ its[a] = [j \in DOMAIN its[a] |-> its[a][j]]
      OBVIOUS
    <3>2. [its[a] EXCEPT ![i] = e] = its[a]
      BY <2>2, <3>1
    <3> QED
      BY <3>1, <3>2
  <2> QED
    BY <2>1, <2>2
<1> QED
  BY <1>1

LEMMA Absorbed ==
  ASSUME BaseType, NEW r \in Stream \X Nat, NEW x \in Stream \X Nat,
         items' = [items EXCEPT ![r[1]][r[2]].content = Append(@, x)]
  PROVE  items' \in [Stream -> Seq(ItemType)] /\ \A t \in Stream \ {r[1]} : items'[t] = items[t]
<1> DEFINE e == [items[r[1]][r[2]] EXCEPT !.content = Append(items[r[1]][r[2]].content, x)]
<1>1. r[1] \in Stream /\ items \in [Stream -> Seq(ItemType)]
  BY DEF BaseType
<1>2. ASSUME r[2] \in DOMAIN items[r[1]] PROVE e \in ItemType
  <2>1. items[r[1]][r[2]] \in ItemType
    BY <1>1, <1>2
  <2>2. Append(items[r[1]][r[2]].content, x) \in Seq(Stream \X Nat)
    BY <2>1 DEF ItemType
  <2> QED
    BY <2>1, <2>2 DEF ItemType
<1>3. items' = [items EXCEPT ![r[1]] = [items[r[1]] EXCEPT ![r[2]] = e]]
  OBVIOUS
<1> HIDE DEF e
<1> QED
  BY ONLY <1>1, <1>2, <1>3, Touched

LEMMA Ending ==
  ASSUME BaseType, NEW r \in Stream \X Nat,
         items' = [items EXCEPT ![r[1]][r[2]].status = "completed"]
  PROVE  items' \in [Stream -> Seq(ItemType)] /\ \A t \in Stream \ {r[1]} : items'[t] = items[t]
<1> DEFINE e == [items[r[1]][r[2]] EXCEPT !.status = "completed"]
<1>1. r[1] \in Stream /\ items \in [Stream -> Seq(ItemType)]
  BY DEF BaseType
<1>2. ASSUME r[2] \in DOMAIN items[r[1]] PROVE e \in ItemType
  <2>1. items[r[1]][r[2]] \in ItemType
    BY <1>1, <1>2
  <2> QED
    BY <2>1 DEF ItemType
<1>3. items' = [items EXCEPT ![r[1]] = [items[r[1]] EXCEPT ![r[2]] = e]]
  OBVIOUS
<1> HIDE DEF e
<1> QED
  BY ONLY <1>1, <1>2, <1>3, Touched

LEMMA Running ==
  ASSUME BaseType, NEW r \in Stream \X Nat, NEW s \in Stream,
         items' = [items EXCEPT ![r[1]][r[2]].runs = Append(@, s)]
  PROVE  items' \in [Stream -> Seq(ItemType)] /\ \A t \in Stream \ {r[1]} : items'[t] = items[t]
<1> DEFINE e == [items[r[1]][r[2]] EXCEPT !.runs = Append(items[r[1]][r[2]].runs, s)]
<1>1. r[1] \in Stream /\ items \in [Stream -> Seq(ItemType)]
  BY DEF BaseType
<1>2. ASSUME r[2] \in DOMAIN items[r[1]] PROVE e \in ItemType
  <2>1. items[r[1]][r[2]] \in ItemType
    BY <1>1, <1>2
  <2>2. Append(items[r[1]][r[2]].runs, s) \in Seq(Stream)
    BY <2>1 DEF ItemType
  <2> QED
    BY <2>1, <2>2 DEF ItemType
<1>3. items' = [items EXCEPT ![r[1]] = [items[r[1]] EXCEPT ![r[2]] = e]]
  OBVIOUS
<1> HIDE DEF e
<1> QED
  BY ONLY <1>1, <1>2, <1>3, Touched

LEMMA Adding ==
  ASSUME BaseType, NEW s \in Stream, NEW k \in IS!Kind,
         items' = [items EXCEPT ![s] = Append(items[s], IS!Item(k))]
  PROVE  items' \in [Stream -> Seq(ItemType)] /\ \A t \in Stream \ {s} : items'[t] = items[t]
<1>1. IS!Item(k) \in ItemType
  BY DEF IS!Item, ItemType
<1> QED
  BY <1>1, Longer DEF BaseType

\* What the model sends keeps its type.
LEMMA SayingNew ==
  ASSUME BaseType, NEW s \in Stream, NEW k \in IS!Kind,
         said' = [said EXCEPT ![s] = Append(said[s], IS!Block(k))]
  PROVE  said' \in [Stream -> Seq(BlockType)] /\ \A t \in Stream \ {s} : said'[t] = said[t]
<1>1. IS!Block(k) \in BlockType
  BY DEF IS!Block, BlockType
<1> QED
  BY <1>1, Longer DEF BaseType

LEMMA SayingMore ==
  ASSUME BaseType, NEW s \in Stream, NEW b \in DOMAIN said[s],
         \/ said' = [said EXCEPT ![s][b].deltas = @ + 1]
         \/ said' = [said EXCEPT ![s][b].closed = TRUE]
  PROVE  said' \in [Stream -> Seq(BlockType)] /\ \A t \in Stream \ {s} : said'[t] = said[t]
<1> DEFINE d == [said[s][b] EXCEPT !.deltas = said[s][b].deltas + 1]
           c == [said[s][b] EXCEPT !.closed = TRUE]
<1>1. said \in [Stream -> Seq(BlockType)] /\ said[s][b] \in BlockType
  BY DEF BaseType
<1>2. d \in BlockType
  BY ONLY <1>1 DEF BlockType
<1>4. c \in BlockType
  BY ONLY <1>1 DEF BlockType
<1>3. \/ said' = [said EXCEPT ![s] = [said[s] EXCEPT ![b] = d]]
      \/ said' = [said EXCEPT ![s] = [said[s] EXCEPT ![b] = c]]
  OBVIOUS
<1> HIDE DEF d, c
<1>5. CASE said' = [said EXCEPT ![s] = [said[s] EXCEPT ![b] = d]]
  BY ONLY s \in Stream, b \in DOMAIN said[s], <1>1, <1>2, <1>5, Replaced
<1>6. CASE said' = [said EXCEPT ![s] = [said[s] EXCEPT ![b] = c]]
  BY ONLY s \in Stream, b \in DOMAIN said[s], <1>1, <1>4, <1>6, Replaced
<1> QED
  BY <1>3, <1>5, <1>6

-----------------------------------------------------------------------------
\* V1Messages: as long as a response is read alone, the current block is its last
\* one while that is open and none otherwise, and the one that a handler still
\* holds is the last one too.

Ref == {<<>>} \cup (Stream \X Nat)

Points(s) ==
  LET n == Len(said[s]) IN
  /\ n > 0 /\ ~said[s][n].closed => current = <<s, n>> /\ foreign[s] = 0
  /\ pc[s] \in {"closing", "launching"} => mheld[s] = <<s, n>> /\ current = <<s, n>>
  /\ pc[s] \in {"reading", "emitting"} /\ (n > 0 => said[s][n].closed) => current = <<>>

\* The blocks that are held belong to responses that are read.
MHolds ==
  /\ Active # {} /\ current # <<>> => current[1] \in shared \cup Active
  /\ \A s \in Active : pc[s] \in {"closing", "launching"} =>
       mheld[s] # <<>> /\ mheld[s][1] \in shared \cup {s}

MInv ==
  /\ OneByOne /\ Sharing
  /\ mheld \in [Stream -> Ref] /\ current \in Ref /\ foreign \in [Stream -> Nat]
  /\ \A s \in Active \ shared : Points(s)
  /\ MHolds

LEMMA MInit == Init => MInv
BY OneByOneInit DEF Init, M!Init, M!BaseInit, M!None, BaseInit, MInv, MHolds, Sharing, Ref, Active

\* A step of a response that is read alone.
LEMMA MMoves ==
  ASSUME MInv, NEW s \in Active, s \notin shared, UNCHANGED shared,
         NEW w \in Where \ {"idle"}, pc' = [pc EXCEPT ![s] = w],
         OneByOne', mheld' \in [Stream -> Ref], current' \in Ref, foreign' \in [Stream -> Nat],
         w \notin {"done", "cut"} => Points(s)'
  PROVE  MInv'
<1>1. Active = {s} /\ Active' \subseteq {s} /\ s \in Stream
  BY Suspends DEF MInv, OneByOne, Sharing, Active
<1>2. pc'[s] = w /\ Len(said'[s]) \in Nat
  BY <1>1 DEF MInv, OneByOne, BaseType
<1>3. s \in Active' => Points(s)' /\ Reads(s)'
  BY <1>1, <1>2 DEF OneByOne, Active
<1>4. s \in Active' => /\ current' # <<>> => current'[1] = s
                       /\ w \in {"closing", "launching"} => mheld'[s] # <<>> /\ mheld'[s][1] = s
  BY <1>2, <1>3 DEF Points, Reads
<1>5. MHolds'
  BY <1>1, <1>2, <1>4 DEF MHolds
<1>6. Sharing'
  BY <1>1 DEF Sharing
<1> QED
  BY <1>1, <1>3, <1>5, <1>6 DEF MInv

\* A step of a response that is read side by side with others: whatever becomes of
\* these, the ones that are read alone are not touched.
LEMMA MAside ==
  ASSUME MInv, NEW s \in Active, s \in shared, UNCHANGED shared,
         NEW w \in Where \ {"idle"}, pc' = [pc EXCEPT ![s] = w],
         said' \in [Stream -> Seq(BlockType)], \A t \in Stream \ {s} : said'[t] = said[t],
         items' \in [Stream -> Seq(ItemType)], \A t \in Stream \ shared : items'[t] = items[t],
         mheld' \in [Stream -> Ref], \A t \in Stream \ {s} : mheld'[t] = mheld[t],
         current' \in Ref, current' # <<>> => current'[1] \in shared, foreign' \in [Stream -> Nat],
         w \in {"closing", "launching"} => mheld'[s] # <<>> /\ mheld'[s][1] \in shared
  PROVE  MInv' /\ \A t \in Stream \ shared : IS!Follows(t)
<1>1. s \in Stream /\ BaseType /\ Active' \subseteq Active /\ Active \subseteq shared /\ Active \subseteq Stream
  <2>1. BaseType /\ s \in Stream
    BY DEF MInv, OneByOne, Active
  <2> QED
    BY <2>1, Suspends, AllShared DEF MInv, Active
<1>2. BaseType' /\ pc'[s] = w /\ \A t \in Stream \ {s} : pc'[t] = pc[t]
  BY <1>1 DEF BaseType
<1>3. \A t \in Stream \ shared : said'[t] = said[t] /\ items'[t] = items[t] /\ pc'[t] = pc[t]
  BY <1>2
<1>4. OneByOne'
  BY <1>2, <1>3, SetAside DEF MInv
<1>5. Active' \subseteq shared' /\ Sharing'
  BY <1>1 DEF Sharing
<1>6. MHolds'
  <2>1. ASSUME NEW t \in Active', pc'[t] \in {"closing", "launching"}
        PROVE  mheld'[t] # <<>> /\ mheld'[t][1] \in shared' \cup {t}
    <3>1. CASE t = s
      BY <1>2, <2>1, <3>1
    <3>2. CASE t # s
      BY <1>1, <1>2, <2>1, <3>2 DEF MInv, MHolds
    <3> QED
      BY <3>1, <3>2
  <2> QED
    BY <2>1 DEF MHolds
<1>7. MInv'
  BY <1>4, <1>5, <1>6 DEF MInv
<1>8. \A t \in Stream \ shared : phase'[t] = phase[t]
  BY <1>1, <1>3 DEF phase, Active
<1> QED
  BY <1>3, <1>7, <1>8 DEF IS!Follows

\* The response headers have arrived.
LEMMA MBegin ==
  ASSUME MInv, NEW s \in Stream, M!Begin(s), Remember
  PROVE  MInv' /\ \A t \in Stream \ shared' : IS!Follows(t)
<1>1. /\ pc[s] = "idle" /\ current' = <<>> /\ pc' = [pc EXCEPT ![s] = "reading"]
      /\ UNCHANGED <<said, items, mheld, foreign>>
  BY DEF M!Begin, M!Goto, M!None
<1>2. BaseType /\ Sharing /\ s \notin Active
  BY <1>1 DEF MInv, OneByOne, Active
<1>3. IS!Begin(s) /\ Active' = Active \cup {s}
  BY <1>1, <1>2, Starts
<1>4. /\ shared \subseteq shared' /\ Sharing'
      /\ Active = {} => shared' = shared
      /\ Active # {} => Active' \subseteq shared'
  BY <1>2, <1>3, SharesAll
<1>5. \A t \in Stream : IS!Follows(t)
  <2>1. IS!Next
    BY <1>3 DEF IS!Next, IS!Step
  <2> QED
    BY <1>2, <2>1, StepFollows
<1>6. MHolds'
  BY <1>1, <1>2, <1>3, <1>4 DEF MInv, MHolds, BaseType, Active
<1>7. CASE s \in shared'
  <2>1. OneByOne'
    BY <1>1, <1>2, <1>4, <1>7, SetAside DEF MInv, BaseType, Where
  <2>2. Active' \subseteq shared'
    BY <1>3, <1>4, <1>7
  <2> QED
    BY <1>1, <1>4, <1>5, <1>6, <2>1, <2>2 DEF MInv, Ref
<1>8. CASE s \notin shared'
  <2>1. Active = {} /\ shared' = shared /\ s \notin shared
    BY <1>3, <1>4, <1>8
  <2>2. OneByOne' /\ Active' = {s} /\ pc'[s] = "reading" /\ Len(said'[s]) = 0
    BY <1>1, <2>1, Begins DEF MInv
  <2>3. Points(s)'
    BY <1>1, <2>2 DEF Points
  <2> QED
    BY <1>1, <1>4, <1>5, <1>6, <2>1, <2>2, <2>3 DEF MInv, Ref
<1> QED
  BY <1>7, <1>8

\* content_block_start
LEMMA MBlockStart ==
  ASSUME MInv, NEW s \in Stream, s \notin shared, UNCHANGED shared,
         NEW k \in IS!Kind, M!BlockStart(s, k)
  PROVE  MInv' /\ IS!Next
<1>1. /\ pc[s] = "reading" /\ \A b \in DOMAIN said[s] : said[s][b].closed
      /\ said' = [said EXCEPT ![s] = Append(said[s], IS!Block(k))]
      /\ items' = [items EXCEPT ![s] = Append(items[s], IS!Item(k))]
      /\ current' = <<s, Len(items[s]) + 1>> /\ pc' = [pc EXCEPT ![s] = "emitting"]
      /\ foreign[s] = 0 /\ UNCHANGED <<mheld, foreign>>
  BY DEF M!BlockStart, M!Between, M!OpenBlocks, M!Says, M!NewItem, M!Goto, M!IS!Block, M!IS!Item,
         IS!Block, IS!Item
<1>2. OneByOne' /\ IS!Next /\ Len(said'[s]) = Len(items[s]) + 1
  BY <1>1, Opens DEF MInv
<1>3. s \in Active /\ Len(items[s]) \in Nat /\ pc'[s] = "emitting"
  BY <1>1 DEF MInv, OneByOne, BaseType, Active
<1>4. ~said'[s][Len(said'[s])].closed
  <2>1. IS!Block(k) \in BlockType /\ ~IS!Block(k).closed
    BY DEF IS!Block, BlockType
  <2>2. said'[s][Len(said'[s])] = IS!Block(k)
    BY <1>1, <2>1, Longer DEF MInv, OneByOne, BaseType
  <2> QED
    BY <2>1, <2>2
<1>5. current' \in Ref /\ mheld' \in [Stream -> Ref] /\ foreign' \in [Stream -> Nat] /\ Points(s)'
  BY <1>1, <1>2, <1>3, <1>4 DEF MInv, Ref, Points
<1> QED
  BY <1>1, <1>2, <1>3, <1>5, MMoves DEF Where

\* content_block_delta: there is a current block, and it is of the delta's kind.
LEMMA MBlockDelta ==
  ASSUME MInv, NEW s \in Stream, s \notin shared, UNCHANGED shared, M!BlockDelta(s)
  PROVE  MInv' /\ IS!Next
<1> DEFINE n == Len(said[s])
<1>1. s \in Active /\ OneByOne /\ Points(s) /\ pc[s] = "reading"
  BY DEF M!BlockDelta, MInv, Active
<1>2. PICK b \in M!OpenBlocks(s) : M!SaysMore(s, b) /\ M!Deliver(s, said[s][b].kind, <<s, b>>)
  BY DEF M!BlockDelta
<1>3. /\ b = n /\ n \in DOMAIN said[s] /\ n \in 1..n /\ ~said[s][n].closed /\ current = <<s, n>>
      /\ foreign[s] = 0 /\ items[s][n].kind = said[s][n].kind
  BY <1>1, <1>2, Last DEF M!OpenBlocks, Points, Paired
<1>4. /\ M!Absorb(<<s, n>>, <<s, n>>)
      /\ M!Goto(s, IF said[s][n].kind = "function_call" THEN "reading" ELSE "emitting")
      /\ M!SaysMore(s, n)
  BY <1>2, <1>3 DEF M!Deliver, M!None, M!At
<1>5. PICK w \in {"reading", "emitting"} : pc' = [pc EXCEPT ![s] = w]
  BY <1>4 DEF M!Goto
<1>6. /\ said' = [said EXCEPT ![s][n].deltas = @ + 1]
      /\ items' = [items EXCEPT ![s][n].content = Append(@, <<s, n>>)]
  BY <1>4 DEF M!SaysMore, M!Absorb
<1>7. OneByOne' /\ IS!Next /\ Len(said'[s]) = n
  BY <1>1, <1>3, <1>5, <1>6, Extends
<1>8. UNCHANGED <<current, mheld, foreign>> /\ pc'[s] = w
  BY <1>1, <1>5 DEF M!BlockDelta, OneByOne, BaseType
<1>9. ~said'[s][n].closed
  <2>1. said[s] \in Seq(BlockType) /\ said[s][n] \in BlockType /\ said \in [Stream -> Seq(BlockType)]
    BY <1>1, <1>3 DEF OneByOne, BaseType
  <2> QED
    BY <1>3, <1>6, <2>1 DEF BlockType
<1>10. Points(s)' /\ w \in Where \ {"idle"}
  BY <1>3, <1>7, <1>8, <1>9 DEF Points, Where
<1> QED
  BY <1>1, <1>5, <1>7, <1>8, <1>10, MMoves DEF MInv

\* content_block_stop, up to its update; that of a block of an unknown type finds no
\* current block.
LEMMA MBlockStop ==
  ASSUME MInv, NEW s \in Stream, s \notin shared, UNCHANGED shared, M!BlockStop(s)
  PROVE  MInv' /\ [IS!Next]_(IS!vars)
<1> DEFINE n == Len(said[s])
<1>1. s \in Active /\ OneByOne /\ BaseType /\ Points(s) /\ pc[s] = "reading" /\ n \in Nat
  <2>1. s \in Active /\ pc[s] = "reading"
    BY DEF M!BlockStop, Active
  <2>2. OneByOne /\ BaseType /\ Points(s)
    BY <2>1 DEF MInv, OneByOne
  <2>3. n \in Nat
    BY <2>2 DEF BaseType
  <2> QED
    BY <2>1, <2>2, <2>3
<1>2. CASE \E b \in M!OpenBlocks(s) : M!Closes(s, b) /\ UNCHANGED foreign
  <2>1. PICK b \in M!OpenBlocks(s) : M!Closes(s, b) /\ UNCHANGED foreign
    BY <1>2
  <2>2. b = n /\ n \in DOMAIN said[s] /\ n \in 1..n /\ ~said[s][n].closed /\ current = <<s, n>>
    BY <1>1, <2>1, Last DEF M!OpenBlocks, Points
  <2>3. /\ said' = [said EXCEPT ![s][n].closed = TRUE]
        /\ items' = [items EXCEPT ![s][n].status = "completed"]
        /\ pc' = [pc EXCEPT ![s] = "closing"]
        /\ mheld' = [mheld EXCEPT ![s] = <<s, n>>] /\ UNCHANGED <<current, foreign>>
    BY <2>1, <2>2 DEF M!BlockStop, M!Closes, M!Complete, M!End, M!Goto, M!None
  <2>4. OneByOne' /\ IS!Next /\ Len(said'[s]) = n /\ said'[s][n].closed /\ pc'[s] = "closing"
    BY <1>1, <2>2, <2>3, ClosesLast DEF IS!Outcome
  <2>5. mheld'[s] = <<s, n>> /\ mheld' \in [Stream -> Ref]
    BY <1>1, <2>3 DEF MInv, Ref
  <2>6. Points(s)'
    BY <2>2, <2>3, <2>4, <2>5 DEF Points
  <2> QED
    BY <1>1, <2>3, <2>4, <2>5, <2>6, MMoves DEF MInv, Where
<1>3. CASE /\ foreign[s] > 0 /\ foreign' = [foreign EXCEPT ![s] = 0] /\ UNCHANGED said
  <2>1. current = <<>>
    <3>1. n > 0 => said[s][n].closed
      BY <1>1, <1>3 DEF Points
    <3> QED
      BY <1>1, <3>1 DEF Points
  <2>2. /\ UNCHANGED <<items, pc, current>> /\ mheld' = [mheld EXCEPT ![s] = <<>>]
        /\ pc' = [pc EXCEPT ![s] = "reading"]
    BY <1>1, <2>1 DEF M!BlockStop, M!None, BaseType
  <2>3. UNCHANGED IS!vars /\ OneByOne'
    <3>1. Active' = Active /\ phase' = phase
      BY <2>2 DEF Active, phase
    <3>2. \A t \in Stream : Paired(t)' = Paired(t) /\ Reads(t)' = Reads(t)
      BY <1>3, <2>2 DEF Paired, Reads, Whole
    <3>3. Active \subseteq Stream
      BY DEF Active
    <3> QED
      BY <1>1, <1>3, <2>2, <3>1, <3>2, <3>3 DEF OneByOne, BaseType, IS!vars
  <2>4. Points(s)' /\ mheld' \in [Stream -> Ref] /\ foreign' \in [Stream -> Nat] /\ current' \in Ref
    BY <1>1, <1>3, <2>1, <2>2 DEF Points, MInv, Ref
  <2> QED
    BY <1>1, <2>2, <2>3, <2>4, MMoves DEF Where
<1> QED
  BY <1>2, <1>3 DEF M!BlockStop

\* A block of an unknown type: its deltas find no current block.
LEMMA MForeign ==
  ASSUME MInv, NEW s \in Stream, s \notin shared, UNCHANGED shared,
         M!ForeignStart(s) \/ M!ForeignDelta(s)
  PROVE  MInv' /\ UNCHANGED IS!vars
<1> DEFINE n == Len(said[s])
<1>1. /\ s \in Active /\ OneByOne /\ BaseType /\ Points(s) /\ pc[s] = "reading" /\ n \in Nat
      /\ DOMAIN said[s] = 1..n
  BY DEF M!ForeignStart, M!Between, M!ForeignDelta, MInv, OneByOne, BaseType, Active
<1>2. n > 0 => said[s][n].closed
  <2>1. CASE M!ForeignStart(s)
    BY <1>1, <2>1 DEF M!ForeignStart, M!Between, M!OpenBlocks
  <2>2. CASE M!ForeignDelta(s)
    <3>1. foreign[s] # 0
      BY <2>2 DEF M!ForeignDelta
    <3> QED
      BY <1>1, <3>1 DEF Points
  <2> QED
    BY <2>1, <2>2
<1>3. current = <<>>
  BY <1>1, <1>2 DEF Points
<1>4. UNCHANGED <<said, items, pc, current, mheld>> /\ pc' = [pc EXCEPT ![s] = "reading"]
  BY <1>1, <1>3 DEF M!ForeignStart, M!ForeignDelta, M!Deliver, M!None, BaseType
<1>5. foreign' \in [Stream -> Nat]
  BY DEF M!ForeignStart, M!ForeignDelta, MInv
<1>6. UNCHANGED IS!vars /\ OneByOne'
  <2>1. Active' = Active /\ phase' = phase
    BY <1>4 DEF Active, phase
  <2>2. \A t \in Stream : Paired(t)' = Paired(t) /\ Reads(t)' = Reads(t)
    BY <1>4 DEF Paired, Reads, Whole
  <2>3. Active \subseteq Stream
    BY DEF Active
  <2> QED
    BY <1>1, <1>4, <2>1, <2>2, <2>3 DEF OneByOne, BaseType, IS!vars
<1>7. Points(s)'
  BY <1>1, <1>2, <1>3, <1>4 DEF Points
<1> QED
  BY <1>1, <1>4, <1>5, <1>6, <1>7, MMoves DEF MInv, Where

\* A function call is launched.
LEMMA MLaunchBlock ==
  ASSUME MInv, NEW s \in Stream, s \notin shared, UNCHANGED shared, M!LaunchBlock(s)
  PROVE  MInv' /\ IS!Next
<1> DEFINE n == Len(said[s])
<1>1. s \in Active /\ OneByOne /\ Points(s) /\ pc[s] = "closing"
  BY DEF M!LaunchBlock, MInv, Active
<1>2. mheld[s] = <<s, n>> /\ current = <<s, n>> /\ n > 0 /\ said[s][n].closed
  BY <1>1, Last DEF Points, Reads
<1>3. M!Run(<<s, n>>, s) /\ M!At(<<s, n>>).kind = "function_call"
  BY <1>2 DEF M!LaunchBlock
<1>4. /\ items' = [items EXCEPT ![s][n].runs = Append(@, s)] /\ items[s][n].kind = "function_call"
      /\ pc' = [pc EXCEPT ![s] = "launching"] /\ UNCHANGED <<said, current, mheld, foreign>>
  BY <1>3 DEF M!LaunchBlock, M!Run, M!At, M!Goto
<1>5. OneByOne' /\ IS!Next /\ pc'[s] = "launching"
  BY <1>1, <1>4, RunsLast DEF OneByOne, BaseType
<1>6. Points(s)'
  BY <1>2, <1>4, <1>5 DEF Points
<1> QED
  BY <1>1, <1>4, <1>5, <1>6, MMoves DEF MInv, Where

\* The block is forgotten, or the update has been sent.
LEMMA MResumes ==
  ASSUME MInv, NEW s \in Stream, s \notin shared, UNCHANGED shared, M!ForgetBlock(s) \/ M!Emitted(s)
  PROVE  MInv' /\ UNCHANGED IS!vars
<1>1. /\ pc[s] \in {"closing", "launching", "emitting"} /\ pc' = [pc EXCEPT ![s] = "reading"]
      /\ UNCHANGED <<said, items, mheld, foreign>>
      /\ pc[s] \in {"closing", "launching"} => current' = <<>>
      /\ pc[s] = "emitting" => current' = current
      /\ pc[s] = "closing" => items[mheld[s][1]][mheld[s][2]].kind # "function_call"
  BY DEF M!ForgetBlock, M!Emitted, M!Goto, M!At, M!None
<1>2. s \in Active /\ OneByOne /\ Points(s)
  BY <1>1 DEF MInv, Active
<1>3. OneByOne' /\ phase' = phase
  <2>1. pc[s] = "closing" => items[s][Len(said[s])].kind # "function_call"
    BY <1>1, <1>2 DEF Points
  <2> QED
    BY <1>1, <1>2, <2>1, Resumes
<1>4. Points(s)' /\ current' \in Ref
  <2>1. pc'[s] = "reading"
    BY <1>1, <1>2 DEF OneByOne, BaseType
  <2>2. pc[s] \in {"closing", "launching"} => said[s][Len(said[s])].closed
    BY <1>2, Last DEF Reads
  <2> QED
    BY <1>1, <1>2, <2>1, <2>2 DEF Points, MInv, Ref
<1>5. MInv'
  BY <1>1, <1>2, <1>3, <1>4, MMoves DEF MInv, Where
<1> QED
  BY <1>1, <1>3, <1>5 DEF IS!vars

\* The response ends, or is cut.
LEMMA MStops ==
  ASSUME MInv, NEW s \in Stream, s \notin shared, UNCHANGED shared, M!Finish(s) \/ M!Cut(s)
  PROVE  MInv' /\ IS!Next
<1>1. PICK w \in {"done", "cut"} :
        /\ pc' = [pc EXCEPT ![s] = w]
        /\ w = "done" => pc[s] = "reading" /\ \A b \in DOMAIN said[s] : said[s][b].closed
  BY DEF M!Finish, M!Between, M!Cut, M!Goto, M!OpenBlocks
<1>2. s \in Active /\ OneByOne /\ UNCHANGED <<said, items, current, mheld, foreign>>
  BY SameNames DEF M!Finish, M!Between, M!Cut, MInv, Active
<1>3. OneByOne' /\ IS!Next
  BY <1>1, <1>2, Stops
<1> QED
  BY <1>1, <1>2, <1>3, MMoves DEF MInv, Where

\* A delta that reaches a block is absorbed there, any other is lost.
LEMMA MDelivers ==
  ASSUME MInv, NEW s \in Active, s \in shared, NEW k, NEW x \in Stream \X Nat, M!Deliver(s, k, x)
  PROVE  /\ items' \in [Stream -> Seq(ItemType)] /\ \A t \in Stream \ shared : items'[t] = items[t]
         /\ \E w \in Where \ {"idle", "closing", "launching"} : pc' = [pc EXCEPT ![s] = w] \/ pc' = pc
<1>1. BaseType /\ current \in Ref /\ (current # <<>> => current[1] \in shared)
  BY AllShared DEF MInv, OneByOne, MHolds
<1>2. ASSUME current # <<>>, M!Absorb(current, x)
      PROVE  items' \in [Stream -> Seq(ItemType)] /\ \A t \in Stream \ shared : items'[t] = items[t]
  <2>1. current \in Stream \X Nat
    BY <1>1, <1>2 DEF Ref
  <2>2. items' = [items EXCEPT ![current[1]][current[2]].content = Append(@, x)]
    BY <1>2 DEF M!Absorb
  <2>3. items' \in [Stream -> Seq(ItemType)] /\ \A t \in Stream \ {current[1]} : items'[t] = items[t]
    BY ONLY <1>1, <2>1, <2>2, x \in Stream \X Nat, Absorbed
  <2> QED
    BY <1>1, <1>2, <2>3
<1>3. ASSUME items' = items
      PROVE  items' \in [Stream -> Seq(ItemType)] /\ \A t \in Stream \ shared : items'[t] = items[t]
  BY <1>1, <1>3 DEF BaseType
<1>4. items' \in [Stream -> Seq(ItemType)] /\ \A t \in Stream \ shared : items'[t] = items[t]
  BY <1>2, <1>3 DEF M!Deliver, M!None
<1>5. \E w \in Where \ {"idle", "closing", "launching"} : pc' = [pc EXCEPT ![s] = w] \/ pc' = pc
  <2>1. "reading" \in Where \ {"idle", "closing", "launching"}
    BY DEF Where
  <2>2. "emitting" \in Where \ {"idle", "closing", "launching"}
    BY DEF Where
  <2>3. \/ pc' = pc \/ pc' = [pc EXCEPT ![s] = "reading"] \/ pc' = [pc EXCEPT ![s] = "emitting"]
    BY DEF M!Deliver, M!Goto
  <2> QED
    BY <2>1, <2>2, <2>3
<1> QED
  BY <1>4, <1>5

\* Read side by side with others, a response takes what step it may.
LEMMA MShared ==
  ASSUME MInv, NEW s \in Active, s \in shared, UNCHANGED shared,
         \/ M!BlockDelta(s) \/ M!BlockStop(s) \/ M!LaunchBlock(s) \/ M!ForgetBlock(s) \/ M!Emitted(s)
         \/ M!Finish(s) \/ M!Cut(s) \/ M!ForeignStart(s) \/ M!ForeignDelta(s)
         \/ \E k \in IS!Kind : M!BlockStart(s, k)
  PROVE  MInv' /\ \A t \in Stream \ shared : IS!Follows(t)
<1>1. /\ s \in Stream /\ BaseType /\ pc \in [Stream -> Where] /\ pc[s] # "idle"
      /\ mheld \in [Stream -> Ref] /\ current \in Ref /\ foreign \in [Stream -> Nat]
      /\ current # <<>> => current[1] \in shared
      /\ pc[s] \in {"closing", "launching"} => mheld[s] \in Stream \X Nat /\ mheld[s][1] \in shared
      /\ pc = [pc EXCEPT ![s] = pc[s]]
  BY AllShared DEF MInv, OneByOne, BaseType, MHolds, Active, Ref
<1>2. CASE M!BlockDelta(s)
  <2>1. PICK b \in M!OpenBlocks(s) : M!SaysMore(s, b) /\ M!Deliver(s, said[s][b].kind, <<s, b>>)
    BY <1>2 DEF M!BlockDelta
  <2>2. b \in DOMAIN said[s] /\ <<s, b>> \in Stream \X Nat
    BY <1>1, <2>1 DEF M!OpenBlocks, BaseType
  <2>3. said' \in [Stream -> Seq(BlockType)] /\ \A t \in Stream \ {s} : said'[t] = said[t]
    BY <1>1, <2>1, <2>2, SayingMore DEF M!SaysMore
  <2>4. PICK w \in Where \ {"idle", "closing", "launching"} : pc' = [pc EXCEPT ![s] = w] \/ pc' = pc
    BY <2>1, <2>2, MDelivers
  <2>5. items' \in [Stream -> Seq(ItemType)] /\ \A t \in Stream \ shared : items'[t] = items[t]
    BY <2>1, <2>2, MDelivers
  <2>6. UNCHANGED <<current, mheld, foreign>> /\ pc[s] = "reading"
    BY <1>2 DEF M!BlockDelta
  <2>7. pc' = [pc EXCEPT ![s] = w] \/ pc' = [pc EXCEPT ![s] = "reading"]
    BY <1>1, <2>4, <2>6
  <2> QED
    BY <1>1, <2>3, <2>5, <2>6, <2>7, MAside DEF Where
<1>3. CASE M!BlockStop(s)
  <2>1. said' \in [Stream -> Seq(BlockType)] /\ \A t \in Stream \ {s} : said'[t] = said[t]
    <3>1. CASE \E b \in M!OpenBlocks(s) : M!Closes(s, b)
      <4>1. PICK b \in DOMAIN said[s] : M!Closes(s, b)
        BY <3>1 DEF M!OpenBlocks
      <4> QED
        BY <1>1, <4>1, SayingMore DEF M!Closes
    <3>2. CASE said' = said
      BY <1>1, <3>2 DEF BaseType
    <3> QED
      BY <1>3, <3>1, <3>2 DEF M!BlockStop
  <2>2. /\ mheld' = [mheld EXCEPT ![s] = current] /\ UNCHANGED current /\ pc[s] = "reading"
        /\ foreign' \in [Stream -> Nat]
    BY <1>1, <1>3 DEF M!BlockStop
  <2>3. CASE current # <<>> /\ M!Complete(current) /\ M!Goto(s, "closing")
    <3>1. current \in Stream \X Nat /\ current[1] \in shared
      BY <1>1, <2>3 DEF Ref
    <3>2. items' \in [Stream -> Seq(ItemType)] /\ \A t \in Stream \ shared : items'[t] = items[t]
      BY <1>1, <2>3, <3>1, Ending DEF M!Complete, M!End
    <3>3. /\ mheld' \in [Stream -> Ref] /\ \A t \in Stream \ {s} : mheld'[t] = mheld[t]
          /\ mheld'[s] = current
      BY <1>1, <2>2
    <3>4. pc' = [pc EXCEPT ![s] = "closing"]
      BY <2>3 DEF M!Goto
    <3> QED
      BY <1>1, <2>1, <2>2, <2>3, <3>1, <3>2, <3>3, <3>4, MAside DEF Where
  <2>4. CASE UNCHANGED <<items, pc>>
    <3>1. items' \in [Stream -> Seq(ItemType)] /\ \A t \in Stream \ shared : items'[t] = items[t]
      BY <1>1, <2>4 DEF BaseType
    <3>2. mheld' \in [Stream -> Ref] /\ \A t \in Stream \ {s} : mheld'[t] = mheld[t]
      BY <1>1, <2>2
    <3>3. pc' = [pc EXCEPT ![s] = "reading"]
      BY <1>1, <2>2, <2>4
    <3> QED
      BY <1>1, <2>1, <2>2, <3>1, <3>2, <3>3, MAside DEF Where
  <2> QED
    BY <1>3, <2>3, <2>4 DEF M!BlockStop, M!None
<1>4. CASE M!LaunchBlock(s)
  <2>1. /\ pc[s] = "closing" /\ M!Run(mheld[s], s) /\ pc' = [pc EXCEPT ![s] = "launching"]
        /\ UNCHANGED <<said, current, mheld, foreign>>
    BY <1>4 DEF M!LaunchBlock, M!Goto
  <2>2. mheld[s] \in Stream \X Nat /\ mheld[s][1] \in shared
    BY <1>1, <2>1
  <2>3. items' \in [Stream -> Seq(ItemType)] /\ \A t \in Stream \ shared : items'[t] = items[t]
    BY <1>1, <2>1, <2>2, Running DEF M!Run
  <2>4. said' \in [Stream -> Seq(BlockType)] /\ \A t \in Stream \ {s} : said'[t] = said[t]
    BY <1>1, <2>1 DEF BaseType
  <2>5. mheld[s] # <<>>
    BY <2>2
  <2> QED
    BY <1>1, <2>1, <2>2, <2>3, <2>4, <2>5, MAside DEF Where
<1>5. CASE M!ForgetBlock(s) \/ M!Emitted(s) \/ M!Finish(s) \/ M!Cut(s)
  <2>1. /\ UNCHANGED <<said, items, mheld, foreign>> /\ (current' = current \/ current' = <<>>)
        /\ \E w \in {"reading", "done", "cut"} : pc' = [pc EXCEPT ![s] = w]
    BY <1>5 DEF M!ForgetBlock, M!Emitted, M!Finish, M!Cut, M!Goto, M!None
  <2>2. /\ said' \in [Stream -> Seq(BlockType)] /\ \A t \in Stream \ {s} : said'[t] = said[t]
        /\ items' \in [Stream -> Seq(ItemType)] /\ \A t \in Stream \ shared : items'[t] = items[t]
    BY <1>1, <2>1 DEF BaseType
  <2>3. current' \in Ref /\ (current' # <<>> => current'[1] \in shared)
    BY <1>1, <2>1 DEF Ref
  <2> QED
    BY <1>1, <2>1, <2>2, <2>3, MAside DEF Where
<1>6. CASE M!ForeignStart(s) \/ M!ForeignDelta(s)
  <2>1. foreign' \in [Stream -> Nat] /\ UNCHANGED <<said, current, mheld>> /\ pc[s] = "reading"
    <3>1. UNCHANGED <<said, current, mheld>> /\ pc[s] = "reading"
      BY <1>6 DEF M!ForeignStart, M!ForeignDelta, M!Between
    <3>2. foreign' = [foreign EXCEPT ![s] = 1] \/ foreign' = [foreign EXCEPT ![s] = foreign[s] + 1]
      BY <1>6 DEF M!ForeignStart, M!ForeignDelta
    <3> QED
      BY <1>1, <3>1, <3>2
  <2>2. CASE \E k \in M!IS!Kind : M!Deliver(s, k, <<s, 0>>)
    <3>1. PICK k \in M!IS!Kind : M!Deliver(s, k, <<s, 0>>)
      BY <2>2
    <3>2. <<s, 0>> \in Stream \X Nat
      BY <1>1
    <3>3. PICK w \in Where \ {"idle", "closing", "launching"} : pc' = [pc EXCEPT ![s] = w] \/ pc' = pc
      BY <3>1, <3>2, MDelivers
    <3>4. items' \in [Stream -> Seq(ItemType)] /\ \A t \in Stream \ shared : items'[t] = items[t]
      BY <3>1, <3>2, MDelivers
    <3>5. pc' = [pc EXCEPT ![s] = w] \/ pc' = [pc EXCEPT ![s] = "reading"]
      BY <1>1, <2>1, <3>3
    <3>6. said' \in [Stream -> Seq(BlockType)] /\ \A t \in Stream \ {s} : said'[t] = said[t]
      BY <1>1, <2>1 DEF BaseType
    <3> QED
      BY <1>1, <2>1, <3>4, <3>5, <3>6, MAside DEF Where
  <2>3. CASE UNCHANGED <<items, pc>>
    <3>1. /\ said' \in [Stream -> Seq(BlockType)] /\ \A t \in Stream \ {s} : said'[t] = said[t]
          /\ items' \in [Stream -> Seq(ItemType)] /\ \A t \in Stream \ shared : items'[t] = items[t]
          /\ pc' = [pc EXCEPT ![s] = "reading"]
      BY <1>1, <2>1, <2>3 DEF BaseType
    <3> QED
      BY <1>1, <2>1, <3>1, MAside DEF Where
  <2> QED
    BY <1>6, <2>2, <2>3 DEF M!ForeignStart, M!ForeignDelta
<1>7. ASSUME NEW k \in IS!Kind, M!BlockStart(s, k)
      PROVE  MInv' /\ \A t \in Stream \ shared : IS!Follows(t)
  <2>1. /\ said' = [said EXCEPT ![s] = Append(said[s], IS!Block(k))]
        /\ items' = [items EXCEPT ![s] = Append(items[s], IS!Item(k))]
        /\ current' = <<s, Len(items[s]) + 1>> /\ pc' = [pc EXCEPT ![s] = "emitting"]
        /\ UNCHANGED <<mheld, foreign>>
    BY <1>7 DEF M!BlockStart, M!Says, M!NewItem, M!Goto, M!IS!Block, M!IS!Item, IS!Block, IS!Item
  <2>2. said' \in [Stream -> Seq(BlockType)] /\ \A t \in Stream \ {s} : said'[t] = said[t]
    BY <1>1, <2>1, SayingNew
  <2>3. items' \in [Stream -> Seq(ItemType)] /\ \A t \in Stream \ shared : items'[t] = items[t]
    BY <1>1, <2>1, Adding
  <2>4. current' \in Ref /\ current'[1] = s
    BY <1>1, <2>1 DEF Ref, BaseType
  <2> QED
    BY <1>1, <2>1, <2>2, <2>3, <2>4, MAside DEF Where
<1> QED
  BY <1>2, <1>3, <1>4, <1>5, <1>6, <1>7

LEMMA MStep ==
  ASSUME MInv, M!Next, Remember
  PROVE  MInv' /\ \A t \in Stream \ shared' : IS!Follows(t)
<1>1. PICK s \in Stream :
        \/ M!Begin(s) \/ M!BlockDelta(s) \/ M!BlockStop(s) \/ M!LaunchBlock(s)
        \/ M!ForgetBlock(s) \/ M!Emitted(s) \/ M!Finish(s) \/ M!Cut(s)
        \/ M!ForeignStart(s) \/ M!ForeignDelta(s)
        \/ \E k \in IS!Kind : M!BlockStart(s, k)
  <2>1. M!IS!Kind = IS!Kind
    BY DEF M!IS!Kind, IS!Kind
  <2> QED
    BY <2>1 DEF M!Next
<1>2. CASE M!Begin(s)
  BY <1>2, MBegin
<1>3. CASE ~M!Begin(s)
  <2>1. s \in Active
    BY <1>1, <1>3, SameNames
       DEF M!BlockDelta, M!BlockStop, M!LaunchBlock, M!ForgetBlock, M!Emitted, M!Finish, M!Cut,
           M!ForeignStart, M!ForeignDelta, M!BlockStart, M!Between, Active
  <2>2. pc \in [Stream -> Where] /\ \E w : pc' = [pc EXCEPT ![s] = w] \/ pc' = pc
    BY <1>1, <1>3
       DEF M!BlockDelta, M!BlockStop, M!LaunchBlock, M!ForgetBlock, M!Emitted, M!Finish, M!Cut,
           M!ForeignStart, M!ForeignDelta, M!BlockStart, M!Deliver, M!Goto, MInv, OneByOne, BaseType
  <2>3. Active' \subseteq Active
    BY <2>1, <2>2 DEF Active
  <2>4. shared' = shared
    BY <2>3, SharesNoMore DEF MInv
  <2>5. CASE s \in shared
    BY <1>1, <1>3, <2>1, <2>4, <2>5, MShared
  <2>6. CASE s \notin shared
    <3>1. MInv' /\ [IS!Next]_(IS!vars)
      BY <1>1, <1>3, <2>4, <2>6, MBlockStart, MBlockDelta, MBlockStop, MLaunchBlock, MResumes,
         MStops, MForeign
    <3> QED
      BY <3>1, StepFollows DEF MInv, OneByOne
  <2> QED
    BY <2>5, <2>6
<1> QED
  BY <1>2, <1>3

LEMMA MStutter ==
  ASSUME MInv, UNCHANGED vars PROVE MInv' /\ \A t \in Stream \ shared' : IS!Follows(t)
<1>1. UNCHANGED <<shared, said, items, pc, current, mheld, foreign>>
  BY DEF vars, mvars, base
<1>2. Active' = Active /\ phase' = phase
  BY <1>1 DEF Active, phase
<1>3. \A s \in Stream : Paired(s)' = Paired(s) /\ Reads(s)' = Reads(s) /\ Points(s)' = Points(s)
  BY <1>1 DEF Paired, Reads, Whole, Points
<1>4. Active \subseteq Stream
  BY DEF Active
<1>5. OneByOne'
  BY <1>1, <1>2, <1>3, <1>4 DEF MInv, OneByOne, BaseType
<1>6. MHolds' /\ Sharing'
  BY <1>1, <1>2 DEF MInv, MHolds, Sharing
<1> QED
  BY <1>1, <1>2, <1>3, <1>4, <1>5, <1>6 DEF MInv, IS!Follows

\* V1Messages keeps the contract of ItemStream with every response that is not read
\* side by side with another: for any number of responses admitted at a time, of
\* blocks, known and unknown, and of deltas, and wherever the responses before it
\* were cut (content_block_start to content_block_stop, v1messages.py).
THEOREM MessagesKeepTheContract == Spec => MessagesMirror
<1> DEFINE Inv == adapter = "messages" => MInv
           A == adapter = "messages" => \A s \in Stream \ shared' : IS!Follows(s)
<1>1. Init => Inv
  BY MInit
<1>2. Inv /\ [Next]_vars => Inv' /\ A
  <2> SUFFICES ASSUME Inv, [Next]_vars, adapter = "messages" \/ adapter' = "messages"
               PROVE  MInv' /\ \A s \in Stream \ shared' : IS!Follows(s)
    OBVIOUS
  <2>1. adapter = "messages" /\ MInv
    BY DEF Next, vars
  <2> QED
    BY <2>1, MStep, MStutter DEF Next
<1>3. Spec => [][A]_vars
  <2> HIDE DEF Inv, A
  <2> QED
    BY <1>1, <1>2, PTL DEF Spec
<1> QED
  BY <1>3 DEF MessagesMirror

\* So what a provider object that admits two responses at a time mixes up stays
\* between those that were read side by side: the items of every other exchange
\* mirror what the model has sent for it, and hold nothing of another response
\* (_current_content_block, v1messages.py; without the proviso it is false).
THEOREM MessagesDoNotCross ==
  Spec => [](adapter = "messages" =>
               \A s \in Stream \ shared :
                 /\ IS!Mirrors(s)
                 /\ \A i \in DOMAIN items[s] : \A f \in DOMAIN items[s][i].content :
                      items[s][i].content[f][1] = s)
<1> DEFINE Inv == adapter = "messages" => MInv /\ \A s \in Stream \ shared : IS!Mirrors(s)
           P == adapter = "messages" =>
                  \A s \in Stream \ shared :
                    /\ IS!Mirrors(s)
                    /\ \A i \in DOMAIN items[s] : \A f \in DOMAIN items[s][i].content :
                         items[s][i].content[f][1] = s
<1>1. Init => Inv
  BY MInit, MirrorsBegin DEF Init, M!Init, M!BaseInit, BaseInit, IS!ItemsMirrorBlocks
<1>2. Inv /\ [Next]_vars => Inv'
  <2> SUFFICES ASSUME Inv, [Next]_vars, adapter' = "messages"
               PROVE  MInv' /\ \A s \in Stream \ shared' : IS!Mirrors(s)'
    OBVIOUS
  <2>1. adapter = "messages" /\ MInv /\ \A s \in Stream \ shared : IS!Mirrors(s)
    BY DEF Next, vars
  <2>2. MInv' /\ (\A s \in Stream \ shared' : IS!Follows(s)) /\ shared \subseteq shared'
    BY <2>1, MStep, MStutter DEF Next, Remember, vars
  <2>3. BaseType
    BY <2>1 DEF MInv, OneByOne
  <2> QED
    BY <2>1, <2>2, <2>3, FollowingKeepsMirror
<1>3. Inv => P
  BY MirrorIsOwn
<1> QED
  <2> HIDE DEF Inv, P
  <2>1. Spec => []Inv
    BY <1>1, <1>2, PTL DEF Spec
  <2>2. Spec => []P
    BY <2>1, <1>3, PTL
  <2> QED
    BY <2>2 DEF P

-----------------------------------------------------------------------------
\* V1Response, when the model sends one block after the other and no delta without
\* a block: the last item of the open block's kind is the last item of all.

RInv ==
  /\ OneByOne /\ shared = {}
  /\ rheld \in [Stream -> Ref]
  /\ \A s \in Active : /\ pc[s] # "launching"
                       /\ pc[s] = "closing" => rheld[s] = <<s, Len(said[s])>>

LEMMA RInit == Init => RInv
BY OneByOneInit DEF Init, R!Init, R!BaseInit, R!None, BaseInit, RInv, Ref, Active

LEMMA RMoves ==
  ASSUME RInv, UNCHANGED shared, NEW s \in Active, NEW w \in Where \ {"idle", "launching"}, pc' = [pc EXCEPT ![s] = w],
         OneByOne', rheld' \in [Stream -> Ref], w = "closing" => rheld'[s] = <<s, Len(said'[s])>>,
         \A t \in Stream \ {s} : rheld'[t] = rheld[t] /\ said'[t] = said[t]
  PROVE  RInv'
<1>1. Active' \subseteq Active \cup {s} /\ s \in Stream /\ Active \subseteq Stream /\ pc'[s] = w
  BY Suspends DEF RInv, OneByOne, BaseType, Active
<1>2. ASSUME NEW t \in Active \ {s} PROVE pc'[t] = pc[t] /\ rheld'[t] = rheld[t] /\ said'[t] = said[t]
  BY <1>1 DEF RInv, OneByOne, BaseType
<1> QED
  BY <1>1, <1>2 DEF RInv

LEMMA RBegin ==
  ASSUME RInv, UNCHANGED shared, NEW s \in Stream, R!Begin(s)
  PROVE  RInv' /\ IS!Next
<1>1. /\ pc[s] = "idle" /\ pc' = [pc EXCEPT ![s] = "reading"] /\ UNCHANGED <<said, items, rheld>>
  BY DEF R!Begin, R!Goto
<1>2. OneByOne' /\ IS!Next /\ Active' = Active \cup {s} /\ pc'[s] = "reading"
  BY <1>1, Begins DEF RInv
<1>3. \A t \in Active \ {s} : pc'[t] = pc[t]
  BY <1>1 DEF RInv, OneByOne, BaseType, Active
<1> QED
  BY <1>1, <1>2, <1>3 DEF RInv

\* With blocks one after the other, get_last_item() finds the item of the open one.
LEMMA LastOfKind ==
  ASSUME RInv, NEW s \in Active, NEW n, n = Len(said[s]), n \in DOMAIN said[s],
         NEW i \in 1..Len(items[s]), R!IsLast(s, said[s][n].kind, i)
  PROVE  i = n
<1>1. /\ Len(items[s]) = n /\ n \in 1..n /\ n \in Nat /\ DOMAIN items[s] = 1..n
      /\ items[s][n].kind = said[s][n].kind
  <2>1. OneByOne /\ s \notin shared
    BY DEF RInv
  <2>2. /\ Paired(s) /\ Len(said[s]) \in Nat /\ Len(items[s]) = Len(said[s])
        /\ DOMAIN said[s] = 1..Len(said[s]) /\ DOMAIN items[s] = 1..Len(said[s])
    BY <2>1, Last
  <2>3. Len(items[s]) = n /\ n \in 1..n /\ n \in Nat /\ DOMAIN items[s] = 1..n
    BY <2>2
  <2>4. \A b \in 1..n : items[s][b].kind = said[s][b].kind
    BY <2>2 DEF Paired
  <2> QED
    BY <2>3, <2>4
<1>2. n \in R!OfKind(s, said[s][n].kind)
  BY <1>1 DEF R!OfKind
<1>3. i # 0 /\ i \in 1..n
  BY <1>1
<1>4. n <= i
  BY <1>2, <1>3 DEF R!IsLast
<1> QED
  BY <1>1, <1>3, <1>4

\* response.output_item.added
LEMMA RItemAdded ==
  ASSUME ~Interleaved, RInv, UNCHANGED shared, NEW s \in Stream, NEW k \in IS!Kind, R!ItemAdded(s, k)
  PROVE  RInv' /\ IS!Next
<1>1. /\ pc[s] = "reading" /\ \A b \in DOMAIN said[s] : said[s][b].closed
      /\ said' = [said EXCEPT ![s] = Append(said[s], IS!Block(k))]
      /\ items' = [items EXCEPT ![s] = Append(items[s], IS!Item(k))]
      /\ pc' = [pc EXCEPT ![s] = "emitting"] /\ UNCHANGED rheld
  BY DEF R!ItemAdded, R!OpenBlocks, R!Says, R!NewItem, R!Goto, R!IS!Block, R!IS!Item, IS!Block, IS!Item
<1>2. OneByOne' /\ IS!Next
  BY <1>1, Opens DEF RInv
<1>3. s \in Active /\ \A t \in Stream \ {s} : said'[t] = said[t]
  BY <1>1 DEF RInv, OneByOne, BaseType, Active
<1> QED
  BY <1>1, <1>2, <1>3, RMoves DEF RInv, Where

\* The deltas, and the arguments of a call, which come at once.
LEMMA RItemDelta ==
  ASSUME RInv, UNCHANGED shared, NEW s \in Stream, NEW b \in DOMAIN said[s], R!ItemDelta(s, b)
  PROVE  RInv' /\ IS!Next
<1> DEFINE n == Len(said[s])
<1>1. s \in Active /\ OneByOne /\ s \notin shared /\ pc[s] = "reading"
  BY DEF R!ItemDelta, RInv, Active
<1>2. ~said[s][b].closed /\ said' = [said EXCEPT ![s][b].deltas = @ + 1] /\ UNCHANGED rheld
  BY DEF R!ItemDelta, R!SaysMore
<1>3. b = n /\ n \in DOMAIN said[s] /\ ~said[s][n].closed
  BY <1>1, <1>2, Last
<1>4. PICK i \in 1..Len(items[s]) :
        /\ R!IsLast(s, said[s][n].kind, i)
        /\ \/ R!Absorb(<<s, i>>, <<s, n>>) /\ R!Goto(s, "emitting")
           \/ /\ said[s][n].deltas = 0 /\ items' = [items EXCEPT ![s][i].content = <<<<s, n>>>>]
              /\ UNCHANGED pc
  BY <1>3 DEF R!ItemDelta
<1>5. i = n
  BY <1>1, <1>3, <1>4, LastOfKind
<1>6. items' = [items EXCEPT ![s][n].content = Append(@, <<s, n>>)]
  <2>1. CASE R!Absorb(<<s, n>>, <<s, n>>)
    BY <2>1 DEF R!Absorb
  <2>2. CASE said[s][n].deltas = 0 /\ items' = [items EXCEPT ![s][n].content = <<<<s, n>>>>]
    <3>1. items[s][n].content = <<>>
      BY <1>1, <1>3, <2>2, Last DEF Reads
    <3>2. Append(items[s][n].content, <<s, n>>) = <<<<s, n>>>>
      BY <3>1
    <3> QED
      BY <2>2, <3>2
  <2> QED
    BY <1>4, <1>5, <2>1, <2>2
<1>7. PICK w \in {"reading", "emitting"} : pc' = [pc EXCEPT ![s] = w]
  <2>1. UNCHANGED pc => pc' = [pc EXCEPT ![s] = "reading"]
    BY <1>1 DEF OneByOne, BaseType
  <2> QED
    BY <1>4, <2>1 DEF R!Goto
<1>8. said' = [said EXCEPT ![s][n].deltas = @ + 1]
  BY <1>2, <1>3
<1>9. OneByOne' /\ IS!Next
  BY <1>1, <1>3, <1>6, <1>7, <1>8, Extends
<1>10. \A t \in Stream \ {s} : said'[t] = said[t]
  BY <1>1, <1>8 DEF OneByOne, BaseType
<1> QED
  BY <1>1, <1>2, <1>7, <1>9, <1>10, RMoves DEF RInv, Where

\* response.output_item.done, up to its update
LEMMA RItemDone ==
  ASSUME RInv, UNCHANGED shared, NEW s \in Stream, NEW b \in DOMAIN said[s], R!ItemDone(s, b)
  PROVE  RInv' /\ IS!Next
<1> DEFINE n == Len(said[s])
<1>1. s \in Active /\ OneByOne /\ s \notin shared /\ pc[s] = "reading"
  BY DEF R!ItemDone, RInv, Active
<1>2. ~said[s][b].closed /\ said' = [said EXCEPT ![s][b].closed = TRUE]
  BY DEF R!ItemDone, R!Closes
<1>3. b = n /\ n \in DOMAIN said[s] /\ ~said[s][n].closed
  BY <1>1, <1>2, Last
<1>4. PICK i \in 1..Len(items[s]) :
        /\ R!IsLast(s, said[s][n].kind, i)
        /\ \E how \in IS!Outcome : R!End(<<s, i>>, how)
        /\ rheld' = [rheld EXCEPT ![s] = <<s, i>>]
  BY <1>3 DEF R!ItemDone, R!IS!Outcome, IS!Outcome
<1>9. PICK how \in IS!Outcome : R!End(<<s, i>>, how)
  BY <1>4
<1>5. i = n
  BY <1>1, <1>3, <1>4, LastOfKind
<1>6. /\ items' = [items EXCEPT ![s][n].status = how]
      /\ said' = [said EXCEPT ![s][n].closed = TRUE]
      /\ pc' = [pc EXCEPT ![s] = "closing"]
  BY <1>2, <1>3, <1>5, <1>9 DEF R!ItemDone, R!End, R!Goto
<1>7. OneByOne' /\ IS!Next /\ Len(said'[s]) = n
  BY <1>1, <1>3, <1>6, ClosesLast
<1>8. /\ rheld' \in [Stream -> Ref] /\ rheld'[s] = <<s, n>>
      /\ \A t \in Stream \ {s} : rheld'[t] = rheld[t] /\ said'[t] = said[t]
  BY <1>1, <1>4, <1>5, <1>6, Last DEF RInv, Ref, OneByOne, BaseType
<1> QED
  BY <1>1, <1>6, <1>7, <1>8, RMoves DEF Where

\* The rest of response.output_item.done
LEMMA RLaunchItem ==
  ASSUME RInv, UNCHANGED shared, NEW s \in Stream, R!LaunchItem(s)
  PROVE  RInv' /\ IS!Next
<1> DEFINE n == Len(said[s])
<1>1. s \in Active /\ OneByOne /\ s \notin shared /\ pc[s] = "closing" /\ rheld[s] = <<s, n>>
  BY DEF R!LaunchItem, RInv, Active
<1>2. R!Run(<<s, n>>, s) /\ R!At(<<s, n>>).kind = "function_call"
  BY <1>1 DEF R!LaunchItem
<1>3. /\ items' = [items EXCEPT ![s][n].runs = Append(@, s)] /\ items[s][n].kind = "function_call"
      /\ pc' = [pc EXCEPT ![s] = "emitting"] /\ UNCHANGED <<said, rheld>>
  BY <1>2 DEF R!LaunchItem, R!Run, R!At, R!Goto
<1>4. OneByOne' /\ IS!Next
  BY <1>1, <1>3, RunsLast
<1> QED
  BY <1>1, <1>3, <1>4, RMoves DEF RInv, Where

LEMMA REmitted ==
  ASSUME RInv, UNCHANGED shared, NEW s \in Stream, R!Emitted(s)
  PROVE  RInv' /\ UNCHANGED IS!vars
<1>1. /\ pc[s] \in {"closing", "emitting"} /\ pc' = [pc EXCEPT ![s] = "reading"]
      /\ UNCHANGED <<said, items, rheld>>
      /\ pc[s] = "closing" => items[rheld[s][1]][rheld[s][2]].kind # "function_call"
  BY DEF R!Emitted, R!Goto, R!At
<1>2. s \in Active /\ OneByOne /\ s \notin shared
  BY <1>1 DEF RInv, Active
<1>3. pc[s] = "closing" => items[s][Len(said[s])].kind # "function_call"
  BY <1>1, <1>2 DEF RInv
<1>4. OneByOne' /\ phase' = phase
  BY <1>1, <1>2, <1>3, Resumes
<1>5. RInv'
  BY <1>1, <1>2, <1>4, RMoves DEF RInv, Where
<1> QED
  BY <1>1, <1>4, <1>5 DEF IS!vars

LEMMA RStops ==
  ASSUME RInv, UNCHANGED shared, NEW s \in Stream, R!Finish(s) \/ R!Cut(s)
  PROVE  RInv' /\ IS!Next
<1>1. PICK w \in {"done", "cut"} :
        /\ pc' = [pc EXCEPT ![s] = w]
        /\ w = "done" => pc[s] = "reading" /\ \A b \in DOMAIN said[s] : said[s][b].closed
  BY DEF R!Finish, R!Cut, R!Goto, R!OpenBlocks
<1>2. s \in Active /\ OneByOne /\ s \notin shared /\ UNCHANGED <<said, items, rheld>>
  BY SameNames DEF R!Finish, R!Cut, RInv, Active
<1>3. OneByOne' /\ IS!Next
  BY <1>1, <1>2, Stops
<1> QED
  BY <1>1, <1>2, <1>3, RMoves DEF RInv, Where

LEMMA RStep ==
  ASSUME ~Interleaved, ~Misfires, RInv, UNCHANGED shared, R!Next PROVE RInv' /\ [IS!Next]_(IS!vars)
<1>1. PICK s \in Stream :
        \/ R!Begin(s) \/ R!Misfire(s) \/ R!LaunchItem(s) \/ R!Emitted(s) \/ R!Finish(s) \/ R!Cut(s)
        \/ \E k \in R!IS!Kind : R!ItemAdded(s, k)
        \/ \E b \in DOMAIN said[s] : R!ItemDelta(s, b) \/ R!ItemDone(s, b)
  BY DEF R!Next
<1>2. R!IS!Kind = IS!Kind /\ ~R!Misfire(s)
  BY DEF R!IS!Kind, IS!Kind, R!Misfire
<1> QED
  BY <1>1, <1>2, RBegin, RItemAdded, RItemDelta, RItemDone, RLaunchItem, REmitted, RStops

LEMMA RStutter == RInv /\ UNCHANGED vars => RInv' /\ UNCHANGED IS!vars
<1> SUFFICES ASSUME RInv, UNCHANGED vars PROVE RInv' /\ UNCHANGED IS!vars
  OBVIOUS
<1>1. UNCHANGED <<shared, said, items, pc, rheld>>
  BY DEF vars, rvars, base
<1>2. Active' = Active /\ phase' = phase
  BY <1>1 DEF Active, phase
<1>3. \A s \in Stream : Paired(s)' = Paired(s) /\ Reads(s)' = Reads(s)
  BY <1>1 DEF Paired, Reads, Whole
<1>4. Active \subseteq Stream
  BY DEF Active
<1>5. OneByOne'
  BY <1>1, <1>2, <1>3, <1>4 DEF RInv, OneByOne, BaseType
<1> QED
  BY <1>1, <1>2, <1>5 DEF RInv, IS!vars

\* V1Response keeps the contract of ItemStream, with any number of responses side
\* by side, as long as each sends its blocks one after the other and no text delta
\* misfires (handle_event(), v1response.py).
THEOREM ResponsesKeepTheContract ==
  ASSUME ~Interleaved, ~Misfires PROVE Spec => ResponseMirrors
<1> DEFINE Inv == adapter = "response" => RInv
           A == adapter = "response" => [IS!Next]_(IS!vars)
<1>1. Init => Inv
  BY RInit
<1>2. Inv /\ [Next]_vars => Inv' /\ A
  <2> SUFFICES ASSUME Inv, [Next]_vars, adapter = "response" \/ adapter' = "response"
               PROVE  RInv' /\ [IS!Next]_(IS!vars)
    OBVIOUS
  <2>1. adapter = "response" /\ RInv
    BY DEF Next, vars
  <2> QED
    BY <2>1, RStep, RStutter DEF Next
<1>3. Spec => [][A]_vars
  <2> HIDE DEF Inv, A
  <2> QED
    BY <1>1, <1>2, PTL DEF Spec
<1> QED
  BY <1>3 DEF ResponseMirrors

\* So under the same conditions the Responses adapter, which keeps no state of its
\* own (get_last_item(), datamodel.py), mirrors responses that are read side by side.
THEOREM ResponsesDoNotCross ==
  ASSUME ~Interleaved, ~Misfires
  PROVE  Spec => [](adapter = "response" => IS!ItemsMirrorBlocks /\ NoCrossTalk)
<1> DEFINE Inv == adapter = "response" => RInv /\ IS!ItemsMirrorBlocks
           P == adapter = "response" => IS!ItemsMirrorBlocks /\ NoCrossTalk
<1>1. Init => Inv
  BY RInit, MirrorsBegin DEF Init, R!Init, R!BaseInit, BaseInit
<1>2. Inv /\ [Next]_vars => Inv'
  <2> SUFFICES ASSUME Inv, [Next]_vars, adapter' = "response" PROVE RInv' /\ IS!ItemsMirrorBlocks'
    OBVIOUS
  <2>1. adapter = "response" /\ RInv /\ IS!ItemsMirrorBlocks
    BY DEF Next, vars
  <2>2. RInv' /\ [IS!Next]_(IS!vars)
    BY <2>1, RStep, RStutter DEF Next
  <2>3. BaseType
    BY <2>1 DEF RInv, OneByOne
  <2> QED
    BY <2>1, <2>2, <2>3, KeepsMirrors
<1>3. Inv => P
  BY MirrorsDoNotCross
<1> QED
  <2> HIDE DEF Inv
  <2>1. Spec => []Inv
    BY <1>1, <1>2, PTL DEF Spec
  <2> QED
    BY <2>1, <1>3, PTL

-----------------------------------------------------------------------------
\* V1Response, whatever the model sends: an item belongs to the response of its
\* exchange, because it is looked up there.

Owned(s) ==
  \A i \in DOMAIN items[s] :
    /\ \A f \in DOMAIN items[s][i].content : items[s][i].content[f][1] = s
    /\ \A r \in DOMAIN items[s][i].runs : items[s][i].runs[r] = s

XInv ==
  /\ BaseType
  /\ \A s \in Stream : Owned(s)
  /\ \A s \in Stream : pc[s] = "closing" => rheld[s] \in {<<s, i>> : i \in DOMAIN items[s]}
  /\ rheld \in [Stream -> Ref]

LEMMA XInit == Init => XInv
<1> SUFFICES ASSUME Init PROVE XInv
  OBVIOUS
<1>1. said = [s \in Stream |-> <<>>] /\ items = [s \in Stream |-> <<>>] /\ pc = [s \in Stream |-> "idle"]
  BY DEF Init, R!Init, R!BaseInit
<1>2. BaseType
  BY <1>1 DEF BaseType, Where
<1>3. rheld \in [Stream -> Ref]
  BY DEF Init, R!Init, R!None, Ref
<1> QED
  BY <1>1, <1>2, <1>3 DEF XInv, Owned

\* Items, and what becomes of one.
LEMMA ItemIs ==
  ASSUME BaseType, NEW s \in Stream, NEW i \in DOMAIN items[s]
  PROVE  items[s][i] \in ItemType
<1>1. items[s] \in Seq(ItemType)
  BY DEF BaseType
<1> QED
  BY <1>1

LEMMA Appended ==
  ASSUME NEW T, NEW q \in Seq(T), NEW e \in T, NEW c, c = Append(q, e)
  PROVE  c \in Seq(T) /\ \A f \in DOMAIN c : c[f] = e \/ (f \in DOMAIN q /\ c[f] = q[f])
BY AppendProperties

LEMMA ItemRuns ==
  ASSUME NEW old \in ItemType, NEW s \in Stream, \A r \in DOMAIN old.runs : old.runs[r] = s,
         NEW x, x = [old EXCEPT !.runs = Append(old.runs, s)]
  PROVE  x \in ItemType /\ x.content = old.content /\ \A r \in DOMAIN x.runs : x.runs[r] = s
<1>1. old.runs \in Seq(Stream)
  BY DEF ItemType
<1> DEFINE c == Append(old.runs, s)
<1>2. c \in Seq(Stream) /\ \A r \in DOMAIN c : c[r] = s
  BY <1>1
<1> HIDE DEF c
<1>3. x = [old EXCEPT !.runs = c]
  BY DEF c
<1> QED
  BY <1>2, <1>3 DEF ItemType

\* A step of one response that leaves its items alone.
LEMMA XMoves ==
  ASSUME XInv, NEW s \in Stream, NEW w \in Where \ {"closing"}, pc' = [pc EXCEPT ![s] = w],
         UNCHANGED <<items, rheld>>, said' \in [Stream -> Seq(BlockType)]
  PROVE  XInv'
<1>1. \A t \in Stream : Owned(t)'
  BY DEF XInv, Owned
<1>2. pc' \in [Stream -> Where] /\ \A t \in Stream : pc'[t] = "closing" => pc[t] = "closing"
  BY DEF XInv, BaseType
<1> QED
  BY <1>1, <1>2 DEF XInv, BaseType

\* A step of one response that replaces an item of it by one it owns.
LEMMA XReplaces ==
  ASSUME XInv, NEW s \in Stream, NEW i \in DOMAIN items[s], NEW x \in ItemType,
         \A f \in DOMAIN x.content : x.content[f][1] = s,
         \A r \in DOMAIN x.runs : x.runs[r] = s,
         items' = [items EXCEPT ![s] = [items[s] EXCEPT ![i] = x]],
         said' \in [Stream -> Seq(BlockType)],
         NEW w \in Where, pc' = [pc EXCEPT ![s] = w] \/ (w = pc[s] /\ UNCHANGED pc),
         \/ UNCHANGED rheld /\ w # "closing"
         \/ rheld' = [rheld EXCEPT ![s] = <<s, i>>]
  PROVE  XInv'
<1>1. items \in [Stream -> Seq(ItemType)]
  BY DEF XInv, BaseType
<1>2. /\ items' \in [Stream -> Seq(ItemType)]
      /\ \A t \in Stream \ {s} : items'[t] = items[t]
      /\ DOMAIN items'[s] = DOMAIN items[s]
      /\ \A j \in DOMAIN items[s] \ {i} : items'[s][j] = items[s][j]
      /\ items'[s][i] = x
  BY <1>1, Replaced
<1>3. \A t \in Stream : Owned(t)'
  BY <1>2 DEF XInv, Owned
<1>4. pc' \in [Stream -> Where] /\ \A t \in Stream \ {s} : pc'[t] = pc[t]
  BY DEF XInv, BaseType
<1>5. pc'[s] = w
  BY DEF XInv, BaseType
<1>6. <<s, i>> \in Ref
  BY <1>1 DEF Ref
<1>7. rheld' \in [Stream -> Ref]
  BY <1>6 DEF XInv
<1>8. \A t \in Stream : pc'[t] = "closing" => rheld'[t] \in {<<t, j>> : j \in DOMAIN items'[t]}
  <2>1. CASE UNCHANGED rheld /\ w # "closing"
    BY <1>2, <1>4, <1>5, <2>1 DEF XInv
  <2>2. CASE rheld' = [rheld EXCEPT ![s] = <<s, i>>]
    BY <1>2, <1>4, <2>2 DEF XInv
  <2> QED
    BY <2>1, <2>2
<1> QED
  BY <1>2, <1>3, <1>4, <1>7, <1>8 DEF XInv, BaseType


\* What the model sends is a sequence of blocks.
LEMMA XSays ==
  ASSUME BaseType, NEW s \in Stream,
         \/ \E k \in IS!Kind : R!Says(s, k)
         \/ \E b \in DOMAIN said[s] : R!SaysMore(s, b) \/ R!Closes(s, b)
  PROVE  said' \in [Stream -> Seq(BlockType)]
<1>1. CASE \E k \in IS!Kind : R!Says(s, k)
  <2>1. PICK k \in IS!Kind : R!Says(s, k)
    BY <1>1
  <2>2. R!IS!Block(k) \in BlockType
    BY DEF R!IS!Block, BlockType
  <2>3. said' = [said EXCEPT ![s] = Append(said[s], R!IS!Block(k))]
    BY <2>1 DEF R!Says
  <2> QED
    BY <2>2, <2>3, Longer DEF BaseType
<1>2. CASE \E b \in DOMAIN said[s] : R!SaysMore(s, b) \/ R!Closes(s, b)
  <2>1. PICK b \in DOMAIN said[s] : R!SaysMore(s, b) \/ R!Closes(s, b)
    BY <1>2
  <2> DEFINE more == [said[s][b] EXCEPT !.deltas = said[s][b].deltas + 1]
             closed == [said[s][b] EXCEPT !.closed = TRUE]
  <2>2. said \in [Stream -> Seq(BlockType)] /\ said[s] \in Seq(BlockType)
    BY DEF BaseType
  <2>3. more \in BlockType /\ closed \in BlockType
    <3>1. said[s][b] \in BlockType
      BY <2>2
    <3>2. said[s][b].deltas + 1 \in Nat
      BY <3>1 DEF BlockType
    <3> QED
      BY <3>1, <3>2 DEF BlockType
  <2>4. \/ said' = [said EXCEPT ![s] = [said[s] EXCEPT ![b] = more]]
        \/ said' = [said EXCEPT ![s] = [said[s] EXCEPT ![b] = closed]]
    BY <2>1 DEF R!SaysMore, R!Closes
  <2> HIDE DEF more, closed
  <2> QED
    <3>1. CASE said' = [said EXCEPT ![s] = [said[s] EXCEPT ![b] = more]]
      BY <2>2, <2>3, <3>1, Replaced
    <3>2. CASE said' = [said EXCEPT ![s] = [said[s] EXCEPT ![b] = closed]]
      BY <2>2, <2>3, <3>2, Replaced
    <3> QED
      BY <2>4, <3>1, <3>2
<1> QED
  BY <1>1, <1>2

LEMMA XAdded ==
  ASSUME XInv, NEW s \in Stream, NEW k \in IS!Kind, R!ItemAdded(s, k) PROVE XInv'
<1> DEFINE new == R!IS!Item(k)
<1>1. items \in [Stream -> Seq(ItemType)] /\ pc \in [Stream -> Where]
  BY DEF XInv, BaseType
<1>2. new \in ItemType /\ new.content = <<>> /\ new.runs = <<>>
  BY DEF R!IS!Item, ItemType
<1>3. items' = [items EXCEPT ![s] = Append(items[s], new)] /\ UNCHANGED rheld
  BY DEF R!ItemAdded, R!NewItem
<1>4. pc' = [pc EXCEPT ![s] = "emitting"]
  BY DEF R!ItemAdded, R!Goto
<1>5. said' \in [Stream -> Seq(BlockType)]
  BY XSays DEF R!ItemAdded, XInv
<1> HIDE DEF new
<1>6. /\ items' \in [Stream -> Seq(ItemType)]
      /\ \A t \in Stream \ {s} : items'[t] = items[t]
      /\ Len(items[s]) \in Nat
      /\ DOMAIN items[s] = 1..Len(items[s]) /\ DOMAIN items'[s] = 1..(Len(items[s]) + 1)
      /\ \A i \in DOMAIN items[s] : items'[s][i] = items[s][i]
      /\ items'[s][Len(items[s]) + 1] = new
  BY <1>1, <1>2, <1>3, Longer
<1>7. Owned(s)'
  <2>1. ASSUME NEW i \in DOMAIN items'[s]
        PROVE  /\ \A f \in DOMAIN items'[s][i].content : items'[s][i].content[f][1] = s
               /\ \A r \in DOMAIN items'[s][i].runs : items'[s][i].runs[r] = s
    <3>1. i \in DOMAIN items[s] \/ items'[s][i] = new
      BY <1>6
    <3> QED
      BY <1>2, <1>6, <3>1 DEF XInv, Owned
  <2> QED
    BY <2>1 DEF Owned
<1>8. \A t \in Stream : Owned(t)'
  <2>1. ASSUME NEW t \in Stream \ {s} PROVE Owned(t)'
    BY <1>6 DEF XInv, Owned
  <2> QED
    BY <1>7, <2>1
<1>9. /\ pc' \in [Stream -> Where]
      /\ \A t \in Stream : pc'[t] = "closing" => t # s /\ pc[t] = "closing"
  BY <1>1, <1>4 DEF Where
<1>10. \A t \in Stream : pc'[t] = "closing" => rheld'[t] \in {<<t, j>> : j \in DOMAIN items'[t]}
  BY <1>3, <1>6, <1>9 DEF XInv
<1> QED
  BY <1>3, <1>5, <1>6, <1>8, <1>9, <1>10 DEF XInv, BaseType

\* A fragment of s, of a block or of none, is absorbed by an item of s.
LEMMA XAbsorbs ==
  ASSUME XInv, NEW s \in Stream, NEW i \in DOMAIN items[s], NEW n \in Nat,
         R!Absorb(<<s, i>>, <<s, n>>), R!Goto(s, "emitting"), UNCHANGED rheld,
         said' \in [Stream -> Seq(BlockType)]
  PROVE  XInv'
<1> DEFINE old == items[s][i]
           e == <<s, n>>
           c == Append(old.content, e)
           x == [old EXCEPT !.content = c]
<1>1. old \in ItemType /\ Owned(s)
  BY ItemIs DEF XInv
<1>2. \A f \in DOMAIN old.content : old.content[f][1] = s
  BY <1>1 DEF Owned
<1>3. \A r \in DOMAIN old.runs : old.runs[r] = s
  BY <1>1 DEF Owned
<1>4. x \in ItemType /\ x.runs = old.runs /\ \A f \in DOMAIN x.content : x.content[f][1] = s
  <2>1. old.content \in Seq(Stream \X Nat)
    BY <1>1 DEF ItemType
  <2>2. e \in Stream \X Nat /\ e[1] = s
    OBVIOUS
  <2> HIDE DEF old, e
  <2>3. c \in Seq(Stream \X Nat) /\ \A f \in DOMAIN c : c[f] = e \/ (f \in DOMAIN old.content /\ c[f] = old.content[f])
    BY <2>1, <2>2, Appended
  <2>4. \A f \in DOMAIN c : c[f][1] = s
    BY <1>2, <2>2, <2>3
  <2> HIDE DEF c
  <2>5. x \in ItemType /\ x.runs = old.runs /\ x.content = c
    BY <1>1, <2>3 DEF ItemType
  <2> QED
    BY <2>4, <2>5
<1>5. \A r \in DOMAIN x.runs : x.runs[r] = s
  BY <1>3, <1>4, Zenon
<1>6. items' = [items EXCEPT ![s] = [items[s] EXCEPT ![i] = x]]
  BY DEF R!Absorb
<1>7. pc' = [pc EXCEPT ![s] = "emitting"] /\ "emitting" \in Where
  BY DEF R!Goto, Where
<1> HIDE DEF x
<1> QED
  BY <1>4, <1>5, <1>6, <1>7, XReplaces

LEMMA XDelta ==
  ASSUME XInv, NEW s \in Stream, NEW b \in DOMAIN said[s], R!ItemDelta(s, b) PROVE XInv'
<1>1. said' \in [Stream -> Seq(BlockType)]
  BY XSays DEF R!ItemDelta, XInv
<1>2. b \in Nat /\ UNCHANGED rheld /\ pc[s] = "reading"
  BY DEF R!ItemDelta, XInv, BaseType
<1>3. PICK i \in 1..Len(items[s]) :
        \/ R!Absorb(<<s, i>>, <<s, b>>) /\ R!Goto(s, "emitting")
        \/ items' = [items EXCEPT ![s][i].content = <<<<s, b>>>>] /\ UNCHANGED pc
  BY DEF R!ItemDelta
<1>4. i \in DOMAIN items[s] /\ items[s][i] \in ItemType /\ pc[s] \in Where
  <2>1. items[s] \in Seq(ItemType) /\ pc[s] \in Where
    BY DEF XInv, BaseType
  <2> QED
    BY <2>1
<1>5. CASE R!Absorb(<<s, i>>, <<s, b>>) /\ R!Goto(s, "emitting")
  BY <1>1, <1>2, <1>4, <1>5, XAbsorbs
<1>6. CASE items' = [items EXCEPT ![s][i].content = <<<<s, b>>>>] /\ UNCHANGED pc
  <2> DEFINE x == [items[s][i] EXCEPT !.content = <<<<s, b>>>>]
  <2>1. <<<<s, b>>>> \in Seq(Stream \X Nat)
    BY <1>2
  <2>2. x \in ItemType /\ x.content = <<<<s, b>>>> /\ x.runs = items[s][i].runs
    BY <1>4, <2>1 DEF ItemType
  <2>3. \A f \in DOMAIN x.content : x.content[f][1] = s
    BY <2>2
  <2>4. \A r \in DOMAIN x.runs : x.runs[r] = s
    BY <1>4, <2>2 DEF XInv, Owned
  <2>5. items' = [items EXCEPT ![s] = [items[s] EXCEPT ![i] = x]]
    BY <1>6
  <2> HIDE DEF x
  <2> QED
    <3>1. pc[s] = "reading" /\ "reading" \in Where /\ UNCHANGED <<pc, rheld>>
      BY <1>2, <1>6 DEF Where
    <3> QED
      BY <1>1, <1>4, <2>2, <2>3, <2>4, <2>5, <3>1, XReplaces
<1> QED
  BY <1>3, <1>5, <1>6

LEMMA XMisfire == ASSUME XInv, NEW s \in Stream, R!Misfire(s) PROVE XInv'
<1>1. PICK i \in 0..Len(items[s]) :
        \/ UNCHANGED items
        \/ i > 0 /\ R!Absorb(<<s, i>>, <<s, 0>>)
  BY DEF R!Misfire
<1>2. UNCHANGED <<said, rheld>> /\ R!Goto(s, "emitting") /\ said \in [Stream -> Seq(BlockType)]
  BY DEF R!Misfire, XInv, BaseType
<1>3. CASE UNCHANGED items
  BY <1>2, <1>3, XMoves DEF R!Goto, Where
<1>4. CASE i > 0 /\ R!Absorb(<<s, i>>, <<s, 0>>)
  <2>1. i \in DOMAIN items[s]
    BY <1>4 DEF XInv, BaseType
  <2> QED
    BY <1>2, <1>4, <2>1, XAbsorbs
<1> QED
  BY <1>1, <1>3, <1>4

LEMMA XDone ==
  ASSUME XInv, NEW s \in Stream, NEW b \in DOMAIN said[s], R!ItemDone(s, b) PROVE XInv'
<1>1. said' \in [Stream -> Seq(BlockType)]
  BY XSays DEF R!ItemDone, XInv
<1>2. PICK i \in 1..Len(items[s]), how \in IS!Outcome :
         R!End(<<s, i>>, how) /\ rheld' = [rheld EXCEPT ![s] = <<s, i>>]
  BY DEF R!ItemDone, R!IS!Outcome, IS!Outcome
<1>3. i \in DOMAIN items[s] /\ items[s][i] \in ItemType
  BY DEF XInv, BaseType
<1> DEFINE x == [items[s][i] EXCEPT !.status = how]
<1>4. x \in ItemType /\ x.content = items[s][i].content /\ x.runs = items[s][i].runs
  BY <1>3 DEF ItemType, IS!Outcome
<1>5. items' = [items EXCEPT ![s] = [items[s] EXCEPT ![i] = x]]
  BY <1>2 DEF R!End
<1>6. pc' = [pc EXCEPT ![s] = "closing"] /\ "closing" \in Where
  BY DEF R!ItemDone, R!Goto, Where
<1> HIDE DEF x
<1>7. /\ \A f \in DOMAIN x.content : x.content[f][1] = s
      /\ \A r \in DOMAIN x.runs : x.runs[r] = s
  BY <1>3, <1>4 DEF XInv, Owned
<1> QED
  BY <1>1, <1>2, <1>3, <1>4, <1>5, <1>6, <1>7, XReplaces

LEMMA XLaunch == ASSUME XInv, NEW s \in Stream, R!LaunchItem(s) PROVE XInv'
<1>1. PICK i \in DOMAIN items[s] : rheld[s] = <<s, i>>
  BY DEF R!LaunchItem, XInv
<1>2. items[s][i] \in ItemType /\ Owned(s)
  BY ItemIs DEF XInv
<1> DEFINE x == [items[s][i] EXCEPT !.runs = Append(items[s][i].runs, s)]
<1>3. \A r \in DOMAIN items[s][i].runs : items[s][i].runs[r] = s
  BY <1>2 DEF Owned
<1>4. x \in ItemType /\ x.content = items[s][i].content /\ \A r \in DOMAIN x.runs : x.runs[r] = s
  <2>1. x = [items[s][i] EXCEPT !.runs = Append(items[s][i].runs, s)]
    OBVIOUS
  <2> HIDE DEF x
  <2> QED
    BY <1>2, <1>3, <2>1, ItemRuns
<1>5. items' = [items EXCEPT ![s] = [items[s] EXCEPT ![i] = x]]
  BY <1>1 DEF R!LaunchItem, R!Run
<1>6. pc' = [pc EXCEPT ![s] = "emitting"] /\ "emitting" \in Where /\ UNCHANGED <<said, rheld>>
  BY DEF R!LaunchItem, R!Goto, Where
<1> HIDE DEF x
<1>7. \A f \in DOMAIN x.content : x.content[f][1] = s
  BY <1>2, <1>4 DEF Owned
<1>8. said' \in [Stream -> Seq(BlockType)]
  BY <1>6 DEF XInv, BaseType
<1> QED
  BY <1>4, <1>5, <1>6, <1>7, <1>8, XReplaces

LEMMA XStep == XInv /\ R!Next => XInv'
<1> SUFFICES ASSUME XInv, R!Next PROVE XInv'
  OBVIOUS
<1>1. PICK s \in Stream :
        \/ R!Begin(s) \/ R!Misfire(s) \/ R!LaunchItem(s) \/ R!Emitted(s) \/ R!Finish(s) \/ R!Cut(s)
        \/ \E k \in R!IS!Kind : R!ItemAdded(s, k)
        \/ \E b \in DOMAIN said[s] : R!ItemDelta(s, b) \/ R!ItemDone(s, b)
  BY DEF R!Next
<1>2. CASE R!Begin(s) \/ R!Emitted(s) \/ R!Finish(s) \/ R!Cut(s)
  <2>1. \E w \in {"reading", "done", "cut"} : pc' = [pc EXCEPT ![s] = w]
    BY <1>2 DEF R!Begin, R!Emitted, R!Finish, R!Cut, R!Goto
  <2>2. UNCHANGED <<items, rheld>> /\ said' \in [Stream -> Seq(BlockType)]
    BY <1>2 DEF R!Begin, R!Emitted, R!Finish, R!Cut, XInv, BaseType
  <2> QED
    BY <2>1, <2>2, XMoves DEF Where
<1>3. R!IS!Kind = IS!Kind
  BY DEF R!IS!Kind, IS!Kind
<1> QED
  BY <1>1, <1>2, <1>3, XMisfire, XLaunch, XAdded, XDelta, XDone

\* Whatever the model sends, several blocks at a time and deltas for none of them,
\* and however the responses interleave: the Responses adapter writes a response
\* into its own exchange only, and only its own task launches its calls. What two
\* open calls of one response may do to each other is another matter.
THEOREM ResponsesNeverCross ==
  Spec => [](adapter = "response" =>
               /\ NoCrossTalk
               /\ \A s \in Stream : \A i \in DOMAIN items[s] :
                    \A r \in DOMAIN items[s][i].runs : items[s][i].runs[r] = s)
<1> DEFINE P == adapter = "response" =>
                  /\ NoCrossTalk
                  /\ \A s \in Stream : \A i \in DOMAIN items[s] :
                       \A r \in DOMAIN items[s][i].runs : items[s][i].runs[r] = s
           Inv == adapter = "response" => XInv
<1>1. Init => Inv
  BY XInit
<1>2. Inv /\ [Next]_vars => Inv'
  <2> SUFFICES ASSUME Inv, [Next]_vars, adapter' = "response" PROVE XInv'
    OBVIOUS
  <2>1. adapter = "response" /\ XInv
    BY DEF Next, vars
  <2>2. CASE UNCHANGED vars
    BY <2>1, <2>2 DEF vars, base, rvars, XInv, BaseType, Owned
  <2> QED
    BY <2>1, <2>2, XStep DEF Next
<1>3. Inv => P
  BY DEF XInv, Owned, NoCrossTalk
<1> QED
  <2> HIDE DEF Inv, P
  <2>1. Spec => []Inv
    BY <1>1, <1>2, PTL DEF Spec
  <2>2. Spec => []P
    BY <2>1, <1>3, PTL
  <2> QED
    BY <2>2 DEF P

-----------------------------------------------------------------------------
\* Induction over a set: the library's theorem takes an operator, its facts
\* about well-founded relations do not.
LEMMA SetInduction ==
  ASSUME NEW S, 0 \in S, \A n \in Nat : n \in S => n + 1 \in S
  PROVE  Nat \subseteq S
<1> SUFFICES ASSUME Nat \ S # {} PROVE FALSE
  OBVIOUS
<1> DEFINE Less == OpToRel(<, Nat)
<1>1. \E x \in Nat \ S : \A y \in Nat \ S : ~ (<<y, x>> \in Less)
  <2>1. IsWellFoundedOn(Less, Nat)
    BY NatLessThanWellFounded, Zenon
  <2>2. Nat \ S \subseteq Nat
    OBVIOUS
  <2> QED
    <3> HIDE DEF Less
    <3> QED
      BY <2>1, <2>2, WFMin
<1>2. Less = {ss \in Nat \X Nat : ss[1] < ss[2]}
  BY Zenon DEF OpToRel
<1>3. PICK x \in Nat \ S : \A y \in Nat \ S : ~ (y < x)
  <2> HIDE DEF Less
  <2> QED
    BY <1>1, <1>2
<1>4. x # 0 /\ x - 1 \in Nat
  BY <1>3
<1>5. x - 1 \in S
  BY <1>3, <1>4
<1> QED
  BY <1>3, <1>4, <1>5

-----------------------------------------------------------------------------
\* FlattenSeq chooses a function defined from itself, which exists.
IsFlattening(g, ss, n) == g = [i \in 1..n |-> IF i = 1 THEN ss[i] ELSE g[i - 1] \o ss[i]]

LEMMA FlatteningExists ==
  ASSUME NEW ss, NEW n \in Nat PROVE \E g : IsFlattening(g, ss, n)
<1> DEFINE S == {m \in Nat : \E g : IsFlattening(g, ss, m)}
<1>1. 0 \in S
  <2>1. IsFlattening(<<>>, ss, 0)
    BY DEF IsFlattening
  <2> QED
    BY <2>1
<1>2. ASSUME NEW m \in Nat, m \in S PROVE m + 1 \in S
  <2>1. PICK g : IsFlattening(g, ss, m)
    BY <1>2
  <2> DEFINE step == IF m = 0 THEN ss[1] ELSE g[m] \o ss[m + 1]
             h == [i \in 1..(m + 1) |-> IF i <= m THEN g[i] ELSE step]
  <2>2. ASSUME NEW i \in 1..(m + 1)
        PROVE  h[i] = IF i = 1 THEN ss[i] ELSE h[i - 1] \o ss[i]
    <3>1. CASE i <= m
      <4>1. i \in 1..m /\ h[i] = g[i]
        BY <3>1
      <4>2. g[i] = IF i = 1 THEN ss[i] ELSE g[i - 1] \o ss[i]
        <5> HIDE DEF h
        <5> QED BY <2>1, <4>1, Zenon DEF IsFlattening
      <4>3. i # 1 => h[i - 1] = g[i - 1]
        BY <3>1
      <4> QED BY <4>1, <4>2, <4>3
    <3>2. CASE i = m + 1
      <4>1. h[i] = step
        BY <3>2
      <4>2. i # 1 => h[i - 1] = g[m] /\ m # 0
        BY <3>2
      <4> QED BY <3>2, <4>1, <4>2
    <3> QED
      BY <3>1, <3>2
  <2>3. IsFlattening(h, ss, m + 1)
    BY <2>2 DEF IsFlattening
  <2> HIDE DEF h
  <2> QED
    BY <2>3
<1>3. Nat \subseteq S
  <2> HIDE DEF S
  <2> QED
    BY <1>1, <1>2, SetInduction
<1> QED
  BY <1>3

LEMMA FlattenSeqIs ==
  ASSUME NEW ss, Len(ss) \in Nat \ {0}
  PROVE  \E g : IsFlattening(g, ss, Len(ss)) /\ Q!FlattenSeq(ss) = g[Len(ss)]
<1> DEFINE g == CHOOSE f : IsFlattening(f, ss, Len(ss))
<1>1. Q!FlattenSeq(ss) = g[Len(ss)]
  BY Zenon DEF Q!FlattenSeq, IsFlattening
<1>2. IsFlattening(g, ss, Len(ss))
  <2>1. \E f : IsFlattening(f, ss, Len(ss))
    BY FlatteningExists
  <2> QED
    BY <2>1, Zenon
<1> QED
  BY <1>1, <1>2, Zenon

\* What that function makes of its first sequence, and of the next one.
LEMMA Unfolds ==
  ASSUME NEW g, NEW ss, NEW n \in Nat, IsFlattening(g, ss, n)
  PROVE  /\ n # 0 => g[1] = ss[1]
         /\ \A m \in Nat : m + 2 \in 1..n => g[m + 2] = g[m + 1] \o ss[m + 2]
<1>1. \A i \in 1..n : g[i] = IF i = 1 THEN ss[i] ELSE g[i - 1] \o ss[i]
  BY Zenon DEF IsFlattening
<1>2. n # 0 => 1 \in 1..n
  OBVIOUS
<1>3. ASSUME NEW m \in Nat, m + 2 \in 1..n PROVE g[m + 2] = g[m + 1] \o ss[m + 2]
  <2>1. m + 2 # 1 /\ (m + 2) - 1 = m + 1
    OBVIOUS
  <2>2. g[m + 2] = g[(m + 2) - 1] \o ss[m + 2]
    BY <1>1, <1>3, <2>1, Zenon
  <2> QED
    BY <2>1, <2>2
<1> QED
  BY <1>1, <1>2, <1>3, Zenon

LEMMA FlattenEmpty == ASSUME NEW ss, ss = <<>> PROVE Q!FlattenSeq(ss) = <<>>
<1>1. Len(ss) = 0
  OBVIOUS
<1> QED
  BY <1>1 DEF Q!FlattenSeq

\* A sequence of sequences of some elements is flattened into one of them.
LEMMA FlattenType ==
  ASSUME NEW S, NEW ss \in Seq(Seq(S)) PROVE Q!FlattenSeq(ss) \in Seq(S)
<1>1. CASE Len(ss) = 0
  <2>1. ss = <<>>
    BY <1>1
  <2>2. Q!FlattenSeq(ss) = <<>>
    BY <2>1, FlattenEmpty
  <2> QED
    BY <2>2
<1>2. CASE Len(ss) # 0
  <2> DEFINE n == Len(ss)
  <2>1. n \in Nat \ {0} /\ \A i \in 1..n : ss[i] \in Seq(S)
    BY <1>2
  <2>2. PICK g : IsFlattening(g, ss, n) /\ Q!FlattenSeq(ss) = g[n]
    BY <2>1, FlattenSeqIs
  <2> HIDE DEF n
  <2> DEFINE I == {m \in Nat : m + 1 \in 1..n => g[m + 1] \in Seq(S)}
  <2>3. 0 \in I
    <3>1. g[1] = ss[1]
      BY <2>1, <2>2, Unfolds
    <3> QED
      BY <2>1, <3>1
  <2>4. ASSUME NEW m \in Nat, m \in I PROVE m + 1 \in I
    <3> SUFFICES ASSUME m + 2 \in 1..n PROVE g[m + 2] \in Seq(S)
      OBVIOUS
    <3>1. g[m + 2] = g[m + 1] \o ss[m + 2]
      BY <2>1, <2>2, Unfolds
    <3>2. g[m + 1] \in Seq(S) /\ ss[m + 2] \in Seq(S)
      BY <2>1, <2>4
    <3> QED
      BY <3>1, <3>2, ConcatProperties
  <2>5. Nat \subseteq I
    <3> HIDE DEF I
    <3> QED
      BY <2>3, <2>4, SetInduction
  <2>6. n - 1 \in I /\ (n - 1) + 1 = n /\ n \in 1..n
    BY <2>1, <2>5
  <2> QED
    BY <2>2, <2>6
<1> QED
  BY <1>1, <1>2

-----------------------------------------------------------------------------
\* A model understands entries one by one, wherever they come from.
LEMMA ReadProperties ==
  ASSUME NEW S, NEW a \in Seq(S)
  PROVE  /\ Q!Read(a) \in Seq({Q!Understood(x) : x \in S})
         /\ Len(Q!Read(a)) = Len(a)
         /\ \A i \in 1..Len(a) : Q!Read(a)[i] = Q!Understood(a[i])
<1>1. Q!Read(a) = [i \in 1..Len(a) |-> Q!Understood(a[i])]
  BY DEF Q!Read
<1>2. \A i \in 1..Len(a) : Q!Understood(a[i]) \in {Q!Understood(x) : x \in S}
  BY ElementOfSeq, Zenon
<1> QED
  BY <1>1, <1>2

LEMMA ReadConcat ==
  ASSUME NEW S, NEW a \in Seq(S), NEW b \in Seq(S)
  PROVE  Q!Read(a \o b) = Q!Read(a) \o Q!Read(b)
<1> DEFINE U == {Q!Understood(x) : x \in S}
<1>1. /\ a \o b \in Seq(S) /\ Len(a \o b) = Len(a) + Len(b)
      /\ \A i \in 1..(Len(a) + Len(b)) : (a \o b)[i] = IF i <= Len(a) THEN a[i] ELSE b[i - Len(a)]
  BY ConcatProperties
<1>2. /\ Q!Read(a) \in Seq(U) /\ Len(Q!Read(a)) = Len(a)
      /\ \A i \in 1..Len(a) : Q!Read(a)[i] = Q!Understood(a[i])
  BY ReadProperties
<1>3. /\ Q!Read(b) \in Seq(U) /\ Len(Q!Read(b)) = Len(b)
      /\ \A i \in 1..Len(b) : Q!Read(b)[i] = Q!Understood(b[i])
  BY ReadProperties
<1>4. /\ Q!Read(a \o b) \in Seq(U) /\ Len(Q!Read(a \o b)) = Len(a \o b)
      /\ \A i \in 1..Len(a \o b) : Q!Read(a \o b)[i] = Q!Understood((a \o b)[i])
  BY <1>1, ReadProperties
<1> HIDE DEF U
<1>5. /\ Q!Read(a) \o Q!Read(b) \in Seq(U)
      /\ Len(Q!Read(a) \o Q!Read(b)) = Len(a) + Len(b)
      /\ \A i \in 1..(Len(a) + Len(b)) : (Q!Read(a) \o Q!Read(b))[i] =
           IF i <= Len(a) THEN Q!Read(a)[i] ELSE Q!Read(b)[i - Len(a)]
  <2> DEFINE p == Q!Read(a)  q == Q!Read(b)
  <2>1. p \in Seq(U) /\ q \in Seq(U) /\ Len(p) = Len(a) /\ Len(q) = Len(b)
    BY <1>2, <1>3
  <2> HIDE DEF p, q
  <2>2. /\ p \o q \in Seq(U) /\ Len(p \o q) = Len(p) + Len(q)
        /\ \A i \in 1..(Len(p) + Len(q)) : (p \o q)[i] = IF i <= Len(p) THEN p[i] ELSE q[i - Len(p)]
    BY <2>1, ConcatProperties
  <2> QED
    BY <2>1, <2>2 DEF p, q
<1>6. ASSUME NEW i \in 1..(Len(a) + Len(b))
      PROVE  Q!Read(a \o b)[i] = (Q!Read(a) \o Q!Read(b))[i]
  <2>1. Len(a) \in Nat /\ Len(b) \in Nat
    BY LenProperties
  <2>2. CASE i <= Len(a)
    BY <1>1, <1>2, <1>4, <1>5, <2>1, <2>2
  <2>3. CASE ~(i <= Len(a))
    <3>1. i - Len(a) \in 1..Len(b)
      BY <2>1, <2>3
    <3> QED
      BY <1>1, <1>3, <1>4, <1>5, <2>1, <2>3, <3>1
  <2> QED
    BY <2>2, <2>3
<1> QED
  BY <1>1, <1>4, <1>5, <1>6, SeqEqual

\* Reading entries laid out one list after another gives what is read in each.
LEMMA ReadFlatten ==
  ASSUME NEW S, NEW ss \in Seq(Seq(S)), NEW tt, tt = [k \in DOMAIN ss |-> Q!Read(ss[k])]
  PROVE  Q!Read(Q!FlattenSeq(ss)) = Q!FlattenSeq(tt)
<1> DEFINE n == Len(ss)
<1>1. /\ n \in Nat /\ \A i \in 1..n : ss[i] \in Seq(S)
      /\ tt = [k \in 1..n |-> Q!Read(ss[k])] /\ Len(tt) = n
  OBVIOUS
<1>2. n \in Nat
  BY <1>1
<1>3. CASE n = 0
  <2>1. ss = <<>> /\ tt = <<>>
    BY <1>1, <1>3
  <2>2. Q!Read(<<>>) = <<>>
    BY DEF Q!Read
  <2> QED
    BY <2>1, <2>2, FlattenEmpty
<1>4. CASE n # 0
  <2>1. PICK g : IsFlattening(g, ss, n) /\ Q!FlattenSeq(ss) = g[n]
    BY <1>1, <1>4, FlattenSeqIs
  <2>2. PICK h : IsFlattening(h, tt, n) /\ Q!FlattenSeq(tt) = h[n]
    BY <1>1, <1>4, FlattenSeqIs
  <2> HIDE DEF n
  <2>3. /\ n # 0 => g[1] = ss[1]
        /\ \A m \in Nat : m + 2 \in 1..n => g[m + 2] = g[m + 1] \o ss[m + 2]
    BY <1>2, <2>1, Unfolds, Zenon
  <2>4. /\ n # 0 => h[1] = tt[1]
        /\ \A m \in Nat : m + 2 \in 1..n => h[m + 2] = h[m + 1] \o tt[m + 2]
    BY <1>2, <2>2, Unfolds, Zenon
  <2> DEFINE I == {m \in Nat : m + 1 \in 1..n => g[m + 1] \in Seq(S) /\ h[m + 1] = Q!Read(g[m + 1])}
  <2>5. 0 \in I
    <3>1. g[1] = ss[1]
      BY <1>4, <2>3
    <3>2. h[1] = tt[1]
      BY <1>4, <2>4
    <3> QED
      BY <1>1, <1>4, <3>1, <3>2
  <2>6. ASSUME NEW m \in Nat, m \in I PROVE m + 1 \in I
    <3> SUFFICES ASSUME m + 2 \in 1..n
                 PROVE  g[m + 2] \in Seq(S) /\ h[m + 2] = Q!Read(g[m + 2])
      OBVIOUS
    <3>1. g[m + 2] = g[m + 1] \o ss[m + 2]
      BY <2>3
    <3>2. h[m + 2] = h[m + 1] \o tt[m + 2]
      BY <2>4
    <3>3. g[m + 1] \in Seq(S) /\ h[m + 1] = Q!Read(g[m + 1])
      BY <1>1, <2>6
    <3>4. ss[m + 2] \in Seq(S) /\ tt[m + 2] = Q!Read(ss[m + 2])
      BY <1>1
    <3>5. g[m + 1] \o ss[m + 2] \in Seq(S)
      BY <3>3, <3>4, ConcatProperties
    <3>6. Q!Read(g[m + 1] \o ss[m + 2]) = Q!Read(g[m + 1]) \o Q!Read(ss[m + 2])
      BY <3>3, <3>4, ReadConcat
    <3> QED
      BY <3>1, <3>2, <3>3, <3>4, <3>5, <3>6
  <2>7. Nat \subseteq I
    <3> HIDE DEF I
    <3> QED
      BY <2>5, <2>6, SetInduction
  <2>8. n - 1 \in I /\ (n - 1) + 1 = n /\ n \in 1..n
    <3>1. n - 1 \in Nat /\ (n - 1) + 1 = n /\ n \in 1..n
      BY <1>1, <1>4
    <3> HIDE DEF I
    <3> QED
      BY <2>7, <3>1
  <2> QED
    BY <2>1, <2>2, <2>8
<1> QED
  BY <1>3, <1>4

-----------------------------------------------------------------------------
\* A conversation: exchanges with their items, whose arguments may be cut off.
Arguments == {"", "{...", "{...}"}
QItem == [kind : Q!Kind, id : Nat, arguments : Arguments, output : {"", "result"}]

QType ==
  /\ exchanges \in Seq(Seq(QItem))
  /\ live \in Seq(BOOLEAN) /\ Len(live) = Len(exchanges)
  /\ made \in Nat /\ instructions \in BOOLEAN

\* The entries that the adapters write, and what a model understands of each.
SaidEntry(r, id) == [role |-> r, content |-> id]
TextEntry(r, id) == [role |-> r, text |-> id]
FunctionCall(id, a) == [type |-> "function_call", call_id |-> id, arguments |-> a]
FunctionOutput(id, o) == [type |-> "function_call_output", call_id |-> id, output |-> o]
ToolCalls(id, a) == [role |-> "assistant", tool_calls |-> <<[id |-> id, arguments |-> a]>>]
ToolResult(id, o) == [role |-> "tool", tool_call_id |-> id, content |-> o]
UseBlock(id, a) == [role |-> "assistant", tool_use |-> [id |-> id, input |-> a]]
ResultBlock(id, o) == [role |-> "user", tool_result |-> [tool_use_id |-> id, content |-> o]]

LEMMA Entries ==
  /\ \A r, id : Q!Understood(SaidEntry(r, id)) = Q!Said(r, id)
  /\ \A r, id : Q!Understood(TextEntry(r, id)) = Q!Said(r, id)
  /\ \A id, a : Q!Understood(FunctionCall(id, a)) = Q!Called(id, a)
  /\ \A id, o : Q!Understood(FunctionOutput(id, o)) = Q!Returned(id, o)
  /\ \A id, a : Q!Understood(ToolCalls(id, a)) = Q!Called(id, a)
  /\ \A id, o : Q!Understood(ToolResult(id, o)) = Q!Returned(id, o)
  /\ \A id, a : Q!Understood(UseBlock(id, a)) = Q!Called(id, a)
  /\ \A id, o : Q!Understood(ResultBlock(id, o)) = Q!Returned(id, o)
<1>1. \A r, id : Q!Understood(SaidEntry(r, id)) = Q!Said(r, id)
  BY DEF Q!Understood, SaidEntry
<1>2. \A r, id : Q!Understood(TextEntry(r, id)) = Q!Said(r, id)
  BY DEF Q!Understood, TextEntry
<1>3. \A id, a : Q!Understood(FunctionCall(id, a)) = Q!Called(id, a)
  BY DEF Q!Understood, FunctionCall
<1>4. \A id, o : Q!Understood(FunctionOutput(id, o)) = Q!Returned(id, o)
  BY DEF Q!Understood, FunctionOutput
<1>5. \A id, a : Q!Understood(ToolCalls(id, a)) = Q!Called(id, a)
  BY DEF Q!Understood, ToolCalls
<1>6. \A id, o : Q!Understood(ToolResult(id, o)) = Q!Returned(id, o)
  BY DEF Q!Understood, ToolResult
<1>7. \A id, a : Q!Understood(UseBlock(id, a)) = Q!Called(id, a)
  BY DEF Q!Understood, UseBlock
<1>8. \A id, o : Q!Understood(ResultBlock(id, o)) = Q!Returned(id, o)
  BY DEF Q!Understood, ResultBlock
<1> QED
  BY <1>1, <1>2, <1>3, <1>4, <1>5, <1>6, <1>7, <1>8

LEMMA ReadShort ==
  /\ Q!Read(<<>>) = <<>>
  /\ \A x : Q!Read(<<x>>) = <<Q!Understood(x)>>
  /\ \A x, y : Q!Read(<<x, y>>) = <<Q!Understood(x), Q!Understood(y)>>
BY DEF Q!Read

\* What an item tells, the same as in Story.
Told(item) ==
  CASE item.kind \in {"user", "text"} -> <<Q!Said(Q!Role(item), item.id)>>
    [] item.kind = "call" -> <<Q!Called(item.id, item.arguments), Q!Returned(item.id, item.output)>>
    [] item.kind = "reasoning" -> <<>>

\* Arguments may be made what json.loads() reads before a model reads them.
LEMMA InputTwice == \A a, id : Q!Called(id, Q!Input(a)) = Q!Called(id, a)
BY DEF Q!Called, Q!Input

LEMMA ShortSeqs ==
  ASSUME NEW T
  PROVE  <<>> \in Seq(T) /\ (\A x \in T : <<x>> \in Seq(T)) /\ \A x, y \in T : <<x, y>> \in Seq(T)
OBVIOUS

\* The entries of each adapter, item by item.
ResponseEntry ==
       {SaidEntry(Q!Role(x), x.id) : x \in QItem}
  \cup {FunctionCall(x.id, x.arguments) : x \in QItem}
  \cup {FunctionOutput(x.id, x.output) : x \in QItem}

LEMMA ResponseTells ==
  ASSUME NEW item \in QItem
  PROVE  Q!ResponseEntries(item) \in Seq(ResponseEntry) /\ Q!Read(Q!ResponseEntries(item)) = Told(item)
<1>1. /\ SaidEntry(Q!Role(item), item.id) \in ResponseEntry
      /\ FunctionCall(item.id, item.arguments) \in ResponseEntry
      /\ FunctionOutput(item.id, item.output) \in ResponseEntry
  BY Zenon DEF ResponseEntry
<1>2. CASE item.kind \in {"user", "text"}
  <2>1. Q!ResponseEntries(item) = <<SaidEntry(Q!Role(item), item.id)>>
    BY <1>2 DEF Q!ResponseEntries, SaidEntry
  <2>2. Told(item) = <<Q!Said(Q!Role(item), item.id)>>
    BY <1>2 DEF Told
  <2> QED
    BY <1>1, <2>1, <2>2, Entries, ReadShort, ShortSeqs, Zenon
<1>3. CASE item.kind = "reasoning"
  <2>1. Q!ResponseEntries(item) = <<>> /\ Told(item) = <<>>
    BY <1>3 DEF Q!ResponseEntries, Told
  <2> QED
    BY <2>1, ReadShort, ShortSeqs
<1>4. CASE item.kind = "call"
  <2>1. Q!ResponseEntries(item) = <<FunctionCall(item.id, item.arguments), FunctionOutput(item.id, item.output)>>
    BY <1>4 DEF Q!ResponseEntries, FunctionCall, FunctionOutput
  <2>2. Told(item) = <<Q!Called(item.id, item.arguments), Q!Returned(item.id, item.output)>>
    BY <1>4 DEF Told
  <2>3. Q!Understood(FunctionCall(item.id, item.arguments)) = Q!Called(item.id, item.arguments)
    BY Entries
  <2>4. Q!Understood(FunctionOutput(item.id, item.output)) = Q!Returned(item.id, item.output)
    BY Entries
  <2>5. Q!Read(Q!ResponseEntries(item)) = <<Q!Called(item.id, item.arguments), Q!Returned(item.id, item.output)>>
    BY <2>1, <2>3, <2>4, ReadShort
  <2>6. Q!ResponseEntries(item) \in Seq(ResponseEntry)
    BY <1>1, <2>1, ShortSeqs, Zenon
  <2> QED
    BY <2>2, <2>5, <2>6
<1> QED
  BY <1>2, <1>3, <1>4 DEF QItem, Q!Kind

MessagesEntry ==
       {TextEntry(Q!Role(x), x.id) : x \in QItem}
  \cup {UseBlock(x.id, Q!Input(x.arguments)) : x \in QItem}
  \cup {ResultBlock(x.id, x.output) : x \in QItem}

LEMMA MessagesTell ==
  ASSUME NEW item \in QItem
  PROVE  Q!MessagesEntries(item) \in Seq(MessagesEntry) /\ Q!Read(Q!MessagesEntries(item)) = Told(item)
<1>1. /\ TextEntry(Q!Role(item), item.id) \in MessagesEntry
      /\ UseBlock(item.id, Q!Input(item.arguments)) \in MessagesEntry
      /\ ResultBlock(item.id, item.output) \in MessagesEntry
  BY Zenon DEF MessagesEntry
<1>2. CASE item.kind \in {"user", "text"}
  <2>1. Q!MessagesEntries(item) = <<TextEntry(Q!Role(item), item.id)>>
    BY <1>2 DEF Q!MessagesEntries, TextEntry
  <2>2. Told(item) = <<Q!Said(Q!Role(item), item.id)>>
    BY <1>2 DEF Told
  <2> QED
    BY <1>1, <2>1, <2>2, Entries, ReadShort, ShortSeqs, Zenon
<1>3. CASE item.kind = "reasoning"
  <2>1. Q!MessagesEntries(item) = <<>> /\ Told(item) = <<>>
    BY <1>3 DEF Q!MessagesEntries, Told
  <2> QED
    BY <2>1, ReadShort, ShortSeqs
<1>4. CASE item.kind = "call"
  <2>1. Q!MessagesEntries(item) = <<UseBlock(item.id, Q!Input(item.arguments)), ResultBlock(item.id, item.output)>>
    BY <1>4 DEF Q!MessagesEntries, UseBlock, ResultBlock
  <2>2. Told(item) = <<Q!Called(item.id, item.arguments), Q!Returned(item.id, item.output)>>
    BY <1>4 DEF Told
  <2>3. Q!Understood(UseBlock(item.id, Q!Input(item.arguments))) = Q!Called(item.id, Q!Input(item.arguments))
    BY Entries
  <2>4. Q!Understood(ResultBlock(item.id, item.output)) = Q!Returned(item.id, item.output)
    BY Entries
  <2>5. Q!Read(Q!MessagesEntries(item)) = <<Q!Called(item.id, item.arguments), Q!Returned(item.id, item.output)>>
    BY <2>1, <2>3, <2>4, ReadShort, InputTwice
  <2>6. Q!MessagesEntries(item) \in Seq(MessagesEntry)
    BY <1>1, <2>1, ShortSeqs, Zenon
  <2> QED
    BY <2>2, <2>5, <2>6
<1> QED
  BY <1>2, <1>3, <1>4 DEF QItem, Q!Kind

ChatEntry ==
       {SaidEntry(Q!Role(x), x.id) : x \in QItem}
  \cup {ToolCalls(x.id, x.arguments) : x \in QItem}
  \cup {ToolResult(x.id, x.output) : x \in QItem}

LEMMA ChatTells ==
  ASSUME NEW item \in QItem
  PROVE  Q!ChatEntries(item) \in Seq(ChatEntry) /\ Q!Read(Q!ChatEntries(item)) = Told(item)
<1>1. /\ SaidEntry(Q!Role(item), item.id) \in ChatEntry
      /\ ToolCalls(item.id, item.arguments) \in ChatEntry
      /\ ToolResult(item.id, item.output) \in ChatEntry
  BY Zenon DEF ChatEntry
<1>2. CASE item.kind \in {"user", "text"}
  <2>1. Q!ChatEntries(item) = <<SaidEntry(Q!Role(item), item.id)>>
    BY <1>2 DEF Q!ChatEntries, SaidEntry
  <2>2. Told(item) = <<Q!Said(Q!Role(item), item.id)>>
    BY <1>2 DEF Told
  <2> QED
    BY <1>1, <2>1, <2>2, Entries, ReadShort, ShortSeqs, Zenon
<1>3. CASE item.kind = "reasoning"
  <2>1. Q!ChatEntries(item) = <<>> /\ Told(item) = <<>>
    BY <1>3 DEF Q!ChatEntries, Told
  <2> QED
    BY <2>1, ReadShort, ShortSeqs
<1>4. CASE item.kind = "call"
  <2>1. Q!ChatEntries(item) = <<ToolCalls(item.id, item.arguments), ToolResult(item.id, item.output)>>
    BY <1>4 DEF Q!ChatEntries, ToolCalls, ToolResult
  <2>2. Told(item) = <<Q!Called(item.id, item.arguments), Q!Returned(item.id, item.output)>>
    BY <1>4 DEF Told
  <2>3. Q!Understood(ToolCalls(item.id, item.arguments)) = Q!Called(item.id, item.arguments)
    BY Entries
  <2>4. Q!Understood(ToolResult(item.id, item.output)) = Q!Returned(item.id, item.output)
    BY Entries
  <2>5. Q!Read(Q!ChatEntries(item)) = <<Q!Called(item.id, item.arguments), Q!Returned(item.id, item.output)>>
    BY <2>1, <2>3, <2>4, ReadShort
  <2>6. Q!ChatEntries(item) \in Seq(ChatEntry)
    BY <1>1, <2>1, ShortSeqs, Zenon
  <2> QED
    BY <2>2, <2>5, <2>6
<1> QED
  BY <1>2, <1>3, <1>4 DEF QItem, Q!Kind

\* The instructions are the only system message of a chat request.
LEMMA NoSystemEntry == \A e \in ChatEntry : e.role # "system"
<1>1. \A x : SaidEntry(Q!Role(x), x.id).role # "system"
  BY DEF SaidEntry, Q!Role
<1>2. \A i, a : ToolCalls(i, a).role # "system"
  BY DEF ToolCalls
<1>3. \A i, o : ToolResult(i, o).role # "system"
  BY DEF ToolResult
<1> QED
  BY <1>1, <1>2, <1>3, Zenon DEF ChatEntry

\* Entries that tell their items tell, laid out one after another, the story.
LEMMA LaidTell ==
  ASSUME NEW E, NEW its \in Seq(QItem), NEW entries,
         DOMAIN entries = DOMAIN its, entries \in Seq(Seq(E)),
         \A k \in DOMAIN its : Q!Read(entries[k]) = Told(its[k]),
         NEW told, told = [k \in DOMAIN its |-> Told(its[k])]
  PROVE  Q!Read(Q!FlattenSeq(entries)) = Q!FlattenSeq(told)
<1>1. told = [k \in DOMAIN entries |-> Q!Read(entries[k])]
  BY Zenon
<1> QED
  BY <1>1, ReadFlatten

LEMMA ItemsType ==
  ASSUME QType
  PROVE  Q!Items \in Seq(QItem) /\ \A k \in DOMAIN Q!Items : Q!Items[k] \in QItem
<1>1. Q!Items \in Seq(QItem)
  BY FlattenType DEF QType, Q!Items
<1> QED
  BY <1>1

LEMMA StoryIs ==
  Q!Story = Q!FlattenSeq([k \in DOMAIN Q!Items |-> Told(Q!Items[k])])
BY Zenon DEF Q!Story, Told

LEMMA ResponseStory == ASSUME QType PROVE Q!Read(Q!ResponseRequest.input) = Q!Story
<1> DEFINE entries == [k \in DOMAIN Q!Items |-> Q!ResponseEntries(Q!Items[k])]
           told == [k \in DOMAIN Q!Items |-> Told(Q!Items[k])]
<1>1. Q!ResponseRequest.input = Q!FlattenSeq(entries)
  BY Zenon DEF Q!ResponseRequest, Q!Laid
<1>2. Q!Items \in Seq(QItem) /\ \A k \in DOMAIN Q!Items : Q!Items[k] \in QItem
  BY ItemsType
<1>3. \A k \in DOMAIN Q!Items : /\ Q!ResponseEntries(Q!Items[k]) \in Seq(ResponseEntry)
                               /\ Q!Read(Q!ResponseEntries(Q!Items[k])) = Told(Q!Items[k])
  BY <1>2, ResponseTells
<1>4. entries \in Seq(Seq(ResponseEntry)) /\ DOMAIN entries = DOMAIN Q!Items
  BY <1>2, <1>3
<1>5. \A k \in DOMAIN Q!Items : Q!Read(entries[k]) = Told(Q!Items[k])
  BY <1>3
<1>6. Q!Story = Q!FlattenSeq(told)
  BY StoryIs
<1> QED
  <2> HIDE DEF entries
  <2>1. Q!Read(Q!FlattenSeq(entries)) = Q!FlattenSeq(told)
    BY <1>2, <1>4, <1>5, LaidTell
  <2> QED
    BY <1>1, <1>6, <2>1

LEMMA MessagesStory == ASSUME QType PROVE Q!Read(Q!MessagesRequest.messages) = Q!Story
<1> DEFINE entries == [k \in DOMAIN Q!Items |-> Q!MessagesEntries(Q!Items[k])]
           told == [k \in DOMAIN Q!Items |-> Told(Q!Items[k])]
<1>1. Q!MessagesRequest.messages = Q!FlattenSeq(entries)
  BY Zenon DEF Q!MessagesRequest, Q!Laid
<1>2. Q!Items \in Seq(QItem) /\ \A k \in DOMAIN Q!Items : Q!Items[k] \in QItem
  BY ItemsType
<1>3. \A k \in DOMAIN Q!Items : /\ Q!MessagesEntries(Q!Items[k]) \in Seq(MessagesEntry)
                               /\ Q!Read(Q!MessagesEntries(Q!Items[k])) = Told(Q!Items[k])
  BY <1>2, MessagesTell
<1>4. entries \in Seq(Seq(MessagesEntry)) /\ DOMAIN entries = DOMAIN Q!Items
  BY <1>2, <1>3
<1>5. \A k \in DOMAIN Q!Items : Q!Read(entries[k]) = Told(Q!Items[k])
  BY <1>3
<1>6. Q!Story = Q!FlattenSeq(told)
  BY StoryIs
<1> QED
  <2> HIDE DEF entries
  <2>1. Q!Read(Q!FlattenSeq(entries)) = Q!FlattenSeq(told)
    BY <1>2, <1>4, <1>5, LaidTell
  <2> QED
    BY <1>1, <1>6, <2>1

LEMMA ChatStory == ASSUME QType PROVE Q!Read(Q!Laid(Q!ChatEntries)) = Q!Story
<1> DEFINE entries == [k \in DOMAIN Q!Items |-> Q!ChatEntries(Q!Items[k])]
           told == [k \in DOMAIN Q!Items |-> Told(Q!Items[k])]
<1>1. Q!Laid(Q!ChatEntries) = Q!FlattenSeq(entries)
  BY Zenon DEF Q!Laid
<1>2. Q!Items \in Seq(QItem) /\ \A k \in DOMAIN Q!Items : Q!Items[k] \in QItem
  BY ItemsType
<1>3. \A k \in DOMAIN Q!Items : /\ Q!ChatEntries(Q!Items[k]) \in Seq(ChatEntry)
                               /\ Q!Read(Q!ChatEntries(Q!Items[k])) = Told(Q!Items[k])
  BY <1>2, ChatTells
<1>4. entries \in Seq(Seq(ChatEntry)) /\ DOMAIN entries = DOMAIN Q!Items
  BY <1>2, <1>3
<1>5. \A k \in DOMAIN Q!Items : Q!Read(entries[k]) = Told(Q!Items[k])
  BY <1>3
<1>6. Q!Story = Q!FlattenSeq(told)
  BY StoryIs
<1> QED
  <2> HIDE DEF entries
  <2>1. Q!Read(Q!FlattenSeq(entries)) = Q!FlattenSeq(told)
    BY <1>2, <1>4, <1>5, LaidTell
  <2> QED
    BY <1>1, <1>6, <2>1

\* What has been laid out for the chat is a sequence of its entries.
LEMMA ChatLaidType == ASSUME QType PROVE Q!Laid(Q!ChatEntries) \in Seq(ChatEntry)
<1> DEFINE entries == [k \in DOMAIN Q!Items |-> Q!ChatEntries(Q!Items[k])]
<1>1. Q!Items \in Seq(QItem) /\ \A k \in DOMAIN Q!Items : Q!Items[k] \in QItem
  BY ItemsType
<1>2. \A k \in DOMAIN Q!Items : Q!ChatEntries(Q!Items[k]) \in Seq(ChatEntry)
  BY <1>1, ChatTells
<1>3. entries \in Seq(Seq(ChatEntry))
  BY <1>1, <1>2
<1> HIDE DEF entries
<1>4. Q!FlattenSeq(entries) \in Seq(ChatEntry)
  BY <1>3, FlattenType
<1> QED
  BY <1>4 DEF Q!Laid, entries

LEMMA ChatOpens ==
  ASSUME QType, NEW messages, messages = Q!ChatRequest.messages,
         NEW opening, opening = IF instructions THEN 1 ELSE 0
  PROVE  /\ \A k \in DOMAIN messages : messages[k].role = "system" <=> k <= opening
         /\ SubSeq(messages, opening + 1, Len(messages)) = Q!Laid(Q!ChatEntries)
<1> DEFINE laid == Q!Laid(Q!ChatEntries)
           first == [role |-> "system"]
<1>1. laid \in Seq(ChatEntry)
  BY ChatLaidType
<1>2. messages = (IF instructions THEN <<first>> ELSE <<>>) \o laid
  BY DEF Q!ChatRequest
<1>3. first.role = "system"
  OBVIOUS
<1> HIDE DEF laid, first
<1>4. \A k \in 1..Len(laid) : laid[k].role # "system"
  <2>1. \A k \in 1..Len(laid) : laid[k] \in ChatEntry
    BY <1>1
  <2> QED
    BY <2>1, NoSystemEntry
<1>5. CASE instructions
  <2>1. /\ Len(messages) = Len(laid) + 1 /\ DOMAIN messages = 1..(Len(laid) + 1)
        /\ messages[1] = first /\ \A k \in 2..Len(messages) : messages[k] = laid[k - 1]
    BY <1>1, <1>2, <1>5
  <2>2. \A k \in DOMAIN messages : messages[k].role = "system" <=> k <= opening
    BY <1>1, <1>3, <1>4, <1>5, <2>1
  <2>3. SubSeq(messages, 2, Len(messages)) = laid
    BY <1>1, <1>2, <1>5, <2>1
  <2> QED
    BY <1>5, <2>2, <2>3 DEF laid
<1>6. CASE ~instructions
  <2>1. messages = laid
    BY <1>1, <1>2, <1>6
  <2>2. SubSeq(laid, 1, Len(laid)) = laid
    BY <1>1
  <2> QED
    BY <1>1, <1>4, <1>6, <2>1, <2>2 DEF laid
<1> QED
  BY <1>5, <1>6

\* Whichever adapter lays a conversation out, its story is told.
LEMMA StoryFollows == QType => TellsTheStory
<1> SUFFICES ASSUME QType PROVE TellsTheStory
  OBVIOUS
<1> DEFINE messages == Q!ChatRequest.messages
           opening == IF instructions THEN 1 ELSE 0
<1>1. /\ \A k \in DOMAIN messages : messages[k].role = "system" <=> k <= opening
      /\ SubSeq(messages, opening + 1, Len(messages)) = Q!Laid(Q!ChatEntries)
  BY ChatOpens, Zenon
<1>2. Q!Read(SubSeq(messages, opening + 1, Len(messages))) = Q!Story
  BY <1>1, ChatStory, Zenon
<1> QED
  BY <1>1, <1>2, ResponseStory, MessagesStory, Zenon DEF TellsTheStory, Q!TellsTheStory

-----------------------------------------------------------------------------
\* The conversation keeps its shape.
LEMMA QInit == Init => QType
BY DEF Init, Q!Init, QType

LEMMA QNew == ASSUME QType, NEW kind \in Q!Kind PROVE Q!New(kind) \in QItem
<1>1. made + 1 \in Nat
  BY DEF QType
<1> QED
  BY <1>1 DEF Q!New, QItem, Arguments

LEMMA QOpenExchange == ASSUME QType, Q!OpenExchange PROVE QType'
<1>1. <<Q!New("user")>> \in Seq(QItem) /\ <<>> \in Seq(QItem)
  BY QNew, ShortSeqs DEF Q!Kind
<1>2. \E x \in Seq(QItem) : exchanges' = Append(exchanges, x)
  BY <1>1 DEF Q!OpenExchange
<1>3. exchanges' \in Seq(Seq(QItem)) /\ Len(exchanges') = Len(exchanges) + 1
  BY <1>2 DEF QType
<1>4. live' \in Seq(BOOLEAN) /\ Len(live') = Len(live) + 1
  BY DEF QType, Q!OpenExchange
<1>5. made' \in Nat /\ instructions' \in BOOLEAN
  BY DEF QType, Q!OpenExchange
<1> QED
  BY <1>3, <1>4, <1>5 DEF QType

\* An exchange is replaced by one made of the same kind of items.
LEMMA QReplaced ==
  ASSUME QType, NEW e \in DOMAIN exchanges, NEW x \in Seq(QItem),
         exchanges' = [exchanges EXCEPT ![e] = x]
  PROVE  exchanges' \in Seq(Seq(QItem)) /\ Len(exchanges') = Len(exchanges)
BY ExceptSeq DEF QType

LEMMA QAddItem == ASSUME QType, NEW e \in DOMAIN exchanges, Q!AddItem(e) PROVE QType'
<1>1. PICK kind \in Q!Kind : exchanges' = [exchanges EXCEPT ![e] = Append(@, Q!New(kind))]
  BY DEF Q!AddItem
<1>2. Append(exchanges[e], Q!New(kind)) \in Seq(QItem)
  BY QNew DEF QType
<1>3. exchanges' \in Seq(Seq(QItem)) /\ Len(exchanges') = Len(exchanges)
  BY <1>1, <1>2, QReplaced
<1> QED
  BY <1>3 DEF QType, Q!AddItem

LEMMA QItemReplaced ==
  ASSUME QType, NEW e \in DOMAIN exchanges, NEW k \in DOMAIN exchanges[e], NEW item \in QItem,
         exchanges' = [exchanges EXCEPT ![e] = [exchanges[e] EXCEPT ![k] = item]]
  PROVE  exchanges' \in Seq(Seq(QItem)) /\ Len(exchanges') = Len(exchanges)
<1>1. exchanges[e] \in Seq(QItem)
  BY DEF QType
<1>2. [exchanges[e] EXCEPT ![k] = item] \in Seq(QItem)
  BY <1>1, ExceptSeq
<1> QED
  BY <1>2, QReplaced

LEMMA QReceiveArguments ==
  ASSUME QType, NEW e \in DOMAIN exchanges, NEW k \in DOMAIN exchanges[e], Q!ReceiveArguments(e, k)
  PROVE  QType'
<1>1. exchanges[e][k] \in QItem
  BY DEF QType
<1>2. PICK a \in {"{...", "{...}"} : exchanges' = [exchanges EXCEPT ![e][k].arguments = a]
  BY DEF Q!ReceiveArguments
<1> DEFINE item == [exchanges[e][k] EXCEPT !.arguments = a]
<1>3. item \in QItem
  BY <1>1 DEF QItem, Arguments
<1>4. exchanges' = [exchanges EXCEPT ![e] = [exchanges[e] EXCEPT ![k] = item]]
  BY <1>2
<1>5. exchanges' \in Seq(Seq(QItem)) /\ Len(exchanges') = Len(exchanges)
  <2> HIDE DEF item
  <2> QED
    BY <1>3, <1>4, QItemReplaced
<1> QED
  BY <1>5 DEF QType, Q!ReceiveArguments

LEMMA QReceiveOutput ==
  ASSUME QType, NEW e \in DOMAIN exchanges, NEW k \in DOMAIN exchanges[e], Q!ReceiveOutput(e, k)
  PROVE  QType'
<1> DEFINE item == [exchanges[e][k] EXCEPT !.output = "result"]
<1>1. exchanges[e][k] \in QItem
  BY DEF QType
<1>2. item \in QItem
  BY <1>1 DEF QItem
<1>3. exchanges' = [exchanges EXCEPT ![e] = [exchanges[e] EXCEPT ![k] = item]]
  BY DEF Q!ReceiveOutput
<1>4. exchanges' \in Seq(Seq(QItem)) /\ Len(exchanges') = Len(exchanges)
  <2> HIDE DEF item
  <2> QED
    BY <1>2, <1>3, QItemReplaced
<1> QED
  BY <1>4 DEF QType, Q!ReceiveOutput

LEMMA QEndResponse == ASSUME QType, NEW e \in DOMAIN exchanges, Q!EndResponse(e) PROVE QType'
<1>1. e \in DOMAIN live
  BY DEF QType
<1>2. live' \in Seq(BOOLEAN) /\ Len(live') = Len(live)
  BY <1>1, ExceptSeq DEF QType, Q!EndResponse
<1> QED
  BY <1>2 DEF QType, Q!EndResponse

LEMMA QRestart == ASSUME QType, NEW e \in DOMAIN exchanges, Q!Restart(e) PROVE QType'
<1>1. e \in 1..Len(exchanges) /\ Len(exchanges) \in Nat
  BY DEF QType
<1>2. exchanges' \in Seq(Seq(QItem)) /\ Len(exchanges') = e - 1
  BY <1>1 DEF QType, Q!Restart
<1>3. live' \in Seq(BOOLEAN) /\ Len(live') = e - 1
  BY <1>1 DEF QType, Q!Restart
<1> QED
  BY <1>2, <1>3 DEF QType, Q!Restart

LEMMA QStep == QType /\ [Next]_vars => QType'
<1> SUFFICES ASSUME QType, [Next]_vars PROVE QType'
  OBVIOUS
<1>1. CASE Q!Next
  <2>1. CASE Q!OpenExchange
    BY <2>1, QOpenExchange
  <2>2. ASSUME NEW e \in DOMAIN exchanges, Q!AddItem(e) PROVE QType'
    BY <2>2, QAddItem
  <2>3. ASSUME NEW e \in DOMAIN exchanges, Q!EndResponse(e) PROVE QType'
    BY <2>3, QEndResponse
  <2>4. ASSUME NEW e \in DOMAIN exchanges, Q!Restart(e) PROVE QType'
    BY <2>4, QRestart
  <2>5. ASSUME NEW e \in DOMAIN exchanges, NEW k \in DOMAIN exchanges[e], Q!ReceiveArguments(e, k)
        PROVE QType'
    BY <2>5, QReceiveArguments
  <2>6. ASSUME NEW e \in DOMAIN exchanges, NEW k \in DOMAIN exchanges[e], Q!ReceiveOutput(e, k)
        PROVE QType'
    BY <2>6, QReceiveOutput
  <2> QED
    BY <1>1, <2>1, <2>2, <2>3, <2>4, <2>5, <2>6, Zenon DEF Q!Next
<1>2. CASE UNCHANGED qvars
  BY <1>2 DEF qvars, QType
<1> QED
  BY <1>1, <1>2, Zenon DEF Next, vars

\* Whatever a conversation holds, of any length, with calls that have no arguments,
\* part of them or no result yet, the three adapters tell the model the same story
\* after its instructions; Messages does so unless a call was cut off in the middle
\* (chat_request() of v1response.py, v1messages.py and v1chatcompletition.py).
THEOREM StoryIsTold == Spec => []TellsTheStory
<1>1. Spec => []QType
  BY QInit, QStep, PTL DEF Spec
<1> QED
  BY <1>1, StoryFollows, PTL

=============================================================================
