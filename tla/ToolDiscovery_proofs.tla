------------------------ MODULE ToolDiscovery_proofs ------------------------
(***************************************************************************)
(* Proofs about ToolDiscovery for every set of nodes, any number of        *)
(* discoveries and any bound on the changes.                               *)
(***************************************************************************)
EXTENDS ToolDiscovery, TLAPS

-----------------------------------------------------------------------------
\* Types.

LEMMA TypeInit == Init => TypeOK
<1> SUFFICES ASSUME Init PROVE TypeOK
  OBVIOUS
<1>1. Advertisable \subseteq Content
  BY FaultyContents DEF Advertisable, Content
<1>2. node \in [Node -> Content]
  BY <1>1 DEF Init
<1>3. 0 \in 0..MaxChanges
  BY ChangesBounded
<1> QED
  BY <1>2, <1>3 DEF Init, TypeOK

\* What a discovery adds to its list is a tool.
LEMMA ProceedType ==
  ASSUME TypeOK, NEW d \in Discovery, NEW rest \in SUBSET Node,
         NEW tools \in SUBSET (Node \X Valid), Proceed(d, rest, tools)
  PROVE  /\ Tools' \subseteq Node \X Valid
         /\ pc' \in [Discovery -> {"idle", "listing", "reading"}]
         /\ todo' \in [Discovery -> SUBSET Node]
         /\ found' \in [Discovery -> SUBSET (Node \X Valid)]
         /\ firm' \subseteq Node
         /\ UNCHANGED <<external, due>>
BY DEF TypeOK, Proceed

LEMMA TypeStep == TypeOK /\ [Next]_vars => TypeOK'
<1> SUFFICES ASSUME TypeOK, [Next]_vars PROVE TypeOK'
  OBVIOUS
<1>1. ASSUME NEW n \in Node, NEW c \in Advertisable, Change(n, c) PROVE TypeOK'
  <2>1. c \in Content
    BY FaultyContents DEF Advertisable, Content, Valid
  <2>2. c \in Valid => <<n, c>> \in Node \X Valid
    OBVIOUS
  <2>3. changes' \in 0..MaxChanges
    BY <1>1, ChangesBounded DEF Change, TypeOK
  <2>4. seen' \in [Discovery -> SUBSET (Node \X Valid)]
    BY <1>1, <2>2 DEF Change, TypeOK
  <2> QED
    BY <1>1, <2>1, <2>3, <2>4 DEF Change, TypeOK, local
<1>2. CASE ConnectionChanges
  BY <1>2 DEF ConnectionChanges, TypeOK, local
<1>3. ASSUME NEW d \in Discovery, Discover(d) PROVE TypeOK'
  BY <1>3 DEF Discover, TypeOK, external
<1>4. ASSUME NEW d \in Discovery, ListNodes(d), ~base PROVE TypeOK'
  <2>1. Advertised \subseteq Node \X Valid
    BY DEF Advertised
  <2> QED
    BY <1>4, <2>1 DEF ListNodes, GivesUp, TypeOK, external
<1>8. ASSUME NEW d \in Discovery, ListNodes(d), base PROVE TypeOK'
  <2>1. Proceed(d, There, {})
    BY <1>8 DEF ListNodes
  <2>2. Advertised \subseteq Node \X Valid
    BY DEF Advertised
  <2>3. There \subseteq Node
    BY DEF There
  <2>4. /\ Tools' \subseteq Node \X Valid
        /\ pc' \in [Discovery -> {"idle", "listing", "reading"}]
        /\ todo' \in [Discovery -> SUBSET Node]
        /\ found' \in [Discovery -> SUBSET (Node \X Valid)]
        /\ firm' \subseteq Node
        /\ UNCHANGED <<external, due>>
    BY <2>1, <2>3, ProceedType
  <2> QED
    BY <1>8, <2>2, <2>4 DEF ListNodes, TypeOK, external
<1>5. ASSUME NEW d \in Discovery, NEW n \in Node, ReadTool(d, n) PROVE TypeOK'
  <2> DEFINE rest == todo[d] \ {n}
             tools == IF node[n] \in Valid THEN found[d] \cup {<<n, node[n]>>} ELSE found[d]
  <2>1. Proceed(d, rest, tools)
    BY <1>5 DEF ReadTool
  <2>2. rest \subseteq Node /\ tools \subseteq Node \X Valid
    BY DEF TypeOK
  <2> HIDE DEF rest, tools
  <2>3. /\ Tools' \subseteq Node \X Valid
        /\ pc' \in [Discovery -> {"idle", "listing", "reading"}]
        /\ todo' \in [Discovery -> SUBSET Node]
        /\ found' \in [Discovery -> SUBSET (Node \X Valid)]
        /\ firm' \subseteq Node
        /\ UNCHANGED <<external, due>>
    BY <2>1, <2>2, ProceedType
  <2> QED
    BY <1>5, <2>3 DEF ReadTool, TypeOK, external
<1>6. ASSUME NEW d \in Discovery, DiscoveryRaises(d) PROVE TypeOK'
  BY <1>6 DEF DiscoveryRaises, GivesUp, TypeOK, external
<1>7. CASE RemoveBase \/ UNCHANGED vars
  BY <1>7 DEF RemoveBase, vars, external, local, TypeOK
<1> QED
  BY <1>1, <1>2, <1>3, <1>4, <1>5, <1>6, <1>7, <1>8 DEF Next, DiscoveryStep

\* Every reachable state of the discoveries is well typed: what is offered are
\* tools, never definitions that failed to be one.
THEOREM TypeCorrect == Spec => []TypeOK
BY TypeInit, TypeStep, PTL DEF Spec

-----------------------------------------------------------------------------
\* What a discovery that is reading knows.

\* It has read or will read every node that has not changed since its listing,
\* and every node whose tool is on offer; what it has read was there.
Knows(d) ==
  /\ found[d] \subseteq seen[d]
  /\ Advertised \subseteq seen[d]
  /\ \A n \in steady[d] \cup firm :
       node[n] \in Valid => n \in todo[d] \/ <<n, node[n]>> \in found[d]

Readers == OfferedToolsStay /\ \A d \in Discovery : pc[d] = "reading" => Knows(d)

LEMMA ReadersInit == Init => Readers
BY DEF Init, Readers, OfferedToolsStay

\* A discovery that proceeds knows what it knew, and what it publishes is what
\* it knows.
LEMMA ProceedKnows ==
  ASSUME TypeOK, Readers, NEW d \in Discovery, NEW rest \in SUBSET Node,
         NEW tools \in SUBSET (Node \X Valid), Proceed(d, rest, tools),
         steady' \in [Discovery -> SUBSET Node],
         \A e \in Discovery \ {d} : steady'[e] = steady[e] /\ seen'[e] = seen[e],
         tools \subseteq seen'[d], Advertised \subseteq seen'[d],
         \A n \in steady'[d] \cup firm :
            node[n] \in Valid => n \in rest \/ <<n, node[n]>> \in tools
  PROVE  Readers'
<1>1. /\ node' = node
      /\ Advertised' = Advertised
      /\ todo' = [todo EXCEPT ![d] = rest]
      /\ found' = [found EXCEPT ![d] = tools]
  BY DEF Proceed, external, Advertised
<1>2. firm \subseteq Node /\ \A n \in firm : node[n] \in Valid
  BY DEF Readers, OfferedToolsStay, TypeOK
<1>3. CASE rest = {}
  <2>1. /\ Tools' = tools
        /\ pc' = [pc EXCEPT ![d] = "idle"]
        /\ firm' = IF \A e \in Discovery \ {d} : pc[e] = "idle"
                   THEN firm \cup {n \in Node : <<n, node[n]>> \in tools} ELSE firm
    BY <1>3 DEF Proceed
  <2>2. OfferedToolsStay'
    BY <1>1, <1>2, <1>3, <2>1 DEF OfferedToolsStay
  <2>3. ASSUME NEW e \in Discovery, pc'[e] = "reading" PROVE Knows(e)'
    <3>1. e # d /\ pc[e] = "reading"
      BY <2>1, <2>3 DEF TypeOK
    <3>2. firm' = firm
      BY <2>1, <3>1
    <3>3. Knows(e)
      BY <3>1 DEF Readers
    <3>4. todo'[e] = todo[e] /\ found'[e] = found[e] /\ steady'[e] = steady[e] /\ seen'[e] = seen[e]
      BY <1>1, <3>1 DEF TypeOK
    <3> QED
      BY <1>1, <3>2, <3>3, <3>4 DEF Knows
  <2> QED
    BY <2>2, <2>3 DEF Readers
<1>4. CASE rest # {}
  <2>1. pc' = [pc EXCEPT ![d] = "reading"] /\ UNCHANGED <<Tools, firm>>
    BY <1>4 DEF Proceed
  <2>2. OfferedToolsStay'
    BY <1>1, <2>1 DEF OfferedToolsStay, Readers
  <2>3. ASSUME NEW e \in Discovery, pc'[e] = "reading" PROVE Knows(e)'
    <3>1. CASE e = d
      <4>1. todo'[d] = rest /\ found'[d] = tools
        BY <1>1 DEF TypeOK
      <4> QED
        BY <1>1, <2>1, <3>1, <4>1 DEF Knows
    <3>2. CASE e # d
      <4>1. Knows(e)
        BY <2>1, <2>3, <3>2 DEF Readers, TypeOK
      <4>2. todo'[e] = todo[e] /\ found'[e] = found[e] /\ steady'[e] = steady[e] /\ seen'[e] = seen[e]
        BY <1>1, <3>2 DEF TypeOK
      <4> QED
        BY <1>1, <2>1, <4>1, <4>2 DEF Knows
    <3> QED
      BY <3>1, <3>2
  <2> QED
    BY <2>2, <2>3 DEF Readers
<1> QED
  BY <1>3, <1>4

\* Listing and reading, in the terms of ProceedKnows.
LEMMA ListingProceeds ==
  ASSUME TypeOK, Readers, NEW d \in Discovery, ListNodes(d), base
  PROVE  \E rest \in SUBSET Node :
           /\ Proceed(d, rest, {})
           /\ steady'[d] = Node /\ seen'[d] = Advertised
           /\ \A e \in Discovery \ {d} : steady'[e] = steady[e] /\ seen'[e] = seen[e]
           /\ \A n \in Node : node[n] \in Valid => n \in rest
<1>1. \A n \in Node : node[n] \in Valid => n \in There
  BY DEF Valid, There
<1>2. Proceed(d, There, {}) /\ There \in SUBSET Node
  BY DEF ListNodes, There
<1>3. /\ steady'[d] = Node /\ seen'[d] = Advertised
      /\ \A e \in Discovery \ {d} : steady'[e] = steady[e] /\ seen'[e] = seen[e]
  BY DEF ListNodes, TypeOK
<1> QED
  BY <1>1, <1>2, <1>3

LEMMA ReadingProceeds ==
  ASSUME TypeOK, Readers, NEW d \in Discovery, NEW n \in Node, ReadTool(d, n)
  PROVE  \E rest \in SUBSET Node, tools \in SUBSET (Node \X Valid) :
           /\ Proceed(d, rest, tools)
           /\ UNCHANGED <<steady, seen>>
           /\ tools \subseteq seen[d] /\ Advertised \subseteq seen[d]
           /\ \A m \in steady[d] \cup firm :
                node[m] \in Valid => m \in rest \/ <<m, node[m]>> \in tools
<1> DEFINE rest == todo[d] \ {n}
           tools == IF node[n] \in Valid THEN found[d] \cup {<<n, node[n]>>} ELSE found[d]
<1>1. Proceed(d, rest, tools) /\ UNCHANGED <<steady, seen>> /\ Knows(d)
  BY DEF ReadTool, Readers
<1>2. rest \in SUBSET Node /\ tools \in SUBSET (Node \X Valid)
  BY DEF TypeOK
<1>3. node[n] \in Valid => <<n, node[n]>> \in Advertised
  BY DEF Advertised
<1>4. tools \subseteq seen[d] /\ Advertised \subseteq seen[d]
  BY <1>1, <1>3 DEF Knows
<1>5. \A m \in steady[d] \cup firm :
        node[m] \in Valid => m \in rest \/ <<m, node[m]>> \in tools
  BY <1>1 DEF Knows
<1> HIDE DEF rest, tools
<1> QED
  BY <1>1, <1>2, <1>4, <1>5

LEMMA ReadersStep == TypeOK /\ Readers /\ [Next]_vars => Readers'
<1> SUFFICES ASSUME TypeOK, Readers, [Next]_vars PROVE Readers'
  OBVIOUS
<1>0. TypeOK'
  BY TypeStep
<1>1. ASSUME NEW n \in Node, NEW c \in Advertisable, Change(n, c) PROVE Readers'
  <2>1. /\ firm' = firm \ {n} /\ UNCHANGED <<Tools, pc, todo, found>>
        /\ \A m \in Node \ {n} : node'[m] = node[m]
        /\ node'[n] = c
    BY <1>1 DEF Change, local, TypeOK
  <2>2. OfferedToolsStay'
    BY <2>1 DEF Readers, OfferedToolsStay, TypeOK
  <2>3. ASSUME NEW d \in Discovery, pc'[d] = "reading" PROVE Knows(d)'
    <3>1. Knows(d)
      BY <2>1, <2>3 DEF Readers
    <3>2. /\ steady'[d] = steady[d] \ {n}
          /\ seen'[d] = IF c \in Valid THEN seen[d] \cup {<<n, c>>} ELSE seen[d]
      BY <1>1 DEF Change, TypeOK
    <3>3. Advertised' \subseteq seen'[d]
      BY <2>1, <3>1, <3>2 DEF Knows, Advertised
    <3>4. steady[d] \cup firm \subseteq Node
      BY DEF TypeOK
    <3> QED
      BY <2>1, <3>1, <3>2, <3>3, <3>4 DEF Knows
  <2> QED
    BY <2>2, <2>3 DEF Readers
<1>2. CASE ConnectionChanges
  BY <1>2 DEF ConnectionChanges, Readers, OfferedToolsStay, Knows, Advertised, local
<1>3. ASSUME NEW d \in Discovery, Discover(d) PROVE Readers'
  <2>1. \A e \in Discovery : pc'[e] = "reading" => pc[e] = "reading"
    BY <1>3 DEF Discover, TypeOK
  <2> QED
    BY <1>3, <2>1 DEF Discover, Readers, OfferedToolsStay, Knows, Advertised, external
<1>4. ASSUME NEW d \in Discovery, ListNodes(d), base PROVE Readers'
  <2>1. PICK rest \in SUBSET Node :
           /\ Proceed(d, rest, {})
           /\ steady'[d] = Node /\ seen'[d] = Advertised
           /\ \A e \in Discovery \ {d} : steady'[e] = steady[e] /\ seen'[e] = seen[e]
           /\ \A n \in Node : node[n] \in Valid => n \in rest
    BY <1>4, ListingProceeds
  <2>2. steady' \in [Discovery -> SUBSET Node] /\ firm \subseteq Node
    BY <1>0 DEF TypeOK
  <2> QED
    BY <2>1, <2>2, ProceedKnows
<1>5. ASSUME NEW d \in Discovery, NEW n \in Node, ReadTool(d, n) PROVE Readers'
  <2>1. PICK rest \in SUBSET Node, tools \in SUBSET (Node \X Valid) :
           /\ Proceed(d, rest, tools)
           /\ UNCHANGED <<steady, seen>>
           /\ tools \subseteq seen[d] /\ Advertised \subseteq seen[d]
           /\ \A m \in steady[d] \cup firm :
                node[m] \in Valid => m \in rest \/ <<m, node[m]>> \in tools
    BY <1>5, ReadingProceeds
  <2>2. steady' \in [Discovery -> SUBSET Node]
    BY <1>0 DEF TypeOK
  <2> QED
    BY <2>1, <2>2, ProceedKnows
<1>6. ASSUME NEW d \in Discovery, DiscoveryRaises(d) \/ (ListNodes(d) /\ ~base) PROVE Readers'
  <2>1. GivesUp(d) /\ \A e \in Discovery \ {d} : steady'[e] = steady[e] /\ seen'[e] = seen[e]
    BY <1>6 DEF DiscoveryRaises, ListNodes, TypeOK
  <2>2. /\ \A e \in Discovery : pc'[e] = "reading" =>
             /\ pc[e] = "reading" /\ todo'[e] = todo[e] /\ found'[e] = found[e]
             /\ steady'[e] = steady[e] /\ seen'[e] = seen[e]
        /\ UNCHANGED <<node, Tools, firm>>
    BY <2>1 DEF GivesUp, TypeOK, external
  <2> QED
    BY <2>2 DEF Readers, OfferedToolsStay, Knows, Advertised
<1>7. CASE RemoveBase \/ UNCHANGED vars
  BY <1>7 DEF RemoveBase, vars, external, local, Readers, OfferedToolsStay, Knows, Advertised
<1> QED
  BY <1>1, <1>2, <1>3, <1>4, <1>5, <1>6, <1>7 DEF Next, DiscoveryStep

LEMMA ReadersCorrect == Spec => [](TypeOK /\ Readers)
BY TypeInit, TypeStep, ReadersInit, ReadersStep, PTL DEF Spec

\* A tool on offer stays on offer until its microservice changes it, however
\* discoveries, failures of them and the connection interleave, provided no
\* other discovery was under way when it was published.
THEOREM OfferStays == Spec => []OfferedToolsStay
BY ReadersCorrect, PTL DEF Readers

LEMMA PublishStep ==
  ASSUME TypeOK, Readers, [Next]_vars, NEW d \in Discovery,
         pc[d] # "idle", pc'[d] = "idle", Tools' # Tools
  PROVE  /\ \A n \in steady'[d] : node[n] \in Valid => <<n, node[n]>> \in Tools'
         /\ Tools' \subseteq seen'[d]
<1>1. \E e \in Discovery : (ListNodes(e) /\ base) \/ \E n \in Node : ReadTool(e, n)
  BY DEF Next, DiscoveryStep, Change, RemoveBase, ConnectionChanges, Discover, DiscoveryRaises,
         ListNodes, GivesUp, vars, external, local
<1>2. ASSUME NEW e \in Discovery, NEW rest \in SUBSET Node, NEW tools, Proceed(e, rest, tools)
      PROVE  e = d /\ rest = {} /\ Tools' = tools
  BY <1>2 DEF Proceed, TypeOK
<1>3. ASSUME NEW e \in Discovery, ListNodes(e), base
      PROVE  /\ \A n \in steady'[d] : node[n] \in Valid => <<n, node[n]>> \in Tools'
             /\ Tools' \subseteq seen'[d]
  <2>1. PICK rest \in SUBSET Node :
           /\ Proceed(e, rest, {})
           /\ steady'[e] = Node
           /\ \A n \in Node : node[n] \in Valid => n \in rest
    BY <1>3, ListingProceeds
  <2>2. e = d /\ rest = {} /\ Tools' = {}
    BY <1>2, <2>1
  <2> QED
    BY <2>1, <2>2
<1>4. ASSUME NEW e \in Discovery, NEW n \in Node, ReadTool(e, n)
      PROVE  /\ \A m \in steady'[d] : node[m] \in Valid => <<m, node[m]>> \in Tools'
             /\ Tools' \subseteq seen'[d]
  <2>1. PICK rest \in SUBSET Node, tools \in SUBSET (Node \X Valid) :
           /\ Proceed(e, rest, tools)
           /\ UNCHANGED <<steady, seen>>
           /\ tools \subseteq seen[e]
           /\ \A m \in steady[e] \cup firm :
                node[m] \in Valid => m \in rest \/ <<m, node[m]>> \in tools
    BY <1>4, ReadingProceeds
  <2>2. e = d /\ rest = {} /\ Tools' = tools
    BY <1>2, <2>1
  <2> QED
    BY <2>1, <2>2
<1> QED
  BY <1>1, <1>3, <1>4

\* A list that is published lacks no tool that was there all the while, and
\* holds none that was not there at some time while it was compiled.
THEOREM PublicationIsSound == Spec => PublishesWhatWasThere
<1>1. TypeOK /\ Readers /\ [Next]_vars =>
        [\A d \in Discovery :
           pc[d] # "idle" /\ pc'[d] = "idle" /\ Tools' # Tools =>
             /\ \A n \in steady'[d] : node[n] \in Valid => <<n, node[n]>> \in Tools'
             /\ Tools' \subseteq seen'[d]]_vars
  BY PublishStep
<1> QED
  BY <1>1, ReadersCorrect, PTL DEF Spec, PublishesWhatWasThere

-----------------------------------------------------------------------------
\* While no node changes after a CONNECTED event that found no discovery under
\* way, every discovery reads the same nodes.

ToolsIn(S) == {<<n, node[n]>> : n \in {m \in S : node[m] \in Valid}}

\* What remains to be read is there, and what has been read has been found.
ReadsTheSame(d) ==
  /\ todo[d] \subseteq There
  /\ found[d] = ToolsIn(Node \ todo[d])

NoPoison == \A n \in Node : node[n] # "poison"

Settling ==
  /\ fresh => \A d \in Discovery : pc[d] = "reading" => ReadsTheSame(d)
  /\ RestIsSettled

LEMMA SettlingInit == Init => Settling
BY DEF Init, Settling, RestIsSettled

\* A discovery that proceeds from what is there has read as much of it, and if
\* it ends it publishes all of it.
LEMMA ProceedSettles ==
  ASSUME TypeOK, Settling, NEW d \in Discovery, NEW rest \in SUBSET Node,
         NEW tools \in SUBSET (Node \X Valid), Proceed(d, rest, tools),
         fresh => /\ rest \subseteq There
                  /\ tools = ToolsIn(Node \ rest)
  PROVE  Settling'
<1>1. /\ UNCHANGED <<node, connected, fresh, due>> /\ There' = There
      /\ todo' = [todo EXCEPT ![d] = rest]
      /\ found' = [found EXCEPT ![d] = tools]
      /\ \A e \in Discovery \ {d} : pc'[e] = pc[e]
  BY DEF Proceed, There, external, TypeOK
<1>2. \A S : ToolsIn(S)' = {<<n, node[n]>> : n \in {m \in S : node[m] \in Valid}}
  BY <1>1 DEF ToolsIn
<1>3. ASSUME fresh', NEW e \in Discovery, pc'[e] = "reading" PROVE ReadsTheSame(e)'
  <2>1. CASE e = d
    <3>1. todo'[d] = rest /\ found'[d] = tools
      BY <1>1 DEF TypeOK
    <3> QED
      BY <1>1, <1>3, <2>1, <3>1 DEF ReadsTheSame, ToolsIn
  <2>2. CASE e # d
    <3>1. ReadsTheSame(e) /\ todo'[e] = todo[e] /\ found'[e] = found[e]
      BY <1>1, <1>3, <2>2 DEF Settling, TypeOK
    <3> QED
      BY <1>1, <3>1 DEF ReadsTheSame, ToolsIn
  <2> QED
    BY <2>1, <2>2
<1>4. ASSUME connected', fresh', ~due', Idle', NoPoison' PROVE Tools' = Advertised'
  <2>1. pc'[d] = "idle"
    BY <1>4 DEF Idle
  <2>2. rest = {} /\ Tools' = tools
    BY <2>1 DEF Proceed, TypeOK
  <2>3. tools = ToolsIn(Node)
    BY <1>1, <1>4, <2>2
  <2> QED
    BY <1>1, <2>2, <2>3 DEF ToolsIn, Advertised
<1> QED
  BY <1>3, <1>4 DEF Settling, RestIsSettled, NoPoison

LEMMA SettlingStep == TypeOK /\ Settling /\ [Next]_vars => Settling'
<1> SUFFICES ASSUME TypeOK, Settling, [Next]_vars PROVE Settling'
  OBVIOUS
<1>1. ASSUME NEW n \in Node, NEW c \in Advertisable, Change(n, c) PROVE Settling'
  BY <1>1 DEF Change, Settling, RestIsSettled
<1>2. CASE ConnectionChanges
  <2>1. CASE fresh
    BY <1>2, <2>1 DEF ConnectionChanges, Settling, RestIsSettled, ReadsTheSame, There, ToolsIn, local, TypeOK
  <2>2. CASE ~fresh
    BY <1>2, <2>2 DEF ConnectionChanges, Settling, RestIsSettled, Idle, local, TypeOK
  <2> QED
    BY <2>1, <2>2
<1>3. ASSUME NEW d \in Discovery, Discover(d) PROVE Settling'
  <2>1. \A e \in Discovery : pc'[e] = "reading" => pc[e] = "reading"
    BY <1>3 DEF Discover, TypeOK
  <2>2. connected => ~Idle'
    BY <1>3 DEF Discover, Idle, TypeOK
  <2> QED
    BY <1>3, <2>1, <2>2 DEF Discover, Settling, RestIsSettled, ReadsTheSame, There, ToolsIn, external
<1>4. ASSUME NEW d \in Discovery, ListNodes(d), base PROVE Settling'
  <2>1. Proceed(d, There, {}) /\ There \in SUBSET Node
    BY <1>4 DEF ListNodes, There
  <2>2. {} = ToolsIn(Node \ There)
    BY DEF ToolsIn, There, Valid
  <2> QED
    BY <2>1, <2>2, ProceedSettles
<1>5. ASSUME NEW d \in Discovery, NEW n \in Node, ReadTool(d, n) PROVE Settling'
  <2> DEFINE rest == todo[d] \ {n}
             tools == IF node[n] \in Valid THEN found[d] \cup {<<n, node[n]>>} ELSE found[d]
  <2>1. Proceed(d, rest, tools) /\ n \in todo[d] /\ pc[d] = "reading"
    BY <1>5 DEF ReadTool
  <2>2. rest \in SUBSET Node /\ tools \in SUBSET (Node \X Valid)
    BY DEF TypeOK
  <2>3. ASSUME fresh
        PROVE  rest \subseteq There /\ tools = ToolsIn(Node \ rest)
    <3>1. ReadsTheSame(d)
      BY <2>1, <2>3 DEF Settling
    <3>2. Node \ rest = (Node \ todo[d]) \cup {n}
      BY <2>1
    <3> QED
      BY <3>1, <3>2 DEF ReadsTheSame, ToolsIn
  <2> HIDE DEF rest, tools
  <2> QED
    BY <2>1, <2>2, <2>3, ProceedSettles
<1>6. ASSUME NEW d \in Discovery, DiscoveryRaises(d) \/ (ListNodes(d) /\ ~base) PROVE Settling'
  <2>1. GivesUp(d)
    BY <1>6 DEF DiscoveryRaises, ListNodes
  <2>2. /\ \A e \in Discovery : pc'[e] = "reading" =>
             pc[e] = "reading" /\ todo'[e] = todo[e] /\ found'[e] = found[e]
        /\ UNCHANGED <<node, base, connected, fresh, due, Tools>>
    BY <2>1 DEF GivesUp, TypeOK, external
  <2>3. ~(connected /\ base /\ fresh /\ NoPoison)
    <3> SUFFICES ASSUME connected, base, fresh, NoPoison PROVE FALSE
      OBVIOUS
    <3>1. pc[d] = "reading" /\ \E n \in todo[d] : node[n] \in {"poison", "absent"}
      BY <1>6 DEF DiscoveryRaises
    <3> QED
      BY <3>1 DEF Settling, ReadsTheSame, NoPoison, There, TypeOK
  <2> QED
    BY <2>2, <2>3 DEF Settling, RestIsSettled, NoPoison, ReadsTheSame, There, ToolsIn
<1>7. CASE RemoveBase \/ UNCHANGED vars
  BY <1>7 DEF RemoveBase, vars, external, local, Settling, RestIsSettled, ReadsTheSame, There,
              ToolsIn, Idle, Advertised
<1> QED
  BY <1>1, <1>2, <1>3, <1>4, <1>5, <1>6, <1>7 DEF Next, DiscoveryStep

\* When discovery has come to rest, no failure of it and no loss of the connection
\* has left an old or a partial list behind: the tools offered are those advertised,
\* if no node has changed since the CONNECTED event that found no discovery under
\* way, the path above the nodes exists and no definition raises.
THEOREM SettledAtRest == Spec => []RestIsSettled
<1>1. Spec => [](TypeOK /\ Settling)
  BY TypeInit, TypeStep, SettlingInit, SettlingStep, PTL DEF Spec
<1> QED
  BY <1>1, PTL DEF Settling

=============================================================================
