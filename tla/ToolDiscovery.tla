--------------------------- MODULE ToolDiscovery ---------------------------
(***************************************************************************)
(* tool/provider/zookeeper.py: microservices advertise tools as nodes of   *)
(* ZooKeeper; discover() lists the nodes, reads them one by one and then   *)
(* replaces the list of tools.  The CONNECTED event and initialize() each  *)
(* start a discovery, and so does the tick the provider subscribes to, if  *)
(* anyone publishes it; nothing keeps two discoveries apart.               *)
(***************************************************************************)
EXTENDS Naturals, FiniteSets

CONSTANTS
  Node,         \* the nodes under /asab/llm/tool
  Discovery,    \* discoveries that may run at the same time
  Faulty,       \* contents without a tool that a microservice may advertise
  MaxChanges    \* bound: changes that microservices make

ASSUME FaultyContents == Faulty \subseteq {"invalid", "poison"}
ASSUME ChangesBounded == MaxChanges \in Nat

\* A node holds one of two versions of a tool; "invalid": a definition that is
\* skipped with a warning; "poison": one whose function_call raises.
Valid == {"v1", "v2"}
Content == Valid \cup {"invalid", "poison", "absent"}
Advertisable == Valid \cup {"absent"} \cup Faulty

VARIABLES
  node,        \* what each node holds
  base,        \* whether the path above the nodes, /asab/llm/tool, exists
  connected,   \* zk.Client.connected
  changes,     \* changes made so far
  due,         \* initialize() or a CONNECTED event has yet to call discover()
  Tools,       \* self.Tools: the tools offered, as <<node, version>>
  pc,          \* "idle", "listing" or "reading", per discovery
  todo,        \* nodes listed and not yet read
  found,       \* tools read so far
  steady,      \* history: nodes that have not changed since the listing
  seen,        \* history: tools advertised at some time since the listing
  fresh,       \* history: no node has changed since a CONNECTED event that found
               \* no discovery under way
  firm         \* history: nodes that have not changed since their tool was
               \* published while no other discovery was under way

local == <<pc, todo, found>>
external == <<node, base, connected, changes, fresh>>
vars == <<external, due, Tools, local, steady, seen, firm>>

Idle == \A d \in Discovery : pc[d] = "idle"

There == {n \in Node : node[n] # "absent"}

Advertised == {<<n, node[n]>> : n \in {m \in Node : node[m] \in Valid}}

Init ==
  /\ node \in [Node -> Advertisable]
  /\ base \in BOOLEAN /\ (There # {} => base)
  /\ connected = FALSE
  /\ changes = 0
  /\ due = TRUE
  /\ Tools = {}
  /\ pc = [d \in Discovery |-> "idle"]
  /\ todo = [d \in Discovery |-> {}]
  /\ found = [d \in Discovery |-> {}]
  /\ steady = [d \in Discovery |-> {}]
  /\ seen = [d \in Discovery |-> {}]
  /\ fresh = TRUE
  /\ firm = {}

-----------------------------------------------------------------------------
\* ZooKeeper and the microservices.

Change(n, c) ==
  /\ changes < MaxChanges /\ node[n] # c
  /\ changes' = changes + 1
  /\ node' = [node EXCEPT ![n] = c]
  /\ base' = (base \/ c # "absent")
  /\ steady' = [d \in Discovery |-> steady[d] \ {n}]
  /\ seen' = [d \in Discovery |-> IF c \in Valid THEN seen[d] \cup {<<n, c>>} ELSE seen[d]]
  /\ fresh' = FALSE
  /\ firm' = firm \ {n}
  /\ UNCHANGED <<connected, due, Tools, local>>

\* The path goes too, once no node is left under it.
RemoveBase ==
  /\ base /\ There = {}
  /\ base' = FALSE
  /\ UNCHANGED <<node, connected, changes, fresh, due, Tools, local, steady, seen, firm>>

\* A connection that is established publishes ZooKeeperContainer.state/CONNECTED!
ConnectionChanges ==
  /\ connected' = ~connected
  /\ due' = (due \/ connected')
  /\ fresh' = (fresh \/ (connected' /\ Idle))
  /\ UNCHANGED <<node, base, changes, Tools, local, steady, seen, firm>>

-----------------------------------------------------------------------------
\* discover().

\* Called by initialize() and for the event, never by the tick: asab publishes
\* "Application.tick/10!", not "application.tick/10!".  It returns at once while
\* not connected.
Discover(d) ==
  /\ pc[d] = "idle" /\ due
  /\ due' = FALSE
  /\ pc' = [pc EXCEPT ![d] = IF connected THEN "listing" ELSE "idle"]
  /\ UNCHANGED <<external, Tools, todo, found, steady, seen, firm>>

\* The loop goes on with the nodes in rest, or ends and publishes the tools.
Proceed(d, rest, tools) ==
  /\ todo' = [todo EXCEPT ![d] = rest]
  /\ found' = [found EXCEPT ![d] = tools]
  /\ IF rest = {} THEN /\ Tools' = tools
                       /\ pc' = [pc EXCEPT ![d] = "idle"]
                       /\ firm' = IF \A e \in Discovery \ {d} : pc[e] = "idle"
                                  THEN firm \cup {n \in Node : <<n, node[n]>> \in tools}
                                  ELSE firm
                  ELSE /\ pc' = [pc EXCEPT ![d] = "reading"]
                       /\ UNCHANGED <<Tools, firm>>
  /\ UNCHANGED <<external, due>>

\* The discovery ends and publishes nothing.
GivesUp(d) ==
  /\ pc' = [pc EXCEPT ![d] = "idle"]
  /\ todo' = [todo EXCEPT ![d] = {}]
  /\ found' = [found EXCEPT ![d] = {}]
  /\ UNCHANGED <<external, due, Tools, firm>>

\* Defect: an empty listing is taken for a missing one.
ListNodesNotEmpty(d) ==
  /\ pc[d] = "listing" /\ connected
  /\ IF There # {} THEN Proceed(d, There, {}) ELSE GivesUp(d)
  /\ steady' = [steady EXCEPT ![d] = Node]
  /\ seen' = [seen EXCEPT ![d] = Advertised]

\* get_children(): None if the path does not exist.
ListNodes(d) ==
  /\ pc[d] = "listing" /\ connected
  /\ IF base THEN Proceed(d, There, {}) ELSE GivesUp(d)
  /\ steady' = [steady EXCEPT ![d] = Node]
  /\ seen' = [seen EXCEPT ![d] = Advertised]

\* Defect: definitions are not validated.
ReadAnything(d, n) ==
  /\ pc[d] = "reading" /\ n \in todo[d] /\ connected
  /\ Proceed(d, todo[d] \ {n}, found[d] \cup {<<n, node[n]>>})
  /\ UNCHANGED <<steady, seen>>

\* _discover_tool(): a definition that is invalid or gone is skipped.
ReadTool(d, n) ==
  /\ pc[d] = "reading" /\ n \in todo[d] /\ connected
  /\ node[n] # "poison"
  /\ Proceed(d, todo[d] \ {n},
             IF node[n] \in Valid THEN found[d] \cup {<<n, node[n]>>} ELSE found[d])
  /\ UNCHANGED <<steady, seen>>

\* Defect: what has been read before an exception is published.
RaisesAndPublishes(d) ==
  /\ pc[d] = "reading" /\ \E n \in todo[d] : node[n] = "absent"
  /\ Proceed(d, {}, found[d])
  /\ UNCHANGED <<steady, seen>>

\* An exception ends the discovery: FunctionCallRest() is built outside the try,
\* and ZooKeeper may fail a request for a node that is gone, or any request
\* once the connection is lost.
DiscoveryRaises(d) ==
  /\ \/ pc[d] = "reading" /\ \E n \in todo[d] : node[n] \in {"poison", "absent"}
     \/ pc[d] # "idle" /\ ~connected
  /\ GivesUp(d)
  /\ UNCHANGED <<steady, seen>>

-----------------------------------------------------------------------------
DiscoveryStep(d) ==
  ListNodes(d) \/ DiscoveryRaises(d) \/ \E n \in Node : ReadTool(d, n)

Next ==
  \/ \E n \in Node, c \in Advertisable : Change(n, c)
  \/ RemoveBase
  \/ ConnectionChanges
  \/ \E d \in Discovery : Discover(d) \/ DiscoveryStep(d)

Spec == Init /\ [][Next]_vars

\* An event calls discover() in the end; a discovery that has started runs.
Fairness ==
  /\ WF_vars(\E d \in Discovery : Discover(d))
  /\ \A d \in Discovery : WF_vars(DiscoveryStep(d))

LiveSpec == Spec /\ Fairness

-----------------------------------------------------------------------------
TypeOK ==
  /\ node \in [Node -> Content] /\ base \in BOOLEAN
  /\ connected \in BOOLEAN
  /\ changes \in 0..MaxChanges
  /\ due \in BOOLEAN
  /\ Tools \subseteq Node \X Valid
  /\ pc \in [Discovery -> {"idle", "listing", "reading"}]
  /\ todo \in [Discovery -> SUBSET Node]
  /\ found \in [Discovery -> SUBSET (Node \X Valid)]
  /\ steady \in [Discovery -> SUBSET Node]
  /\ seen \in [Discovery -> SUBSET (Node \X Valid)]
  /\ fresh \in BOOLEAN
  /\ firm \subseteq Node

\* A discovery publishes what was there: every tool that stayed as it was from
\* the listing to the publication, and none that was not advertised in between.
\* The nodes are read at different times, and the list is replaced as a whole.
PublishesWhatWasThere ==
  [][\A d \in Discovery :
       pc[d] # "idle" /\ pc'[d] = "idle" /\ Tools' # Tools =>
         /\ \A n \in steady'[d] : node[n] \in Valid => <<n, node[n]>> \in Tools'
         /\ Tools' \subseteq seen'[d]]_vars

\* A microservice that was there when the connection came is picked up, and one
\* that had gone is dropped: the CONNECTED event after which no node changes
\* settles the tools, unless a discovery from before it is still under way, a
\* definition raises, or the path above the nodes is missing: then the list stays
\* as it was, whatever is on it.
SettlesOnceConnected ==
  <>[](connected /\ base /\ fresh /\ \A n \in Node : node[n] # "poison")
    => <>[](Tools = Advertised)

\* At rest, the list is not one that a failure or a slow discovery left behind:
\* when no event waits and no discovery is under way, the tools offered are those
\* advertised, under the same conditions.
RestIsSettled ==
  connected /\ base /\ fresh /\ ~due /\ Idle /\ (\A n \in Node : node[n] # "poison")
    => Tools = Advertised

\* A tool that has been offered stays on offer until its microservice changes
\* it: a conversation remembers it (create_conversation) and execute() looks it
\* up in the list of the moment, so a later list must not lack it.  Not so when
\* another discovery was under way: it will publish what it saw before.
OfferedToolsStay == \A n \in firm : <<n, node[n]>> \in Tools

=============================================================================
