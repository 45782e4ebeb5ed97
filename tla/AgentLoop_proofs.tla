-------------------------- MODULE AgentLoop_proofs --------------------------
(***************************************************************************)
(* Proofs about AgentLoop for every set of turns, calls and clients, every *)
(* set of flaky clients and every semaphore capacity.                      *)
(***************************************************************************)
EXTENDS AgentLoop, FiniteSetTheorems, SequenceTheorems, TLAPS

-----------------------------------------------------------------------------
\* The count of a tasks.updated event is a number, and 0 only at rest.

LEMMA CountProperties ==
  ASSUME NEW ts \in SUBSET Task, NEW break \in BOOLEAN
  PROVE  /\ Count(ts, break) \in Nat
         /\ ts # {} => Count(ts, break) > 0
         /\ ts = {} /\ break => Count(ts, break) = 0
<1>1. IsFiniteSet(ts)
  BY IdsFinite, FS_Subset DEF Task, Turn
<1>2. Cardinality(ts) \in Nat /\ (ts = {} <=> Cardinality(ts) = 0)
  BY <1>1, FS_CardinalityType, FS_EmptySet
<1> QED
  BY <1>2 DEF Count

\* The three kinds of identifiers do not overlap.
LEMMA Kinds ==
  /\ \A t \in Turn : t \in Task /\ t \in Proc /\ t \notin Call /\ t \notin Client
  /\ \A c \in Call : c \in Task /\ c \in Proc /\ c \notin Turn /\ c \notin Client
  /\ \A w \in Client : w \in Proc /\ w \notin Task
  /\ \A t \in UserTurn : t \in Turn /\ t \notin LoopTurn
  /\ \A t \in LoopTurn : t \in Turn
BY TurnsDisjoint DEF Task, Turn, Proc

LEMMA TaskKinds ==
  /\ \A k \in Task : k \in Proc /\ k \notin Client
  /\ \A w \in Client : w \in Proc /\ w \notin Task
  /\ Turn \subseteq Task /\ Call \subseteq Task
BY TurnsDisjoint DEF Task, Turn, Proc

\* One coroutine moves and starts another: the types of pc are kept.
LEMMA ForkType ==
  ASSUME TypeOK, NEW j \in Task, NEW k \in Task, j # k, NEW where,
         pc' = [pc EXCEPT ![j] = where, ![k] = "ready"],
         where \in TurnPC \cap CallPC \/ (j \in Turn /\ where \in TurnPC)
  PROVE  /\ pc' \in [Proc -> TurnPC \cup CallPC \cup ClientPC]
         /\ \A t \in Turn : pc'[t] \in TurnPC
         /\ \A c \in Call : pc'[c] \in CallPC
         /\ \A w \in Client : pc'[w] \in ClientPC
<1>1. /\ "ready" \in TurnPC \cap CallPC
      /\ pc' \in [Proc -> TurnPC \cup CallPC \cup ClientPC]
  BY DEF TypeOK, TurnPC, CallPC
<1>2. /\ pc'[k] = "ready" /\ pc'[j] = where
      /\ \A p \in Proc : p # j /\ p # k => pc'[p] = pc[p]
  BY Kinds DEF TypeOK, Task
<1>3. /\ \A t \in Turn : pc[t] \in TurnPC
      /\ \A c \in Call : pc[c] \in CallPC
      /\ \A w \in Client : pc[w] \in ClientPC
  BY DEF TypeOK
<1> QED
  BY <1>1, <1>2, <1>3, Kinds

-----------------------------------------------------------------------------
\* Types.

LEMMA TypeInit == Init => TypeOK
<1> SUFFICES ASSUME Init PROVE TypeOK
  OBVIOUS
<1>1. exchanges \in Seq(Turn)
  BY EmptySeq DEF Init
<1>2. /\ pc \in [Proc -> {"out", "none"}]
      /\ \A w \in Client : pc[w] = "out"
      /\ \A k \in Task : pc[k] = "none"
  BY Kinds DEF Init, Proc
<1>3. /\ pc \in [Proc -> TurnPC \cup CallPC \cup ClientPC]
      /\ \A t \in Turn : pc[t] \in TurnPC
      /\ \A c \in Call : pc[c] \in CallPC
      /\ \A w \in Client : pc[w] \in ClientPC
  BY <1>2 DEF Task, TurnPC, CallPC, ClientPC
<1> QED
  BY <1>1, <1>3 DEF Init, TypeOK, Status

LEMMA TypeStep == TypeOK /\ [Next]_vars => TypeOK'
<1> SUFFICES ASSUME TypeOK, [Next]_vars
             PROVE  TypeOK'
  OBVIOUS
<1> USE DEF TurnPC, CallPC, ClientPC, Status
<1>1. ASSUME NEW t \in Turn, StartChat(t)
      PROVE  TypeOK'
  BY <1>1, Kinds DEF TypeOK, StartChat, Goto, BeginRequest, Unfinished, Proc, Task
<1>2. ASSUME NEW t \in Turn, Acquire(t)
      PROVE  TypeOK'
  BY <1>2, Kinds DEF TypeOK, Acquire, Goto, BeginRequest, Unfinished, Proc, Task
<1>3. ASSUME NEW t \in Turn, StreamText(t)
      PROVE  TypeOK'
  BY <1>3, Kinds DEF TypeOK, StreamText, Goto, Sends, Proc, Task
<1>4. ASSUME NEW t \in Turn, Emitted(t)
      PROVE  TypeOK'
  BY <1>4, Kinds DEF TypeOK, Emitted, Goto, Sends, Proc, Task
<1>5. ASSUME NEW t \in Turn, StreamEnds(t)
      PROVE  TypeOK'
  BY <1>5, Kinds DEF TypeOK, StreamEnds, Goto, Sends, Proc, Task
<1>6. ASSUME NEW t \in Turn, TurnRaises(t)
      PROVE  TypeOK'
  BY <1>6, Kinds DEF TypeOK, TurnRaises, Goto, Sends, Proc, Task
<1>7. ASSUME NEW t \in Turn, NEW c \in Call, StreamCall(t, c)
      PROVE  TypeOK'
  BY <1>7, Kinds DEF TypeOK, StreamCall, Goto, Sends, Proc, Task
<1>8. ASSUME NEW t \in Turn, NEW c \in Call, StreamCallDone(t, c)
      PROVE  TypeOK'
  BY <1>8, Kinds DEF TypeOK, StreamCallDone, Goto, Sends, Proc, Task
<1>9. ASSUME NEW t \in Turn, NEW c \in Call, LaunchCall(t, c)
      PROVE  TypeOK'
  <2>1. /\ pc' \in [Proc -> TurnPC \cup CallPC \cup ClientPC]
        /\ \A u \in Turn : pc'[u] \in TurnPC
        /\ \A d \in Call : pc'[d] \in CallPC
        /\ \A w \in Client : pc'[w] \in ClientPC
    BY <1>9, Kinds, ForkType DEF LaunchCall
  <2>2. tasks \cup {c} \in SUBSET Task /\ loop_break \in BOOLEAN
    BY Kinds DEF TypeOK
  <2>3. tasks' \subseteq Task /\ told' \in [Client -> {"nothing", "rest", "busy"}]
    BY <1>9, <2>2 DEF TypeOK, LaunchCall, Scheduled, Broadcast
  <2>4. thrown' \subseteq Proc /\ sound' \in BOOLEAN
    BY <1>9, Kinds DEF TypeOK, LaunchCall, Sends
  <2> QED
    BY <1>9, <2>1, <2>3, <2>4 DEF TypeOK, LaunchCall
<1>10. ASSUME NEW c \in Call, StartCall(c)
      PROVE  TypeOK'
  BY <1>10, Kinds DEF TypeOK, StartCall, Goto, Sends, Proc, Task
<1>11. ASSUME NEW c \in Call, CallProceeds(c)
      PROVE  TypeOK'
  BY <1>11, Kinds DEF TypeOK, CallProceeds, Goto, Sends, Proc, Task
<1>12. ASSUME NEW c \in Call, ToolYields(c)
      PROVE  TypeOK'
  BY <1>12, Kinds DEF TypeOK, ToolYields, Goto, Sends, Proc, Task
<1>13. ASSUME NEW c \in Call, ToolFails(c)
      PROVE  TypeOK'
  BY <1>13, Kinds DEF TypeOK, ToolFails, Goto, Sends, Proc, Task
<1>14. ASSUME NEW c \in Call, ToolReturns(c)
      PROVE  TypeOK'
  BY <1>14, Kinds DEF TypeOK, ToolReturns, Finalize, Goto, Sends, Proc, Task
<1>15. ASSUME NEW c \in Call, ProgressSent(c)
      PROVE  TypeOK'
  <2>1. CASE Finalize(c)
    BY <1>15, <2>1, Kinds DEF TypeOK, ProgressSent, Finalize, Goto, Sends, Proc, Task
  <2>2. CASE status[c] = "executing"
    BY <1>15, <2>2, Kinds DEF TypeOK, ProgressSent, Goto, Proc, Task
  <2> QED
    BY <1>15, <2>1, <2>2 DEF ProgressSent
<1>16. ASSUME NEW c \in Call, CallRaises(c)
      PROVE  TypeOK'
  <2>1. CASE Finalize(c)
    BY <2>1, Kinds DEF TypeOK, Finalize, Goto, Sends, Proc, Task
  <2>2. CASE ~Finalize(c)
    BY <1>16, <2>2, Kinds DEF TypeOK, CallRaises, Goto, Proc, Task
  <2> QED
    BY <2>1, <2>2
<1>17. ASSUME NEW c \in Call, CallFinishes(c)
      PROVE  TypeOK'
  BY <1>17, Kinds DEF TypeOK, CallFinishes, ResultDue, Goto, Proc, Task
<1>18. ASSUME NEW k \in Task, TaskRetires(k)
      PROVE  TypeOK'
  BY <1>18, Kinds DEF TypeOK, TaskRetires, Retired, NotifyLater, Goto, Proc, Task
<1>19. ASSUME NEW k \in Task, NEW t \in LoopTurn, LoopContinues(k, t)
      PROVE  TypeOK'
  <2>1. k # t
    BY <1>19 DEF LoopContinues, LoopTaken, Retired, Fresh
  <2>2. /\ pc' \in [Proc -> TurnPC \cup CallPC \cup ClientPC]
        /\ \A u \in Turn : pc'[u] \in TurnPC
        /\ \A d \in Call : pc'[d] \in CallPC
        /\ \A w \in Client : pc'[w] \in ClientPC
    BY <1>19, <2>1, Kinds, ForkType DEF LoopContinues, LoopTaken
  <2>3. exchanges' \in Seq(Turn)
    BY <1>19, Kinds, AppendProperties DEF TypeOK, LoopContinues, LoopTaken
  <2>4. tasks' \subseteq Task /\ notify' \in Nat
    BY <1>19, Kinds DEF TypeOK, LoopContinues, LoopTaken, NotifyLater
  <2> QED
    BY <1>19, <2>2, <2>3, <2>4 DEF TypeOK, LoopContinues, LoopTaken
<1>20. ASSUME NotifyTasks
      PROVE  TypeOK'
  BY <1>20 DEF TypeOK, NotifyTasks, Broadcast
<1>21. ASSUME NEW w \in Client, Connect(w)
      PROVE  TypeOK'
  BY <1>21, Kinds DEF TypeOK, Connect, Goto, Proc, Task
<1>22. ASSUME NEW w \in Client, Break(w)
      PROVE  TypeOK'
  BY <1>22, Kinds DEF TypeOK, Break, Proc, Task
<1>23. ASSUME NEW w \in Client, Leave(w)
      PROVE  TypeOK'
  BY <1>23, Kinds DEF TypeOK, Leave, Depart, Goto, Proc, Task
<1>24. ASSUME NEW w \in Client, RestartFails(w)
      PROVE  TypeOK'
  BY <1>24, Kinds DEF TypeOK, RestartFails, Close, Goto, Proc, Task
<1>25. ASSUME NEW w \in Client, HandlerRaises(w)
      PROVE  TypeOK'
  BY <1>25, Kinds DEF TypeOK, HandlerRaises, Close, Goto, Proc, Task
<1>26. ASSUME NEW w \in Client, PostServed(w)
      PROVE  TypeOK'
  BY <1>26, Kinds DEF TypeOK, PostServed, Goto, Proc, Task
<1>27. ASSUME NEW w \in Client, NEW t \in UserTurn, Post(w, t)
      PROVE  TypeOK'
  BY <1>27, Kinds, AppendProperties DEF TypeOK, Post, Goto, Sends, Proc, Task
<1>28. ASSUME NEW w \in Client, NEW t \in UserTurn, Posted(w, t)
      PROVE  TypeOK'
  <2>1. tasks' \subseteq Task /\ told' \in [Client -> {"nothing", "rest", "busy"}]
    BY <1>28, Kinds DEF TypeOK, Posted, Scheduled, Broadcast
  <2> QED
    BY <1>28, <2>1, Kinds DEF TypeOK, Posted, Sends, Proc, Task
<1>29. ASSUME NEW w \in Client, Stop(w)
      PROVE  TypeOK'
  BY <1>29, Kinds DEF TypeOK, Stop, CancelAll, StopLoop, Proc, Task
<1>30. ASSUME NEW w \in Client, NEW r \in Turn, Restart(w, r)
      PROVE  TypeOK'
  BY <1>30, Kinds, SubSeqProperties DEF TypeOK, Restart, Proc, Task
<1>31. ASSUME NEW w \in Client, Closed(w)
      PROVE  TypeOK'
  BY <1>31, Kinds DEF TypeOK, Closed, Depart, Goto, Proc, Task
<1>32. CASE UNCHANGED vars
  BY <1>32 DEF TypeOK, vars
<1> QED
  BY <1>1, <1>2, <1>3, <1>4, <1>5, <1>6, <1>7, <1>8, <1>9, <1>10, <1>11,
     <1>12, <1>13, <1>14, <1>15, <1>16, <1>17, <1>18, <1>19, <1>20, <1>21,
     <1>22, <1>23, <1>24, <1>25, <1>26, <1>27, <1>28, <1>29, <1>30, <1>31,
     <1>32
     DEF Next, TurnStep, ModelSays, CallStep, ToolStep, DoneCallback, HandlerStep,
         ClientActs

\* Every reachable state is well typed.
THEOREM TypeCorrect == Spec => []TypeOK
<1>1. Init => TypeOK
  BY TypeInit
<1>2. TypeOK /\ [Next]_vars => TypeOK'
  BY TypeStep
<1> QED
  BY <1>1, <1>2, PTL DEF Spec

-----------------------------------------------------------------------------
\* The task registry: conversation.tasks holds exactly the tasks that have been
\* created and whose callback has not run; a message being posted has no task
\* yet and is held by one handler only.

Registered == \A k \in Task : k \in tasks <=> pc[k] \notin {"none", "gone"}

Drafted ==
  \A w \in Client : \A t \in draft[w] :
    /\ pc[t] = "none" /\ items[t] # {}
    /\ \A v \in Client : v # w => t \notin draft[v]

Registry == Registered /\ Drafted

LEMMA RegistryInit == Init => Registry
<1> SUFFICES ASSUME Init PROVE Registry
  OBVIOUS
<1>1. \A k \in Task : pc[k] = "none"
  BY Kinds DEF Init, Proc
<1> QED
  BY <1>1 DEF Init, Registry, Registered, Drafted

\* A task that moves on stays registered.
LEMMA MoveRegistry ==
  ASSUME TypeOK, Registry, NEW k \in Task,
         pc[k] \notin {"none", "gone"},
         \E where \in (TurnPC \cup CallPC) \ {"none", "gone"} : Goto(k, where),
         UNCHANGED <<tasks, draft, items>>
  PROVE  Registry'
<1>1. PICK where \in (TurnPC \cup CallPC) \ {"none", "gone"} : Goto(k, where)
  OBVIOUS
<1>2. \A j \in Task : pc'[j] = IF j = k THEN where ELSE pc[j]
  BY <1>1, Kinds DEF TypeOK, Goto, Proc
<1>3. Registered'
  BY <1>1, <1>2 DEF Registry, Registered
<1>4. Drafted'
  BY <1>1, <1>2, Kinds DEF TypeOK, Registry, Drafted
<1> QED
  BY <1>3, <1>4 DEF Registry

LEMMA RegistryStep == TypeOK /\ Registry /\ [Next]_vars => Registry'
<1> SUFFICES ASSUME TypeOK, Registry, [Next]_vars
             PROVE  Registry'
  OBVIOUS
<1>1. ASSUME NEW t \in Turn, StartChat(t)
      PROVE  Registry'
  <2>1. /\ pc[t] \notin {"none", "gone"}
        /\ \E where \in (TurnPC \cup CallPC) \ {"none", "gone"} : Goto(t, where)
        /\ UNCHANGED <<tasks, draft, items>>
    BY <1>1 DEF StartChat, BeginRequest, TurnPC, CallPC
  <2> QED
    BY <2>1, Kinds, MoveRegistry
<1>2. ASSUME NEW t \in Turn, Acquire(t)
      PROVE  Registry'
  <2>1. /\ pc[t] \notin {"none", "gone"}
        /\ \E where \in (TurnPC \cup CallPC) \ {"none", "gone"} : Goto(t, where)
        /\ UNCHANGED <<tasks, draft, items>>
    BY <1>2 DEF Acquire, BeginRequest, TurnPC, CallPC
  <2> QED
    BY <2>1, Kinds, MoveRegistry
<1>3. ASSUME NEW t \in Turn, StreamText(t)
      PROVE  Registry'
  BY <1>3, Kinds DEF TypeOK, Registry, Registered, Drafted, StreamText, Goto
<1>4. ASSUME NEW t \in Turn, Emitted(t)
      PROVE  Registry'
  BY <1>4, Kinds DEF TypeOK, Registry, Registered, Drafted, Emitted, Goto
<1>5. ASSUME NEW t \in Turn, StreamEnds(t)
      PROVE  Registry'
  BY <1>5, Kinds DEF TypeOK, Registry, Registered, Drafted, StreamEnds, Goto
<1>6. ASSUME NEW t \in Turn, TurnRaises(t)
      PROVE  Registry'
  BY <1>6, Kinds DEF TypeOK, Registry, Registered, Drafted, TurnRaises, Goto
<1>7. ASSUME NEW t \in Turn, NEW c \in Call, StreamCall(t, c)
      PROVE  Registry'
  BY <1>7, Kinds DEF TypeOK, Registry, Registered, Drafted, StreamCall, Goto
<1>8. ASSUME NEW t \in Turn, NEW c \in Call, StreamCallDone(t, c)
      PROVE  Registry'
  BY <1>8, Kinds DEF TypeOK, Registry, Registered, Drafted, StreamCallDone, Goto
<1>9. ASSUME NEW t \in Turn, NEW c \in Call, LaunchCall(t, c)
      PROVE  Registry'
  <2>1. /\ pc[t] = "completing" /\ pc[c] = "none" /\ c # t /\ c \in Task
        /\ tasks' = tasks \cup {c}
    BY <1>9, Kinds DEF LaunchCall, Scheduled
  <2>2. \A k \in Task : pc'[k] = IF k = t THEN "emitting" ELSE IF k = c THEN "ready" ELSE pc[k]
    BY <1>9, TaskKinds DEF TypeOK, LaunchCall
  <2>3. Registered'
    BY <2>1, <2>2 DEF Registry, Registered
  <2>4. \A u \in UserTurn : pc[u] = "none" => pc'[u] = "none"
    BY <2>1, <2>2, Kinds
  <2>5. Drafted'
    BY <1>9, <2>4 DEF TypeOK, Registry, Drafted, LaunchCall
  <2> QED
    BY <2>3, <2>5 DEF Registry
<1>10. ASSUME NEW c \in Call, StartCall(c)
      PROVE  Registry'
  BY <1>10, Kinds DEF TypeOK, Registry, Registered, Drafted, StartCall, Goto
<1>11. ASSUME NEW c \in Call, CallProceeds(c)
      PROVE  Registry'
  BY <1>11, Kinds DEF TypeOK, Registry, Registered, Drafted, CallProceeds, Goto
<1>12. ASSUME NEW c \in Call, ToolYields(c)
      PROVE  Registry'
  BY <1>12, Kinds DEF TypeOK, Registry, Registered, Drafted, ToolYields, Goto
<1>13. ASSUME NEW c \in Call, ToolFails(c)
      PROVE  Registry'
  BY <1>13, Kinds DEF TypeOK, Registry, Registered, Drafted, ToolFails, Goto
<1>14. ASSUME NEW c \in Call, ToolReturns(c)
      PROVE  Registry'
  BY <1>14, Kinds DEF TypeOK, Registry, Registered, Drafted, ToolReturns, Finalize, Goto
<1>15. ASSUME NEW c \in Call, ProgressSent(c)
      PROVE  Registry'
  <2>1. /\ pc[c] \notin {"none", "gone"}
        /\ \E where \in (TurnPC \cup CallPC) \ {"none", "gone"} : Goto(c, where)
        /\ UNCHANGED <<tasks, draft, items>>
    BY <1>15 DEF ProgressSent, Finalize, TurnPC, CallPC
  <2> QED
    BY <2>1, Kinds, MoveRegistry
<1>16. ASSUME NEW c \in Call, CallRaises(c)
      PROVE  Registry'
  <2>1. /\ pc[c] \notin {"none", "gone"}
        /\ \E where \in (TurnPC \cup CallPC) \ {"none", "gone"} : Goto(c, where)
        /\ UNCHANGED <<tasks, draft, items>>
    BY <1>16 DEF CallRaises, Finalize, TurnPC, CallPC
  <2> QED
    BY <2>1, Kinds, MoveRegistry
<1>17. ASSUME NEW c \in Call, CallFinishes(c)
      PROVE  Registry'
  BY <1>17, Kinds DEF TypeOK, Registry, Registered, Drafted, CallFinishes, ResultDue, Goto
<1>18. ASSUME NEW k \in Task, TaskRetires(k)
      PROVE  Registry'
  <2>1. pc[k] = "ended" /\ \A j \in Task : pc'[j] = IF j = k THEN "gone" ELSE pc[j]
    BY <1>18, TaskKinds DEF TypeOK, TaskRetires, Retired, Goto
  <2>2. Registered'
    BY <1>18, <2>1 DEF Registry, Registered, TaskRetires
  <2>3. Drafted'
    BY <1>18, <2>1, Kinds DEF TypeOK, Registry, Drafted, TaskRetires
  <2> QED
    BY <2>2, <2>3 DEF Registry
<1>19. ASSUME NEW k \in Task, NEW t \in LoopTurn, LoopContinues(k, t)
      PROVE  Registry'
  <2>1. /\ pc[k] = "ended" /\ pc[t] = "none" /\ items[t] = {} /\ k # t /\ t \in Task
        /\ tasks' = (tasks \ {k}) \cup {t}
    BY <1>19, Kinds DEF LoopContinues, LoopTaken, Retired, Fresh
  <2>2. \A j \in Task : pc'[j] = IF j = k THEN "gone" ELSE IF j = t THEN "ready" ELSE pc[j]
    BY <1>19, <2>1, TaskKinds DEF TypeOK, LoopContinues, LoopTaken
  <2>3. Registered'
    BY <2>1, <2>2 DEF Registry, Registered
  <2>4. Drafted'
    BY <1>19, <2>1, <2>2, Kinds DEF TypeOK, Registry, Drafted, LoopContinues, LoopTaken
  <2> QED
    BY <2>3, <2>4 DEF Registry
<1>20. ASSUME NotifyTasks
      PROVE  Registry'
  BY <1>20, Kinds DEF TypeOK, Registry, Registered, Drafted, NotifyTasks
<1>21. ASSUME NEW w \in Client, Connect(w)
      PROVE  Registry'
  BY <1>21, Kinds DEF TypeOK, Registry, Registered, Drafted, Connect, Goto
<1>22. ASSUME NEW w \in Client, Break(w)
      PROVE  Registry'
  BY <1>22, Kinds DEF TypeOK, Registry, Registered, Drafted, Break
<1>23. ASSUME NEW w \in Client, Leave(w)
      PROVE  Registry'
  BY <1>23, Kinds DEF TypeOK, Registry, Registered, Drafted, Leave, Depart, Goto
<1>24. ASSUME NEW w \in Client, RestartFails(w)
      PROVE  Registry'
  BY <1>24, Kinds DEF TypeOK, Registry, Registered, Drafted, RestartFails, Close, Goto
<1>25. ASSUME NEW w \in Client, HandlerRaises(w)
      PROVE  Registry'
  BY <1>25, Kinds DEF TypeOK, Registry, Registered, Drafted, HandlerRaises, Close, Goto
<1>26. ASSUME NEW w \in Client, PostServed(w)
      PROVE  Registry'
  BY <1>26, Kinds DEF TypeOK, Registry, Registered, Drafted, PostServed, Goto
<1>27. ASSUME NEW w \in Client, NEW t \in UserTurn, Post(w, t)
      PROVE  Registry'
  <2>1. pc[t] = "none" /\ items[t] = {} /\ \A k \in Task : pc'[k] = pc[k]
    BY <1>27, Kinds DEF TypeOK, Post, Fresh, Goto
  <2>2. Registered'
    BY <1>27, <2>1 DEF Registry, Registered, Post
  <2>3. \A v \in Client : t \notin draft[v]
    BY <2>1 DEF Registry, Drafted
  <2>4. \A u \in UserTurn : items'[u] = IF u = t THEN {"user"} ELSE items[u]
    BY <1>27, Kinds DEF TypeOK, Post
  <2>5. \A v \in Client : draft'[v] = IF v = w THEN {t} ELSE draft[v]
    BY <1>27 DEF TypeOK, Post
  <2>6. Drafted'
    <3> SUFFICES ASSUME NEW v \in Client, NEW u \in draft'[v]
                 PROVE  /\ pc'[u] = "none" /\ items'[u] # {}
                        /\ \A x \in Client : x # v => u \notin draft'[x]
      BY DEF Drafted
    <3>1. CASE v = w
      <4>1. u = t
        BY <2>5, <3>1
      <4>2. pc'[t] = "none" /\ items'[t] # {}
        BY <2>1, <2>4, Kinds
      <4>3. \A x \in Client : x # w => t \notin draft'[x]
        BY <2>3, <2>5
      <4> QED
        BY <3>1, <4>1, <4>2, <4>3
    <3>2. CASE v # w
      <4>1. u \in draft[v] /\ u \in UserTurn /\ u # t
        BY <2>3, <2>5, <3>2 DEF TypeOK
      <4>2. /\ pc[u] = "none" /\ items[u] # {}
            /\ \A x \in Client : x # v => u \notin draft[x]
        BY <4>1 DEF Registry, Drafted
      <4>3. pc'[u] = "none" /\ items'[u] # {}
        BY <2>1, <2>4, <4>1, <4>2, Kinds
      <4>4. \A x \in Client : x # v => u \notin draft'[x]
        BY <2>5, <4>1, <4>2
      <4> QED
        BY <4>3, <4>4
    <3> QED
      BY <3>1, <3>2
  <2> QED
    BY <2>2, <2>6 DEF Registry
<1>28. ASSUME NEW w \in Client, NEW t \in UserTurn, Posted(w, t)
      PROVE  Registry'
  <2>1. draft[w] = {t} /\ pc[t] = "none" /\ t \in Task /\ tasks' = tasks \cup {t}
    BY <1>28, Kinds DEF Posted, Scheduled, Registry, Drafted
  <2>2. \A k \in Task : pc'[k] = IF k = t THEN "ready" ELSE pc[k]
    BY <1>28, <2>1, TaskKinds DEF TypeOK, Posted
  <2>3. Registered'
    BY <2>1, <2>2 DEF Registry, Registered
  <2>4. \A v \in Client : draft'[v] = IF v = w THEN {} ELSE draft[v]
    BY <1>28 DEF TypeOK, Posted
  <2>5. Drafted'
    BY <1>28, <2>1, <2>2, <2>4, Kinds DEF TypeOK, Registry, Drafted, Posted
  <2> QED
    BY <2>3, <2>5 DEF Registry
<1>29. ASSUME NEW w \in Client, Stop(w)
      PROVE  Registry'
  BY <1>29, Kinds DEF TypeOK, Registry, Registered, Drafted, Stop, CancelAll, StopLoop
<1>30. ASSUME NEW w \in Client, NEW r \in Turn, Restart(w, r)
      PROVE  Registry'
  BY <1>30, Kinds DEF TypeOK, Registry, Registered, Drafted, Restart
<1>31. ASSUME NEW w \in Client, Closed(w)
      PROVE  Registry'
  BY <1>31, Kinds DEF TypeOK, Registry, Registered, Drafted, Closed, Depart, Goto
<1>32. CASE UNCHANGED vars
  BY <1>32 DEF TypeOK, Registry, Registered, Drafted, vars
<1> QED
  BY <1>1, <1>2, <1>3, <1>4, <1>5, <1>6, <1>7, <1>8, <1>9, <1>10, <1>11,
     <1>12, <1>13, <1>14, <1>15, <1>16, <1>17, <1>18, <1>19, <1>20, <1>21,
     <1>22, <1>23, <1>24, <1>25, <1>26, <1>27, <1>28, <1>29, <1>30, <1>31,
     <1>32
     DEF Next, TurnStep, ModelSays, CallStep, ToolStep, DoneCallback, HandlerStep,
         ClientActs

\* The registry is exact in every reachable state.
THEOREM RegistryCorrect == Spec => []Registry
<1>1. Init => Registry
  BY RegistryInit
<1>2. TypeOK /\ Registry /\ [Next]_vars => Registry'
  BY RegistryStep
<1> QED
  BY <1>1, <1>2, TypeCorrect, PTL DEF Spec

-----------------------------------------------------------------------------
\* Refinement: the conversation takes turns as TurnTaking prescribes.

\* Most steps touch neither the registry nor loop_break.
LEMMA QuietStep ==
  ASSUME UNCHANGED <<tasks, loop_break>>
  PROVE  [TT!Next]_(TT!vars)
BY DEF TT!vars

LEMMA TurnTakingStep == TypeOK /\ Registry /\ [Next]_vars => [TT!Next]_(TT!vars)
<1> SUFFICES ASSUME TypeOK, Registry, [Next]_vars
             PROVE  [TT!Next]_(TT!vars)
  OBVIOUS
<1>1. ASSUME NEW t \in Turn, StartChat(t)
      PROVE  [TT!Next]_(TT!vars)
  BY <1>1, QuietStep DEF StartChat
<1>2. ASSUME NEW t \in Turn, Acquire(t)
      PROVE  [TT!Next]_(TT!vars)
  BY <1>2, QuietStep DEF Acquire
<1>3. ASSUME NEW t \in Turn, StreamText(t)
      PROVE  [TT!Next]_(TT!vars)
  BY <1>3, QuietStep DEF StreamText
<1>4. ASSUME NEW t \in Turn, Emitted(t)
      PROVE  [TT!Next]_(TT!vars)
  BY <1>4, QuietStep DEF Emitted
<1>5. ASSUME NEW t \in Turn, StreamEnds(t)
      PROVE  [TT!Next]_(TT!vars)
  BY <1>5, QuietStep DEF StreamEnds
<1>6. ASSUME NEW t \in Turn, TurnRaises(t)
      PROVE  [TT!Next]_(TT!vars)
  BY <1>6, QuietStep DEF TurnRaises
<1>7. ASSUME NEW t \in Turn, NEW c \in Call, StreamCall(t, c)
      PROVE  [TT!Next]_(TT!vars)
  BY <1>7, QuietStep DEF StreamCall
<1>8. ASSUME NEW t \in Turn, NEW c \in Call, StreamCallDone(t, c)
      PROVE  [TT!Next]_(TT!vars)
  BY <1>8, QuietStep DEF StreamCallDone
<1>9. ASSUME NEW t \in Turn, NEW c \in Call, LaunchCall(t, c)
      PROVE  [TT!Next]_(TT!vars)
  <2>1. c \in Task /\ c \notin LoopTurn \cup tasks
    BY <1>9, Kinds DEF LaunchCall, Registry, Registered
  <2> QED
    BY <1>9, <2>1 DEF LaunchCall, Scheduled, TT!Next, TT!Spawn
<1>10. ASSUME NEW c \in Call, StartCall(c)
      PROVE  [TT!Next]_(TT!vars)
  BY <1>10, QuietStep DEF StartCall
<1>11. ASSUME NEW c \in Call, CallProceeds(c)
      PROVE  [TT!Next]_(TT!vars)
  BY <1>11, QuietStep DEF CallProceeds
<1>12. ASSUME NEW c \in Call, ToolYields(c)
      PROVE  [TT!Next]_(TT!vars)
  BY <1>12, QuietStep DEF ToolYields
<1>13. ASSUME NEW c \in Call, ToolFails(c)
      PROVE  [TT!Next]_(TT!vars)
  BY <1>13, QuietStep DEF ToolFails
<1>14. ASSUME NEW c \in Call, ToolReturns(c)
      PROVE  [TT!Next]_(TT!vars)
  BY <1>14, QuietStep DEF ToolReturns, Finalize
<1>15. ASSUME NEW c \in Call, ProgressSent(c)
      PROVE  [TT!Next]_(TT!vars)
  BY <1>15, QuietStep DEF ProgressSent, Finalize
<1>16. ASSUME NEW c \in Call, CallRaises(c)
      PROVE  [TT!Next]_(TT!vars)
  BY <1>16, QuietStep DEF CallRaises, Finalize
<1>17. ASSUME NEW c \in Call, CallFinishes(c)
      PROVE  [TT!Next]_(TT!vars)
  <2>1. c \in tasks
    BY <1>17, Kinds DEF CallFinishes, ResultDue, Registry, Registered
  <2> QED
    BY <1>17, <2>1 DEF CallFinishes, ResultDue, TT!Next, TT!Produce
<1>18. ASSUME NEW k \in Task, TaskRetires(k)
      PROVE  [TT!Next]_(TT!vars)
  BY <1>18 DEF TaskRetires, Retired, LoopDrained, TypeOK, TT!Next, TT!Retire
<1>19. ASSUME NEW k \in Task, NEW t \in LoopTurn, LoopContinues(k, t)
      PROVE  [TT!Next]_(TT!vars)
  <2>1. tasks = {k} /\ ~loop_break /\ t # k /\ tasks' = {t} /\ loop_break' = TRUE
    BY <1>19 DEF LoopContinues, LoopTaken, Retired, LoopDrained, Fresh
  <2> QED
    BY <2>1 DEF TT!Next, TT!Continue
<1>20. ASSUME NotifyTasks
      PROVE  [TT!Next]_(TT!vars)
  BY <1>20, QuietStep DEF NotifyTasks
<1>21. ASSUME NEW w \in Client, Connect(w)
      PROVE  [TT!Next]_(TT!vars)
  BY <1>21, QuietStep DEF Connect
<1>22. ASSUME NEW w \in Client, Break(w)
      PROVE  [TT!Next]_(TT!vars)
  BY <1>22, QuietStep DEF Break
<1>23. ASSUME NEW w \in Client, Leave(w)
      PROVE  [TT!Next]_(TT!vars)
  BY <1>23, QuietStep DEF Leave, Depart
<1>24. ASSUME NEW w \in Client, RestartFails(w)
      PROVE  [TT!Next]_(TT!vars)
  BY <1>24, QuietStep DEF RestartFails, Close
<1>25. ASSUME NEW w \in Client, HandlerRaises(w)
      PROVE  [TT!Next]_(TT!vars)
  BY <1>25, QuietStep DEF HandlerRaises, Close
<1>26. ASSUME NEW w \in Client, PostServed(w)
      PROVE  [TT!Next]_(TT!vars)
  BY <1>26, QuietStep DEF PostServed
<1>27. ASSUME NEW w \in Client, NEW t \in UserTurn, Post(w, t)
      PROVE  [TT!Next]_(TT!vars)
  BY <1>27, QuietStep DEF Post
<1>28. ASSUME NEW w \in Client, NEW t \in UserTurn, Posted(w, t)
      PROVE  [TT!Next]_(TT!vars)
  <2>1. t \in Task /\ t \notin LoopTurn \cup tasks
    BY <1>28, Kinds DEF Posted, Registry, Registered, Drafted
  <2> QED
    BY <1>28, <2>1 DEF Posted, Scheduled, TT!Next, TT!Spawn
<1>29. ASSUME NEW w \in Client, Stop(w)
      PROVE  [TT!Next]_(TT!vars)
  BY <1>29 DEF Stop, StopLoop, TT!Next, TT!Halt
<1>30. ASSUME NEW w \in Client, NEW r \in Turn, Restart(w, r)
      PROVE  [TT!Next]_(TT!vars)
  BY <1>30, QuietStep DEF Restart
<1>31. ASSUME NEW w \in Client, Closed(w)
      PROVE  [TT!Next]_(TT!vars)
  BY <1>31, QuietStep DEF Closed, Depart
<1>32. CASE UNCHANGED vars
  BY <1>32, QuietStep DEF vars
<1> QED
  BY <1>1, <1>2, <1>3, <1>4, <1>5, <1>6, <1>7, <1>8, <1>9, <1>10, <1>11,
     <1>12, <1>13, <1>14, <1>15, <1>16, <1>17, <1>18, <1>19, <1>20, <1>21,
     <1>22, <1>23, <1>24, <1>25, <1>26, <1>27, <1>28, <1>29, <1>30, <1>31,
     <1>32
     DEF Next, TurnStep, ModelSays, CallStep, ToolStep, DoneCallback, HandlerStep,
         ClientActs

\* The detailed conversation implements the turn-taking contract.
THEOREM Implements == Spec => TakesTurns
<1>1. Init => TT!Init
  BY DEF Init, TT!Init
<1>2. TypeOK /\ Registry /\ [Next]_vars => [TT!Next]_(TT!vars)
  BY TurnTakingStep
<1> QED
  BY <1>1, <1>2, TypeCorrect, RegistryCorrect, PTL DEF Spec, TakesTurns, TT!Spec

\* A conversation with a due result has a task whose callback will act on it.
THEOREM LoopStaysOwned == Spec => []LoopIsOwned
<1>1. TT!Init => LoopIsOwned
  BY DEF TT!Init, LoopIsOwned
<1>2. LoopIsOwned /\ [TT!Next]_(TT!vars) => LoopIsOwned'
  BY DEF LoopIsOwned, TT!Next, TT!vars, TT!Spawn, TT!Retire, TT!Produce, TT!Halt, TT!Continue
<1> QED
  BY <1>1, <1>2, Implements, PTL DEF TakesTurns, TT!Spec

\* There is never a second continuation.
THEOREM ContinuationIsSingle == Spec => []OneContinuation
<1>1. TT!Init => OneContinuation
  BY DEF TT!Init, OneContinuation
<1>2. OneContinuation /\ [TT!Next]_(TT!vars) => OneContinuation'
  BY DEF OneContinuation, TT!Next, TT!vars, TT!Spawn, TT!Retire, TT!Produce, TT!Halt, TT!Continue
<1> QED
  BY <1>1, <1>2, Implements, PTL DEF TakesTurns, TT!Spec

-----------------------------------------------------------------------------
\* Stop.  After a quiet stop every registered task has ended or is about to
\* raise outside the try block, so nobody turns loop_break off again.

Quiet ==
  stop = "quiet" =>
    /\ loop_break
    /\ \A w \in Client : draft[w] = {}
    /\ \A k \in tasks : \/ pc[k] = "ended"
                        \/ k \in thrown /\ pc[k] \notin {"executing", "progressing"}

LEMMA QuietStays == TypeOK /\ Registry /\ Quiet /\ [Next]_vars => Quiet'
<1> SUFFICES ASSUME TypeOK, Registry, Quiet, [Next]_vars, stop' = "quiet"
             PROVE  Quiet'
  BY DEF Quiet
<1>1. ASSUME NEW t \in Turn, StartChat(t)
      PROVE  Quiet'
  <2>1. t \in tasks /\ t \notin thrown /\ pc[t] # "ended" /\ stop = "quiet"
    BY <1>1, Kinds DEF StartChat, Registry, Registered
  <2> QED
    BY <2>1 DEF Quiet
<1>2. ASSUME NEW t \in Turn, Acquire(t)
      PROVE  Quiet'
  <2>1. t \in tasks /\ t \notin thrown /\ pc[t] # "ended" /\ stop = "quiet"
    BY <1>2, Kinds DEF Acquire, Registry, Registered
  <2> QED
    BY <2>1 DEF Quiet
<1>3. ASSUME NEW t \in Turn, StreamText(t)
      PROVE  Quiet'
  <2>1. t \in tasks /\ t \notin thrown /\ pc[t] # "ended" /\ stop = "quiet"
    BY <1>3, Kinds DEF StreamText, Registry, Registered
  <2> QED
    BY <2>1 DEF Quiet
<1>4. ASSUME NEW t \in Turn, Emitted(t)
      PROVE  Quiet'
  <2>1. t \in tasks /\ t \notin thrown /\ pc[t] # "ended" /\ stop = "quiet"
    BY <1>4, Kinds DEF Emitted, Registry, Registered
  <2> QED
    BY <2>1 DEF Quiet
<1>5. ASSUME NEW t \in Turn, StreamEnds(t)
      PROVE  Quiet'
  <2>1. t \in tasks /\ t \notin thrown /\ pc[t] # "ended" /\ stop = "quiet"
    BY <1>5, Kinds DEF StreamEnds, Registry, Registered
  <2> QED
    BY <2>1 DEF Quiet
<1>6. ASSUME NEW t \in Turn, TurnRaises(t)
      PROVE  Quiet'
  BY <1>6, Kinds DEF TypeOK, Quiet, TurnRaises, Goto
<1>7. ASSUME NEW t \in Turn, NEW c \in Call, StreamCall(t, c)
      PROVE  Quiet'
  <2>1. t \in tasks /\ t \notin thrown /\ pc[t] # "ended" /\ stop = "quiet"
    BY <1>7, Kinds DEF StreamCall, Registry, Registered
  <2> QED
    BY <2>1 DEF Quiet
<1>8. ASSUME NEW t \in Turn, NEW c \in Call, StreamCallDone(t, c)
      PROVE  Quiet'
  <2>1. t \in tasks /\ t \notin thrown /\ pc[t] # "ended" /\ stop = "quiet"
    BY <1>8, Kinds DEF StreamCallDone, Registry, Registered
  <2> QED
    BY <2>1 DEF Quiet
<1>9. ASSUME NEW t \in Turn, NEW c \in Call, LaunchCall(t, c)
      PROVE  Quiet'
  <2>1. t \in tasks /\ t \notin thrown /\ pc[t] # "ended" /\ stop = "quiet"
    BY <1>9, Kinds DEF LaunchCall, Registry, Registered
  <2> QED
    BY <2>1 DEF Quiet
<1>10. ASSUME NEW c \in Call, StartCall(c)
      PROVE  Quiet'
  <2>1. c \in tasks /\ c \notin thrown /\ pc[c] # "ended" /\ stop = "quiet"
    BY <1>10, Kinds DEF StartCall, Registry, Registered
  <2> QED
    BY <2>1 DEF Quiet
<1>11. ASSUME NEW c \in Call, CallProceeds(c)
      PROVE  Quiet'
  <2>1. c \in tasks /\ c \notin thrown /\ pc[c] # "ended" /\ stop = "quiet"
    BY <1>11, Kinds DEF CallProceeds, Registry, Registered
  <2> QED
    BY <2>1 DEF Quiet
<1>12. ASSUME NEW c \in Call, ToolYields(c)
      PROVE  Quiet'
  <2>1. c \in tasks /\ c \notin thrown /\ pc[c] # "ended" /\ stop = "quiet"
    BY <1>12, Kinds DEF ToolYields, Registry, Registered
  <2> QED
    BY <2>1 DEF Quiet
<1>13. ASSUME NEW c \in Call, ToolFails(c)
      PROVE  Quiet'
  <2>1. c \in tasks /\ c \notin thrown /\ pc[c] # "ended" /\ stop = "quiet"
    BY <1>13, Kinds DEF ToolFails, Registry, Registered
  <2> QED
    BY <2>1 DEF Quiet
<1>14. ASSUME NEW c \in Call, ToolReturns(c)
      PROVE  Quiet'
  <2>1. c \in tasks /\ c \notin thrown /\ pc[c] # "ended" /\ stop = "quiet"
    BY <1>14, Kinds DEF ToolReturns, Finalize, Registry, Registered
  <2> QED
    BY <2>1 DEF Quiet
<1>15. ASSUME NEW c \in Call, ProgressSent(c)
      PROVE  Quiet'
  <2>1. c \in tasks /\ c \notin thrown /\ pc[c] # "ended" /\ stop = "quiet"
    BY <1>15, Kinds DEF ProgressSent, Finalize, Registry, Registered
  <2> QED
    BY <2>1 DEF Quiet
<1>16. ASSUME NEW c \in Call, CallRaises(c)
      PROVE  Quiet'
  <2>1. c \in tasks /\ c \in thrown /\ stop = "quiet"
    BY <1>16, Kinds DEF CallRaises, Finalize, Registry, Registered
  <2>2. pc[c] \notin {"executing", "progressing"}
    BY <1>16, <2>1 DEF Quiet, CallRaises
  <2>3. /\ pc' = [pc EXCEPT ![c] = "ended"] /\ thrown' = thrown \ {c}
        /\ UNCHANGED <<loop_break, draft, tasks, stop>>
    BY <1>16, <2>2 DEF CallRaises, Goto
  <2> QED
    BY <2>1, <2>3, Kinds DEF TypeOK, Quiet
<1>17. ASSUME NEW c \in Call, CallFinishes(c)
      PROVE  Quiet'
  <2>1. c \in tasks /\ c \notin thrown /\ pc[c] # "ended" /\ stop = "quiet"
    BY <1>17, Kinds DEF CallFinishes, ResultDue, Registry, Registered
  <2> QED
    BY <2>1 DEF Quiet
<1>18. ASSUME NEW k \in Task, TaskRetires(k)
      PROVE  Quiet'
  BY <1>18, Kinds DEF TypeOK, Quiet, TaskRetires, Retired, Goto
<1>19. ASSUME NEW k \in Task, NEW t \in LoopTurn, LoopContinues(k, t)
      PROVE  Quiet'
  BY <1>19 DEF Quiet, LoopContinues, LoopTaken, LoopDrained
<1>20. ASSUME NotifyTasks
      PROVE  Quiet'
  BY <1>20, Kinds DEF TypeOK, Quiet, NotifyTasks
<1>21. ASSUME NEW w \in Client, Connect(w)
      PROVE  Quiet'
  BY <1>21, Kinds DEF TypeOK, Quiet, Connect, Goto
<1>22. ASSUME NEW w \in Client, Break(w)
      PROVE  Quiet'
  BY <1>22, Kinds DEF TypeOK, Quiet, Break
<1>23. ASSUME NEW w \in Client, Leave(w)
      PROVE  Quiet'
  BY <1>23, Kinds DEF TypeOK, Quiet, Leave, Depart, Goto
<1>24. ASSUME NEW w \in Client, RestartFails(w)
      PROVE  Quiet'
  BY <1>24, Kinds DEF TypeOK, Quiet, RestartFails, Close, Goto
<1>25. ASSUME NEW w \in Client, HandlerRaises(w)
      PROVE  Quiet'
  BY <1>25, Kinds DEF TypeOK, Quiet, HandlerRaises, Close, Goto
<1>26. ASSUME NEW w \in Client, PostServed(w)
      PROVE  Quiet'
  BY <1>26, Kinds DEF TypeOK, Quiet, PostServed, Goto
<1>27. ASSUME NEW w \in Client, NEW t \in UserTurn, Post(w, t)
      PROVE  Quiet'
  BY <1>27 DEF Post
<1>28. ASSUME NEW w \in Client, NEW t \in UserTurn, Posted(w, t)
      PROVE  Quiet'
  BY <1>28 DEF Quiet, Posted
<1>29. ASSUME NEW w \in Client, Stop(w)
      PROVE  Quiet'
  <2>1. /\ loop_break' = TRUE
        /\ thrown' = thrown \cup {k \in tasks : pc[k] # "ended"}
        /\ UNCHANGED <<tasks, pc, draft>>
    BY <1>29 DEF Stop, CancelAll, StopLoop
  <2>2. /\ \A v \in Client : draft[v] = {}
        /\ \A c \in Call : pc[c] \notin {"executing", "progressing"}
    BY <1>29 DEF Stop
  <2>3. \A t \in Turn : pc[t] \notin {"executing", "progressing"}
    BY DEF TypeOK, TurnPC
  <2>4. \A k \in tasks : pc[k] \notin {"executing", "progressing"}
    BY <2>2, <2>3 DEF TypeOK, Task
  <2> QED
    BY <2>1, <2>2, <2>4 DEF Quiet
<1>30. ASSUME NEW w \in Client, NEW r \in Turn, Restart(w, r)
      PROVE  Quiet'
  BY <1>30, Kinds DEF TypeOK, Quiet, Restart
<1>31. ASSUME NEW w \in Client, Closed(w)
      PROVE  Quiet'
  BY <1>31, Kinds DEF TypeOK, Quiet, Closed, Depart, Goto
<1>32. CASE UNCHANGED vars
  BY <1>32 DEF TypeOK, Quiet, vars
<1> QED
  BY <1>1, <1>2, <1>3, <1>4, <1>5, <1>6, <1>7, <1>8, <1>9, <1>10, <1>11,
     <1>12, <1>13, <1>14, <1>15, <1>16, <1>17, <1>18, <1>19, <1>20, <1>21,
     <1>22, <1>23, <1>24, <1>25, <1>26, <1>27, <1>28, <1>29, <1>30, <1>31,
     <1>32
     DEF Next, TurnStep, ModelSays, CallStep, ToolStep, DoneCallback, HandlerStep,
         ClientActs

\* After a quiet stop (stop_conversation(), svc_router.py) and until the next message,
\* nothing is left that would clear loop_break.
THEOREM QuietCorrect == Spec => []Quiet
<1>1. Init => Quiet
  BY DEF Init, Quiet
<1>2. TypeOK /\ Registry /\ Quiet /\ [Next]_vars => Quiet'
  BY QuietStays
<1> QED
  BY <1>1, <1>2, TypeCorrect, RegistryCorrect, PTL DEF Spec

\* Only on_task_done registers a task for a loop turn, and only when loop_break
\* is off.
LEMMA OpensOnlyWhenDue ==
  [Next]_vars => LoopTurn \cap (tasks' \ tasks) = {} \/ ~loop_break
<1> SUFFICES ASSUME [Next]_vars
             PROVE  LoopTurn \cap (tasks' \ tasks) = {} \/ ~loop_break
  OBVIOUS
<1>1. ASSUME NEW t \in Turn, StartChat(t)
      PROVE  LoopTurn \cap (tasks' \ tasks) = {} \/ ~loop_break
  BY <1>1 DEF StartChat
<1>2. ASSUME NEW t \in Turn, Acquire(t)
      PROVE  LoopTurn \cap (tasks' \ tasks) = {} \/ ~loop_break
  BY <1>2 DEF Acquire
<1>3. ASSUME NEW t \in Turn, StreamText(t)
      PROVE  LoopTurn \cap (tasks' \ tasks) = {} \/ ~loop_break
  BY <1>3 DEF StreamText
<1>4. ASSUME NEW t \in Turn, Emitted(t)
      PROVE  LoopTurn \cap (tasks' \ tasks) = {} \/ ~loop_break
  BY <1>4 DEF Emitted
<1>5. ASSUME NEW t \in Turn, StreamEnds(t)
      PROVE  LoopTurn \cap (tasks' \ tasks) = {} \/ ~loop_break
  BY <1>5 DEF StreamEnds
<1>6. ASSUME NEW t \in Turn, TurnRaises(t)
      PROVE  LoopTurn \cap (tasks' \ tasks) = {} \/ ~loop_break
  BY <1>6 DEF TurnRaises
<1>7. ASSUME NEW t \in Turn, NEW c \in Call, StreamCall(t, c)
      PROVE  LoopTurn \cap (tasks' \ tasks) = {} \/ ~loop_break
  BY <1>7 DEF StreamCall
<1>8. ASSUME NEW t \in Turn, NEW c \in Call, StreamCallDone(t, c)
      PROVE  LoopTurn \cap (tasks' \ tasks) = {} \/ ~loop_break
  BY <1>8 DEF StreamCallDone
<1>9. ASSUME NEW t \in Turn, NEW c \in Call, LaunchCall(t, c)
      PROVE  LoopTurn \cap (tasks' \ tasks) = {} \/ ~loop_break
  BY <1>9, Kinds DEF LaunchCall, Scheduled
<1>10. ASSUME NEW c \in Call, StartCall(c)
      PROVE  LoopTurn \cap (tasks' \ tasks) = {} \/ ~loop_break
  BY <1>10 DEF StartCall
<1>11. ASSUME NEW c \in Call, CallProceeds(c)
      PROVE  LoopTurn \cap (tasks' \ tasks) = {} \/ ~loop_break
  BY <1>11 DEF CallProceeds
<1>12. ASSUME NEW c \in Call, ToolYields(c)
      PROVE  LoopTurn \cap (tasks' \ tasks) = {} \/ ~loop_break
  BY <1>12 DEF ToolYields
<1>13. ASSUME NEW c \in Call, ToolFails(c)
      PROVE  LoopTurn \cap (tasks' \ tasks) = {} \/ ~loop_break
  BY <1>13 DEF ToolFails
<1>14. ASSUME NEW c \in Call, ToolReturns(c)
      PROVE  LoopTurn \cap (tasks' \ tasks) = {} \/ ~loop_break
  BY <1>14 DEF ToolReturns, Finalize
<1>15. ASSUME NEW c \in Call, ProgressSent(c)
      PROVE  LoopTurn \cap (tasks' \ tasks) = {} \/ ~loop_break
  BY <1>15 DEF ProgressSent, Finalize
<1>16. ASSUME NEW c \in Call, CallRaises(c)
      PROVE  LoopTurn \cap (tasks' \ tasks) = {} \/ ~loop_break
  BY <1>16 DEF CallRaises, Finalize
<1>17. ASSUME NEW c \in Call, CallFinishes(c)
      PROVE  LoopTurn \cap (tasks' \ tasks) = {} \/ ~loop_break
  BY <1>17 DEF CallFinishes, ResultDue
<1>18. ASSUME NEW k \in Task, TaskRetires(k)
      PROVE  LoopTurn \cap (tasks' \ tasks) = {} \/ ~loop_break
  BY <1>18 DEF TaskRetires
<1>19. ASSUME NEW k \in Task, NEW t \in LoopTurn, LoopContinues(k, t)
      PROVE  LoopTurn \cap (tasks' \ tasks) = {} \/ ~loop_break
  BY <1>19 DEF LoopContinues, LoopTaken, LoopDrained
<1>20. ASSUME NotifyTasks
      PROVE  LoopTurn \cap (tasks' \ tasks) = {} \/ ~loop_break
  BY <1>20 DEF NotifyTasks
<1>21. ASSUME NEW w \in Client, Connect(w)
      PROVE  LoopTurn \cap (tasks' \ tasks) = {} \/ ~loop_break
  BY <1>21 DEF Connect
<1>22. ASSUME NEW w \in Client, Break(w)
      PROVE  LoopTurn \cap (tasks' \ tasks) = {} \/ ~loop_break
  BY <1>22 DEF Break
<1>23. ASSUME NEW w \in Client, Leave(w)
      PROVE  LoopTurn \cap (tasks' \ tasks) = {} \/ ~loop_break
  BY <1>23 DEF Leave, Depart
<1>24. ASSUME NEW w \in Client, RestartFails(w)
      PROVE  LoopTurn \cap (tasks' \ tasks) = {} \/ ~loop_break
  BY <1>24 DEF RestartFails, Close
<1>25. ASSUME NEW w \in Client, HandlerRaises(w)
      PROVE  LoopTurn \cap (tasks' \ tasks) = {} \/ ~loop_break
  BY <1>25 DEF HandlerRaises, Close
<1>26. ASSUME NEW w \in Client, PostServed(w)
      PROVE  LoopTurn \cap (tasks' \ tasks) = {} \/ ~loop_break
  BY <1>26 DEF PostServed
<1>27. ASSUME NEW w \in Client, NEW t \in UserTurn, Post(w, t)
      PROVE  LoopTurn \cap (tasks' \ tasks) = {} \/ ~loop_break
  BY <1>27 DEF Post
<1>28. ASSUME NEW w \in Client, NEW t \in UserTurn, Posted(w, t)
      PROVE  LoopTurn \cap (tasks' \ tasks) = {} \/ ~loop_break
  BY <1>28, Kinds DEF Posted, Scheduled
<1>29. ASSUME NEW w \in Client, Stop(w)
      PROVE  LoopTurn \cap (tasks' \ tasks) = {} \/ ~loop_break
  BY <1>29 DEF Stop
<1>30. ASSUME NEW w \in Client, NEW r \in Turn, Restart(w, r)
      PROVE  LoopTurn \cap (tasks' \ tasks) = {} \/ ~loop_break
  BY <1>30 DEF Restart
<1>31. ASSUME NEW w \in Client, Closed(w)
      PROVE  LoopTurn \cap (tasks' \ tasks) = {} \/ ~loop_break
  BY <1>31 DEF Closed, Depart
<1>32. CASE UNCHANGED vars
  BY <1>32 DEF vars
<1> QED
  BY <1>1, <1>2, <1>3, <1>4, <1>5, <1>6, <1>7, <1>8, <1>9, <1>10, <1>11,
     <1>12, <1>13, <1>14, <1>15, <1>16, <1>17, <1>18, <1>19, <1>20, <1>21,
     <1>22, <1>23, <1>24, <1>25, <1>26, <1>27, <1>28, <1>29, <1>30, <1>31,
     <1>32
     DEF Next, TurnStep, ModelSays, CallStep, ToolStep, DoneCallback, HandlerStep,
         ClientActs

\* After a quiet stop no loop turn is opened until the user writes again.
THEOREM StopIsObeyed == Spec => StopSticks
<1>1. Quiet /\ [Next]_vars
        => [stop = "quiet" /\ stop' = "quiet" => LoopTurn \cap (tasks' \ tasks) = {}]_vars
  BY OpensOnlyWhenDue DEF Quiet
<1> QED
  BY <1>1, QuietCorrect, PTL DEF Spec, StopSticks

-----------------------------------------------------------------------------
\* What the clients are told.

\* A client that is not mounted has been told nothing.
Untold == \A w \in Client \ monitors : told[w] = "nothing"

Shown == Untold /\ BusyIsShown /\ RestIsShown

\* A coroutine that neither registers nor retires a task, nor sends a count.
LEMMA KeepsShown ==
  ASSUME Shown, UNCHANGED <<tasks, monitors, notify, told>>, broken \subseteq broken'
  PROVE  Shown'
BY DEF Shown, Untold, BusyIsShown, RestIsShown

\* A count of the tasks that are registered reaches every client.
LEMMA CountsShown ==
  ASSUME TypeOK, LoopIsOwned, Shown, NEW ts \in SUBSET Task, tasks' = ts,
         Broadcast(Count(ts, loop_break)), UNCHANGED <<monitors, broken>>,
         ts # {} \/ ts = tasks
  PROVE  Shown'
<1>1. loop_break \in BOOLEAN /\ monitors \subseteq Client
  BY DEF TypeOK
<1>2. /\ Count(ts, loop_break) \in Nat
      /\ ts # {} => Count(ts, loop_break) > 0
      /\ ts = {} /\ loop_break => Count(ts, loop_break) = 0
  BY <1>1, CountProperties
<1>3. /\ \A w \in monitors \ broken :
           told'[w] = IF Count(ts, loop_break) > 0 THEN "busy" ELSE "rest"
      /\ \A w \in Client \ monitors : told'[w] = told[w]
  BY <1>1 DEF Broadcast
<1>4. Untold'
  BY <1>3 DEF Shown, Untold
<1>5. BusyIsShown'
  BY <1>2, <1>3 DEF BusyIsShown
<1>6. RestIsShown'
  BY <1>2, <1>3 DEF RestIsShown, LoopIsOwned
<1> QED
  BY <1>4, <1>5, <1>6 DEF Shown

LEMMA ShownStep == TypeOK /\ LoopIsOwned /\ Shown /\ [Next]_vars => Shown'
<1> SUFFICES ASSUME TypeOK, LoopIsOwned, Shown, [Next]_vars
             PROVE  Shown'
  OBVIOUS
<1>1. ASSUME NEW t \in Turn, TurnStep(t) \/ ModelSays(t)
      PROVE  Shown'
  <2>1. CASE \E c \in Call : LaunchCall(t, c)
    <3>1. PICK c \in Call : LaunchCall(t, c)
      BY <2>1
    <3>2. /\ tasks \cup {c} \in SUBSET Task /\ tasks' = tasks \cup {c}
          /\ Broadcast(Count(tasks \cup {c}, loop_break))
          /\ UNCHANGED <<monitors, broken>>
      BY <3>1, Kinds DEF LaunchCall, Scheduled, TypeOK
    <3> QED
      BY <3>2, CountsShown
  <2>2. CASE ~ \E c \in Call : LaunchCall(t, c)
    <3>1. UNCHANGED <<tasks, monitors, broken, notify, told>>
      BY <1>1, <2>2 DEF TurnStep, ModelSays, StartChat, Acquire, Emitted, StreamEnds,
                        TurnRaises, StreamText, StreamCall, StreamCallDone
    <3> QED
      BY <3>1, KeepsShown
  <2> QED
    BY <2>1, <2>2
<1>2. ASSUME NEW c \in Call, CallStep(c) \/ ToolStep(c)
      PROVE  Shown'
  <2>1. UNCHANGED <<tasks, monitors, broken, notify, told>>
    BY <1>2 DEF CallStep, ToolStep, StartCall, CallProceeds, ProgressSent, CallFinishes,
                CallRaises, ToolYields, ToolFails, ToolReturns, Finalize
  <2> QED
    BY <2>1, KeepsShown
<1>3. ASSUME NEW k \in Task, TaskRetires(k)
      PROVE  Shown'
  <2>1. /\ tasks # {} /\ notify' # 0
        /\ UNCHANGED <<monitors, broken, told>>
    BY <1>3 DEF TaskRetires, Retired, NotifyLater, TypeOK
  <2> QED
    BY <2>1 DEF Shown, Untold, BusyIsShown, RestIsShown
<1>4. ASSUME NEW k \in Task, NEW t \in LoopTurn, LoopContinues(k, t)
      PROVE  Shown'
  <2>1. /\ tasks # {} /\ tasks' # {}
        /\ UNCHANGED <<monitors, broken, told>>
    BY <1>4 DEF LoopContinues, Retired
  <2> QED
    BY <2>1 DEF Shown, Untold, BusyIsShown, RestIsShown
<1>5. CASE NotifyTasks
  <2>1. /\ tasks \in SUBSET Task /\ tasks' = tasks
        /\ Broadcast(Count(tasks, loop_break))
        /\ UNCHANGED <<monitors, broken>>
    BY <1>5 DEF NotifyTasks, TypeOK
  <2> QED
    BY <2>1, CountsShown
<1>6. ASSUME NEW w \in Client, Connect(w)
      PROVE  Shown'
  <2>1. /\ monitors' = monitors \cup {w}
        /\ UNCHANGED <<tasks, broken, notify, told>>
    BY <1>6 DEF Connect
  <2>2. w \in monitors \/ told[w] = "nothing"
    BY DEF Shown, Untold
  <2> QED
    BY <2>1, <2>2 DEF Shown, Untold, BusyIsShown, RestIsShown
<1>7. ASSUME NEW w \in Client, Leave(w) \/ Closed(w)
      PROVE  Shown'
  <2>1. /\ monitors' = monitors \ {w} /\ broken' = broken \ {w}
        /\ \A v \in Client : told'[v] = IF v = w THEN "nothing" ELSE told[v]
        /\ UNCHANGED <<tasks, notify>>
    BY <1>7 DEF Leave, Closed, Depart, TypeOK
  <2>2. monitors \subseteq Client
    BY DEF TypeOK
  <2> QED
    BY <2>1, <2>2 DEF Shown, Untold, BusyIsShown, RestIsShown
<1>8. ASSUME NEW w \in Client, NEW t \in UserTurn, Posted(w, t)
      PROVE  Shown'
  <2>1. /\ tasks \cup {t} \in SUBSET Task /\ tasks' = tasks \cup {t}
        /\ Broadcast(Count(tasks \cup {t}, loop_break))
        /\ UNCHANGED <<monitors, broken>>
    BY <1>8, Kinds DEF Posted, Scheduled, TypeOK
  <2> QED
    BY <2>1, CountsShown
<1>9. ASSUME NEW w \in Client,
             \/ Break(w) \/ Stop(w) \/ RestartFails(w) \/ HandlerRaises(w) \/ PostServed(w)
             \/ \E t \in UserTurn : Post(w, t)
             \/ \E r \in Turn : Restart(w, r)
      PROVE  Shown'
  <2>1. UNCHANGED <<tasks, monitors, notify, told>> /\ broken \subseteq broken'
    BY <1>9 DEF Break, Stop, RestartFails, HandlerRaises, Close, PostServed, Post, Restart
  <2> QED
    BY <2>1, KeepsShown
<1>10. CASE UNCHANGED vars
  BY <1>10, KeepsShown DEF vars
<1> QED
  BY <1>1, <1>2, <1>3, <1>4, <1>5, <1>6, <1>7, <1>8, <1>9, <1>10
     DEF Next, DoneCallback, HandlerStep, ClientActs

\* What a client was told of the tasks (send_update_tasks(), svc_router.py) is true of
\* them, or an update is on its way; with its connection, all of it is gone.
THEOREM ShownCorrect == Spec => []Shown
<1>1. Init => Shown
  BY DEF Init, Shown, Untold, BusyIsShown, RestIsShown
<1> QED
  BY <1>1, ShownStep, TypeCorrect, LoopStaysOwned, PTL DEF Spec

\* No client whose socket works is told that a conversation with a task rests.
THEOREM BusyStaysShown == Spec => []BusyIsShown
<1>1. Shown => BusyIsShown
  BY DEF Shown
<1> QED
  BY <1>1, ShownCorrect, PTL

\* Once the pending updates have run, no such client sees activity at rest.
THEOREM RestGetsShown == Spec => []RestIsShown
<1>1. Shown => RestIsShown
  BY DEF Shown
<1> QED
  BY <1>1, ShownCorrect, PTL

-----------------------------------------------------------------------------
\* A message that is being posted: as long as no send has failed, its handler
\* is where it will create the chat task.

Held ==
  /\ \A w \in Client : pc[w] # "appending" => draft[w] = {}
  /\ sound => thrown \cap Client = {}
  /\ MessageIsScheduled

LEMMA HeldInit == Init => Held
BY Kinds DEF Init, Held, MessageIsScheduled

\* Nothing happens to the handlers and their messages.
LEMMA StaysHeld ==
  ASSUME Held, UNCHANGED draft, sound' => sound,
         \A w \in Client : pc[w] = "appending" => pc'[w] = "appending",
         sound' => thrown' \cap Client \subseteq thrown,
         \A t \in UserTurn :
           pc'[t] = "none" => pc[t] = "none" /\ (items'[t] # {} => items[t] # {})
  PROVE  Held'
BY DEF Held, MessageIsScheduled

\* A task that has been created moves on, with its own items only.
Moves(k) ==
  /\ pc[k] # "none"
  /\ \E where \in (TurnPC \cup CallPC) \ {"none"} : pc' = [pc EXCEPT ![k] = where]
  /\ UNCHANGED draft
  /\ items' = items \/ \E new : items' = [items EXCEPT ![k] = new]
  /\ thrown' \subseteq thrown \cup {k}
  /\ sound' => sound

LEMMA MoveHeld == ASSUME TypeOK, Held, NEW k \in Task, Moves(k) PROVE Held'
<1>1. \A w \in Client : pc'[w] = pc[w]
  BY TaskKinds DEF Moves, TypeOK
<1>2. thrown' \cap Client \subseteq thrown
  BY TaskKinds DEF Moves
<1>3. ASSUME NEW t \in UserTurn, pc'[t] = "none"
      PROVE  pc[t] = "none" /\ (items'[t] # {} => items[t] # {})
  <2>1. t \in Turn /\ t \in Proc
    BY Kinds
  <2>2. t # k
    BY <1>3, <2>1, TaskKinds DEF Moves, TypeOK
  <2> QED
    BY <1>3, <2>1, <2>2, TaskKinds DEF Moves, TypeOK
<1> QED
  BY <1>1, <1>2, <1>3, StaysHeld DEF Moves

LEMMA FinalizeMoves == ASSUME NEW c \in Call, Finalize(c), pc[c] # "none" PROVE Moves(c)
BY DEF Finalize, Sends, Moves, Goto, TurnPC, CallPC

\* A handler stands where it holds no message, and a failed send has been seen.
LEMMA RestHeld ==
  ASSUME TypeOK, Held, NEW w \in Client, NEW where \in ClientPC \ {"appending"},
         pc' = [pc EXCEPT ![w] = where], sound => draft[w] = {},
         draft' = draft \/ draft' = [draft EXCEPT ![w] = {}],
         draft'[w] = {}, sound' => sound,
         sound' => thrown' \cap Client \subseteq thrown, UNCHANGED items
  PROVE  Held'
<1>1. /\ \A v \in Client \ {w} : pc'[v] = pc[v] /\ draft'[v] = draft[v]
      /\ pc'[w] # "appending"
  BY Kinds DEF TypeOK
<1>2. \A t \in UserTurn : pc'[t] = pc[t]
  BY Kinds DEF TypeOK
<1>3. \A v \in Client : sound => draft'[v] = draft[v]
  BY <1>1
<1>4. MessageIsScheduled'
  BY <1>2, <1>3 DEF Held, MessageIsScheduled
<1> QED
  BY <1>1, <1>4 DEF Held

LEMMA HeldStep == TypeOK /\ Registry /\ Held /\ [Next]_vars => Held'
<1> SUFFICES ASSUME TypeOK, Registry, Held, [Next]_vars PROVE Held'
  OBVIOUS
<1>1. ASSUME NEW t \in Turn, StartChat(t)
      PROVE  Held'
  <2>1. Moves(t)
    BY <1>1 DEF StartChat, BeginRequest, Moves, Goto, TurnPC, CallPC
  <2> QED
    BY <2>1, Kinds, MoveHeld
<1>2. ASSUME NEW t \in Turn, Acquire(t)
      PROVE  Held'
  <2>1. Moves(t)
    BY <1>2 DEF Acquire, BeginRequest, Moves, Goto, TurnPC, CallPC
  <2> QED
    BY <2>1, Kinds, MoveHeld
<1>3. ASSUME NEW t \in Turn, StreamText(t)
      PROVE  Held'
  <2>1. Moves(t)
    BY <1>3 DEF StreamText, Sends, Moves, Goto, TurnPC, CallPC
  <2> QED
    BY <2>1, Kinds, MoveHeld
<1>4. ASSUME NEW t \in Turn, Emitted(t)
      PROVE  Held'
  <2>1. Moves(t)
    BY <1>4 DEF Emitted, Moves, Goto, TurnPC, CallPC
  <2> QED
    BY <2>1, Kinds, MoveHeld
<1>5. ASSUME NEW t \in Turn, StreamEnds(t)
      PROVE  Held'
  <2>1. Moves(t)
    BY <1>5 DEF StreamEnds, Moves, Goto, TurnPC, CallPC
  <2> QED
    BY <2>1, Kinds, MoveHeld
<1>6. ASSUME NEW t \in Turn, TurnRaises(t)
      PROVE  Held'
  <2>1. Moves(t)
    BY <1>6 DEF TurnRaises, Moves, Goto, TurnPC, CallPC
  <2> QED
    BY <2>1, Kinds, MoveHeld
<1>7. ASSUME NEW t \in Turn, NEW c \in Call, StreamCall(t, c)
      PROVE  Held'
  <2>1. Moves(t)
    BY <1>7 DEF StreamCall, Sends, Moves, Goto, TurnPC, CallPC
  <2> QED
    BY <2>1, Kinds, MoveHeld
<1>8. ASSUME NEW t \in Turn, NEW c \in Call, StreamCallDone(t, c)
      PROVE  Held'
  <2>1. Moves(t)
    BY <1>8 DEF StreamCallDone, Sends, Moves, Goto, TurnPC, CallPC
  <2> QED
    BY <2>1, Kinds, MoveHeld
<1>9. ASSUME NEW c \in Call, StartCall(c)
      PROVE  Held'
  <2>1. Moves(c)
    BY <1>9 DEF StartCall, Sends, Moves, Goto, TurnPC, CallPC
  <2> QED
    BY <2>1, Kinds, MoveHeld
<1>10. ASSUME NEW c \in Call, CallProceeds(c)
      PROVE  Held'
  <2>1. Moves(c)
    BY <1>10 DEF CallProceeds, Moves, Goto, TurnPC, CallPC
  <2> QED
    BY <2>1, Kinds, MoveHeld
<1>11. ASSUME NEW c \in Call, ToolYields(c)
      PROVE  Held'
  <2>1. Moves(c)
    BY <1>11 DEF ToolYields, Sends, Moves, Goto, TurnPC, CallPC
  <2> QED
    BY <2>1, Kinds, MoveHeld
<1>12. ASSUME NEW c \in Call, ToolFails(c)
      PROVE  Held'
  <2>1. Moves(c)
    BY <1>12 DEF ToolFails, Sends, Moves, Goto, TurnPC, CallPC
  <2> QED
    BY <2>1, Kinds, MoveHeld
<1>13. ASSUME NEW c \in Call, ToolReturns(c)
      PROVE  Held'
  <2>1. Moves(c)
    BY <1>13, FinalizeMoves DEF ToolReturns
  <2> QED
    BY <2>1, Kinds, MoveHeld
<1>14. ASSUME NEW c \in Call, ProgressSent(c)
      PROVE  Held'
  <2>1. CASE Finalize(c)
    <3>1. pc[c] # "none"
      BY <1>14 DEF ProgressSent
    <3> QED
      BY <2>1, <3>1, FinalizeMoves, Kinds, MoveHeld
  <2>2. CASE ~Finalize(c)
    <3>1. Moves(c)
      BY <1>14, <2>2 DEF ProgressSent, Moves, Goto, TurnPC, CallPC
    <3> QED
      BY <3>1, Kinds, MoveHeld
  <2> QED
    BY <2>1, <2>2
<1>15. ASSUME NEW c \in Call, CallRaises(c)
      PROVE  Held'
  <2>1. CASE Finalize(c)
    <3>1. pc[c] # "none"
      BY <1>15 DEF CallRaises
    <3> QED
      BY <2>1, <3>1, FinalizeMoves, Kinds, MoveHeld
  <2>2. CASE ~Finalize(c)
    <3>1. Moves(c)
      BY <1>15, <2>2 DEF CallRaises, Moves, Goto, TurnPC, CallPC
    <3> QED
      BY <3>1, Kinds, MoveHeld
  <2> QED
    BY <2>1, <2>2
<1>16. ASSUME NEW c \in Call, CallFinishes(c)
      PROVE  Held'
  <2>1. Moves(c)
    BY <1>16 DEF CallFinishes, Moves, Goto, TurnPC, CallPC
  <2> QED
    BY <2>1, Kinds, MoveHeld
<1>17. ASSUME NEW k \in Task, TaskRetires(k)
      PROVE  Held'
  <2>1. Moves(k)
    BY <1>17 DEF TaskRetires, Retired, Moves, Goto, TurnPC, CallPC
  <2> QED
    BY <2>1, Kinds, MoveHeld
<1>18. ASSUME NEW t \in Turn, NEW c \in Call, LaunchCall(t, c)
      PROVE  Held'
  <2>1. /\ pc[t] = "completing" /\ pc' = [pc EXCEPT ![t] = "emitting", ![c] = "ready"]
        /\ UNCHANGED <<draft, items>> /\ (sound' => sound) /\ thrown' \subseteq thrown \cup {t}
    BY <1>18 DEF LaunchCall, Sends
  <2>2. /\ \A w \in Client : pc'[w] = pc[w]
        /\ \A u \in UserTurn : pc'[u] = "none" => pc[u] = "none"
    BY <2>1, Kinds DEF TypeOK
  <2>3. thrown' \cap Client \subseteq thrown
    BY <2>1, Kinds
  <2> QED
    BY <2>1, <2>2, <2>3, StaysHeld
<1>19. ASSUME NEW k \in Task, NEW t \in LoopTurn, LoopContinues(k, t)
      PROVE  Held'
  <2>1. /\ pc' = [pc EXCEPT ![k] = "gone", ![t] = "ready"]
        /\ UNCHANGED <<draft, items, thrown, sound>>
    BY <1>19 DEF LoopContinues
  <2>2. /\ \A w \in Client : pc'[w] = pc[w]
        /\ \A u \in UserTurn : pc'[u] = "none" => pc[u] = "none"
    BY <2>1, Kinds, TaskKinds DEF TypeOK
  <2> QED
    BY <2>1, <2>2, StaysHeld
<1>20. ASSUME UNCHANGED <<draft, sound, pc, items>>, thrown' \cap Client \subseteq thrown
      PROVE  Held'
  BY <1>20, StaysHeld
<1>21. CASE NotifyTasks \/ UNCHANGED vars
  BY <1>20, <1>21 DEF NotifyTasks, vars
<1>22. ASSUME NEW w \in Client, Break(w) \/ Stop(w) \/ (\E r \in Turn : Restart(w, r))
      PROVE  Held'
  <2>1. thrown' \subseteq thrown \cup tasks /\ UNCHANGED <<draft, sound, pc, items>>
    BY <1>22 DEF Break, Stop, CancelAll, Restart
  <2>2. tasks \cap Client = {}
    BY TaskKinds DEF TypeOK
  <2> QED
    BY <1>20, <2>1, <2>2
<1>23. ASSUME NEW w \in Client, Connect(w) \/ Leave(w) \/ Closed(w) \/ RestartFails(w) \/ PostServed(w)
      PROVE  Held'
  <2>1. pc[w] # "appending" /\ draft[w] = {}
    BY <1>23 DEF Connect, Leave, Closed, RestartFails, PostServed, Held
  <2>2. PICK where \in ClientPC \ {"appending"} : pc' = [pc EXCEPT ![w] = where]
    BY <1>23 DEF Connect, Leave, Closed, RestartFails, PostServed, Depart, Close, Goto, ClientPC
  <2>3. /\ draft' = draft \/ draft' = [draft EXCEPT ![w] = {}]
        /\ thrown' \subseteq thrown /\ UNCHANGED <<sound, items>>
    BY <1>23 DEF Connect, Leave, Closed, RestartFails, PostServed, Depart, Close
  <2>4. draft'[w] = {}
    BY <2>1, <2>3 DEF TypeOK
  <2> QED
    BY <2>1, <2>2, <2>3, <2>4, RestHeld
<1>24. ASSUME NEW w \in Client, HandlerRaises(w)
      PROVE  Held'
  <2>1. ~sound /\ UNCHANGED <<sound, items>> /\ pc' = [pc EXCEPT ![w] = "closing"]
        /\ draft' = [draft EXCEPT ![w] = {}] /\ thrown' \subseteq thrown
    BY <1>24 DEF HandlerRaises, Close, Goto, Held
  <2>2. draft'[w] = {} /\ "closing" \in ClientPC \ {"appending"}
    BY <2>1 DEF TypeOK, ClientPC
  <2> QED
    BY <2>1, <2>2, RestHeld
<1>25. ASSUME NEW w \in Client, NEW t \in UserTurn, Post(w, t)
      PROVE  Held'
  <2>1. /\ pc[w] = "idle" /\ draft[w] = {} /\ (sound' => sound)
        /\ sound' => thrown' \cap Client = {}
    BY <1>25 DEF Post, Sends, Held
  <2>2. /\ \A v \in Client : /\ pc'[v] = IF v = w THEN "appending" ELSE pc[v]
                             /\ draft'[v] = IF v = w THEN {t} ELSE draft[v]
        /\ \A u \in UserTurn : /\ pc'[u] = pc[u]
                               /\ u # t => items'[u] = items[u]
    BY <1>25, Kinds DEF Post, Goto, TypeOK
  <2>3. MessageIsScheduled'
    <3> SUFFICES ASSUME sound', NEW u \in UserTurn, items'[u] # {}, pc'[u] = "none"
                 PROVE  \E v \in Client : draft'[v] = {u}
      BY DEF MessageIsScheduled
    <3>1. CASE u = t
      BY <2>2, <3>1
    <3>2. CASE u # t
      <4>1. PICK v \in Client : draft[v] = {u}
        BY <2>1, <2>2, <3>2 DEF Held, MessageIsScheduled
      <4> QED
        BY <2>1, <2>2, <4>1
    <3> QED
      BY <3>1, <3>2
  <2> QED
    BY <2>1, <2>2, <2>3 DEF Held
<1>26. ASSUME NEW w \in Client, NEW t \in UserTurn, Posted(w, t)
      PROVE  Held'
  <2>1. /\ pc[w] = "appending" /\ draft[w] = {t} /\ (sound' => sound)
        /\ sound' => thrown' \cap Client = {}
        /\ UNCHANGED items
    BY <1>26 DEF Posted, Sends, Held
  <2>2. /\ \A v \in Client : /\ pc'[v] = IF v = w THEN "posted" ELSE pc[v]
                             /\ draft'[v] = IF v = w THEN {} ELSE draft[v]
        /\ \A u \in UserTurn : pc'[u] = IF u = t THEN "ready" ELSE pc[u]
    BY <1>26, Kinds DEF Posted, TypeOK
  <2>3. MessageIsScheduled'
    <3> SUFFICES ASSUME sound', NEW u \in UserTurn, items'[u] # {}, pc'[u] = "none"
                 PROVE  \E v \in Client : draft'[v] = {u}
      BY DEF MessageIsScheduled
    <3>1. u # t
      BY <2>2
    <3>2. PICK v \in Client : draft[v] = {u}
      BY <2>1, <2>2, <3>1 DEF Held, MessageIsScheduled
    <3> QED
      BY <2>1, <2>2, <3>1, <3>2
  <2> QED
    BY <2>1, <2>2, <2>3 DEF Held
<1> QED
  BY <1>1, <1>2, <1>3, <1>4, <1>5, <1>6, <1>7, <1>8, <1>9, <1>10, <1>11, <1>12, <1>13,
     <1>14, <1>15, <1>16, <1>17, <1>18, <1>19, <1>21, <1>22, <1>23, <1>24, <1>25, <1>26
     DEF Next, TurnStep, ModelSays, CallStep, ToolStep, DoneCallback, HandlerStep,
         ClientActs

\* A user's message gets its chat task, or its handler is about to create it,
\* unless a send to a client has failed: neither another client's messages and
\* stops nor a restart of the conversation in between can lose it.
THEOREM MessageGetsScheduled == Spec => []MessageIsScheduled
<1>1. Held => MessageIsScheduled
  BY DEF Held
<1> QED
  BY <1>1, HeldInit, HeldStep, TypeCorrect, RegistryCorrect, PTL DEF Spec

-----------------------------------------------------------------------------
\* One user who writes only while a UI that was told shows no activity: a turn
\* begins when no other task is left, so what its request reports on cannot run
\* any more.  If he wrote beside a task he was not told of, all this begins anew
\* when the last task has retired.

\* A turn that has not begun is alone, and so is a message that is being posted,
\* unless its handler is about to raise.
Serial ==
  /\ \A t \in Turn \cap tasks : pc[t] \in {"ready", "waiting"} => tasks = {t}
  /\ \A w \in Client \ thrown : pc[w] = "appending" => tasks = {}

\* A call was written by a turn that has begun.
Authored ==
  \A t \in Turn : \A c \in Call :
    c \in items[t] => status[c] # "none" /\ pc[t] \notin {"none", "ready", "waiting"}

\* A request reports only on calls that were written.
Reported == \A t \in Turn : \A c \in request[t] : status[c] # "none"

\* Neither a call that a request reports on nor the turn that wrote it goes on.
SentForGood ==
  \A t \in Turn : \A c \in request[t] :
    /\ pc[c] \in {"none", "ended", "gone"}
    /\ \A u \in Turn : c \in items[u] => pc[u] \in {"ended", "gone"}

TakenInTurn == Authored /\ Reported /\ (aware => Serial /\ SentForGood)

LEMMA InTurnInit == Init => TakenInTurn
BY Kinds DEF Init, TakenInTurn, Serial, Authored, Reported, SentForGood

\* Coroutines go on and tasks retire, but nothing is added that could run.
LEMMA StaysInTurn ==
  ASSUME TakenInTurn, tasks' \subseteq tasks, UNCHANGED request, aware' => aware,
         \A w \in Client \ thrown' : pc'[w] = "appending" => pc[w] = "appending" /\ w \notin thrown,
         \A t \in Turn : pc'[t] \in {"ready", "waiting"} => pc[t] \in {"ready", "waiting"},
         \A t \in Turn : pc[t] \in {"ended", "gone"} => pc'[t] \in {"ended", "gone"},
         \A t \in Turn : pc'[t] \in {"none", "ready", "waiting"}
                         => pc[t] \in {"none", "ready", "waiting"},
         \A c \in Call : pc[c] \in {"none", "ended", "gone"}
                         => pc'[c] \in {"none", "ended", "gone"},
         \A c \in Call : status[c] # "none" => status'[c] # "none",
         \A t \in Turn : \A c \in Call : c \in items'[t] => c \in items[t],
         TypeOK
  PROVE  TakenInTurn'
<1>1. aware' => Serial'
  BY DEF TakenInTurn, Serial
<1>2. Authored' /\ Reported'
  BY DEF TakenInTurn, Authored, Reported, TypeOK
<1>3. aware' => SentForGood'
  BY DEF TakenInTurn, SentForGood, TypeOK
<1> QED
  BY <1>1, <1>2, <1>3 DEF TakenInTurn

\* The last task has retired: nothing runs, so nothing is reported on that does.
LEMMA RestsInTurn ==
  ASSUME TypeOK, Registry, TakenInTurn, NEW k \in Task, TaskRetires(k), tasks' = {},
         Registry'
  PROVE  TakenInTurn'
<1>1. UNCHANGED <<items, status, request>>
  BY DEF TaskRetires
<1>2. \A j \in Proc : pc'[j] = IF j = k THEN "gone" ELSE pc[j]
  BY DEF TaskRetires, Goto, TypeOK
<1>3. \A j \in Task : pc'[j] \in {"none", "gone"}
  BY DEF Registry, Registered
<1>4. Authored' /\ Reported'
  BY <1>1, <1>2, Kinds DEF TakenInTurn, Authored, Reported
<1>5. Serial'
  BY DEF Serial
<1>6. SentForGood'
  <2> SUFFICES ASSUME NEW t \in Turn, NEW c \in request'[t]
               PROVE  /\ pc'[c] \in {"none", "ended", "gone"}
                      /\ \A u \in Turn : c \in items'[u] => pc'[u] \in {"ended", "gone"}
    BY DEF SentForGood
  <2>1. c \in Call
    BY <1>1 DEF TypeOK
  <2> QED
    BY <1>3, <1>4, <2>1, Kinds DEF Authored
<1> QED
  BY <1>4, <1>5, <1>6 DEF TakenInTurn

\* One coroutine goes on.
LEMMA MovesInTurn ==
  ASSUME TypeOK, TakenInTurn, NEW k \in Proc, NEW where,
         pc' = [pc EXCEPT ![k] = where], tasks' \subseteq tasks, UNCHANGED request,
         aware' => aware, \A w \in Client : w # k /\ w \in thrown => w \in thrown',
         where # "appending",
         where \in {"none", "ready"} => pc[k] = where,
         where = "waiting" => pc[k] = "ready",
         k \in Task /\ pc[k] \in {"none", "ended", "gone"} => where \in {"ended", "gone"},
         \A c \in Call : status[c] # "none" => status'[c] # "none",
         \A t \in Turn : \A c \in Call : c \in items'[t] => c \in items[t]
  PROVE  TakenInTurn'
<1>1. \A j \in Proc : pc'[j] = IF j = k THEN where ELSE pc[j]
  BY DEF TypeOK
<1>2. /\ \A w \in Client \ thrown' :
           pc'[w] = "appending" => pc[w] = "appending" /\ w \notin thrown
      /\ \A t \in Turn : pc'[t] \in {"ready", "waiting"} => pc[t] \in {"ready", "waiting"}
      /\ \A t \in Turn : pc[t] \in {"ended", "gone"} => pc'[t] \in {"ended", "gone"}
      /\ \A t \in Turn : pc'[t] \in {"none", "ready", "waiting"}
                         => pc[t] \in {"none", "ready", "waiting"}
      /\ \A c \in Call : pc[c] \in {"none", "ended", "gone"}
                         => pc'[c] \in {"none", "ended", "gone"}
  BY <1>1, Kinds
<1> QED
  BY <1>2, StaysInTurn

\* A turn begins: nothing else is left that could run.
LEMMA BeginsInTurn ==
  ASSUME TypeOK, Registry, TakenInTurn, NEW t \in Turn, BeginRequest(t),
         pc[t] \in {"ready", "waiting"}, UNCHANGED <<tasks, items, status, thrown, aware>>
  PROVE  TakenInTurn'
<1>1. /\ \A j \in Proc : pc'[j] = IF j = t THEN "streaming" ELSE pc[j]
      /\ request' = [request EXCEPT ![t] = Unfinished]
  BY DEF BeginRequest, Goto, TypeOK
<1>2. \A c \in Unfinished : c \in Call /\ \E u \in Turn : c \in items[u]
  BY DEF Unfinished, TypeOK
<1>3. Authored'
  BY <1>1, Kinds DEF TakenInTurn, Authored
<1>4. Reported'
  BY <1>1, <1>2 DEF TakenInTurn, Authored, Reported, TypeOK
<1>5. ASSUME aware
      PROVE  Serial' /\ SentForGood'
  <2>1. tasks = {t}
    <3>1. t \in tasks
      BY Kinds DEF Registry, Registered
    <3> QED
      BY <1>5, <3>1 DEF TakenInTurn, Serial
  <2>2. \A k \in Task : k # t => pc[k] \in {"none", "gone"}
    BY <2>1 DEF Registry, Registered
  <2>3. Serial'
    BY <1>1, <1>5, Kinds DEF TakenInTurn, Serial
  <2>4. ASSUME NEW c \in Call, NEW u \in Turn, c \in items[u]
        PROVE  u # t /\ pc[u] = "gone"
    BY <2>2, <2>4, Kinds DEF TakenInTurn, Authored
  <2>5. SentForGood'
    <3> SUFFICES ASSUME NEW v \in Turn, NEW c \in request'[v]
                 PROVE  /\ pc'[c] \in {"none", "ended", "gone"}
                        /\ \A u \in Turn : c \in items'[u] => pc'[u] \in {"ended", "gone"}
      BY DEF SentForGood
    <3>1. c \in Call
      BY <1>1, <1>2 DEF TypeOK
    <3> QED
      BY <1>1, <2>2, <2>4, <3>1, Kinds
  <2> QED
    BY <2>3, <2>5
<1> QED
  BY <1>3, <1>4, <1>5 DEF TakenInTurn

\* A task is created when no other one is left.
LEMMA StartsInTurn ==
  ASSUME TypeOK, TakenInTurn, NEW t \in Turn, pc[t] = "none", pc'[t] = "ready",
         UNCHANGED <<request, status, items, aware>>, aware => tasks' = {t},
         \A u \in Turn : u # t => pc'[u] = pc[u] \/ (pc'[u] = "gone" /\ pc[u] = "ended"),
         \A c \in Call : pc'[c] = pc[c] \/ pc'[c] = "gone",
         aware => \A w \in Client \ thrown' : pc'[w] # "appending"
  PROVE  TakenInTurn'
<1>1. aware' => Serial'
  BY DEF Serial
<1>2. \A c \in Call : c \notin items[t]
  BY DEF TakenInTurn, Authored
<1>3. Authored' /\ Reported'
  BY <1>2 DEF TakenInTurn, Authored, Reported
<1>4. aware' => SentForGood'
  BY <1>2 DEF TakenInTurn, SentForGood, TypeOK
<1> QED
  BY <1>1, <1>3, <1>4 DEF TakenInTurn

LEMMA InTurnStep ==
  ASSUME Polite, \A v, w \in Client : v = w
  PROVE  TypeOK /\ Registry /\ Shown /\ TakenInTurn /\ [Next]_vars => TakenInTurn'
<1> SUFFICES ASSUME TypeOK, Registry, Shown, TakenInTurn, [Next]_vars
             PROVE  TakenInTurn'
  OBVIOUS
<1>1. ASSUME NEW t \in Turn, StartChat(t) \/ Acquire(t)
      PROVE  TakenInTurn'
  <2>1. CASE BeginRequest(t)
    BY <1>1, <2>1, BeginsInTurn DEF StartChat, Acquire
  <2>2. CASE ~BeginRequest(t)
    <3>1. PICK where \in {"ended", "waiting"} :
            pc' = [pc EXCEPT ![t] = where] /\ (where = "waiting" => pc[t] = "ready")
      BY <1>1, <2>2 DEF StartChat, Acquire, Goto
    <3>2. /\ UNCHANGED <<tasks, request, status, items, thrown, aware>>
          /\ pc[t] \in {"ready", "waiting"}
      BY <1>1, <2>2 DEF StartChat, Acquire
    <3> QED
      BY <3>1, <3>2, Kinds, MovesInTurn
  <2> QED
    BY <2>1, <2>2
<1>2. ASSUME NEW t \in Turn, StreamText(t) \/ Emitted(t) \/ StreamEnds(t) \/ TurnRaises(t)
      PROVE  TakenInTurn'
  <2>1. PICK where \in {"emitting", "streaming", "ended"} : pc' = [pc EXCEPT ![t] = where]
    BY <1>2 DEF StreamText, Emitted, StreamEnds, TurnRaises, Goto
  <2>2. /\ UNCHANGED <<tasks, request, status, aware>>
        /\ pc[t] \notin {"none", "ended", "gone"} /\ thrown \subseteq thrown' \cup {t}
    BY <1>2 DEF StreamText, Emitted, StreamEnds, TurnRaises, Sends
  <2>3. items' = items \/ items' = [items EXCEPT ![t] = @ \cup {"text"}]
    BY <1>2 DEF StreamText, Emitted, StreamEnds, TurnRaises
  <2>4. \A u \in Turn : \A c \in Call : c \in items'[u] => c \in items[u]
    BY <2>3, TurnsDisjoint DEF TypeOK
  <2> QED
    BY <2>1, <2>2, <2>4, Kinds, MovesInTurn
<1>3. ASSUME NEW t \in Turn, NEW c \in Call, StreamCall(t, c)
      PROVE  TakenInTurn'
  <2>1. /\ \A j \in Proc : pc'[j] = IF j = t THEN "emitting" ELSE pc[j]
        /\ \A u \in Turn : items'[u] = IF u = t THEN items[u] \cup {c} ELSE items[u]
        /\ \A d \in Call : status'[d] = IF d = c THEN "in_progress" ELSE status[d]
        /\ UNCHANGED <<tasks, request, aware>> /\ thrown \subseteq thrown' \cup {t}
        /\ status[c] = "none" /\ pc[t] = "streaming"
    BY <1>3, Kinds DEF StreamCall, Goto, Sends, TypeOK
  <2>2. aware => Serial'
    BY <2>1, Kinds DEF TakenInTurn, Serial
  <2>3. Authored'
    BY <2>1, Kinds DEF TakenInTurn, Authored
  <2>4. \A u \in Turn : c \notin request[u]
    BY <2>1 DEF TakenInTurn, Reported
  <2>5. \A u \in Turn : \A d \in request'[u] :
          d \in Call /\ d # c /\ status'[d] = status[d] /\ pc'[d] = pc[d]
    BY <2>1, <2>4, Kinds DEF TypeOK
  <2>6. Reported'
    BY <2>1, <2>5 DEF TakenInTurn, Reported
  <2>7. ASSUME aware
        PROVE  SentForGood'
    <3> SUFFICES ASSUME NEW u \in Turn, NEW d \in request'[u]
                 PROVE  /\ pc'[d] \in {"none", "ended", "gone"}
                        /\ \A v \in Turn : d \in items'[v] => pc'[v] \in {"ended", "gone"}
      BY DEF SentForGood
    <3>1. d \in request[u]
      BY <2>1
    <3>2. /\ pc[d] \in {"none", "ended", "gone"}
          /\ \A v \in Turn : d \in items[v] => pc[v] \in {"ended", "gone"}
      BY <2>7, <3>1 DEF TakenInTurn, SentForGood
    <3>3. \A v \in Turn : d \in items'[v] => d \in items[v]
      <4>1. d # c
        BY <2>5
      <4>2. \A v \in Turn : items'[v] = items[v] \/ items'[v] = items[v] \cup {c}
        BY <2>1
      <4> QED
        BY <4>1, <4>2
    <3>4. \A v \in Turn : pc'[v] = pc[v] \/ pc[v] = "streaming"
      BY <2>1, Kinds
    <3> QED
      BY <2>5, <3>2, <3>3, <3>4
  <2> QED
    BY <2>1, <2>2, <2>3, <2>6, <2>7 DEF TakenInTurn
<1>4. ASSUME NEW t \in Turn, NEW c \in Call, StreamCallDone(t, c)
      PROVE  TakenInTurn'
  <2>1. /\ pc' = [pc EXCEPT ![t] = "completing"] /\ pc[t] = "streaming"
        /\ UNCHANGED <<tasks, request, items, aware>>
        /\ status' = [status EXCEPT ![c] = "completed"]
    BY <1>4 DEF StreamCallDone, Goto
  <2>2. \A d \in Call : status[d] # "none" => status'[d] # "none"
    BY <2>1 DEF TypeOK
  <2>3. \A w \in Client : w \in thrown => w \in thrown'
    BY <1>4, Kinds DEF StreamCallDone, Sends
  <2> QED
    BY <2>1, <2>2, <2>3, Kinds, MovesInTurn
<1>5. ASSUME NEW t \in Turn, NEW c \in Call, LaunchCall(t, c)
      PROVE  TakenInTurn'
  <2>1. /\ \A j \in Proc : pc'[j] = IF j = t THEN "emitting" ELSE IF j = c THEN "ready" ELSE pc[j]
        /\ tasks' = tasks \cup {c} /\ UNCHANGED <<items, status, request, aware>>
        /\ pc[t] = "completing" /\ c \in items[t] /\ pc[c] = "none"
        /\ thrown \subseteq thrown' \cup {t}
    BY <1>5, Kinds DEF LaunchCall, Scheduled, Sends, TypeOK
  <2>2. t \in tasks
    BY <2>1, Kinds DEF Registry, Registered
  <2>3. aware => Serial'
    BY <2>1, <2>2, Kinds DEF TakenInTurn, Serial
  <2>4. Authored' /\ Reported'
    BY <2>1, Kinds DEF TakenInTurn, Authored, Reported
  <2>5. ASSUME aware
        PROVE  SentForGood'
    <3>1. \A u \in Turn : c \notin request[u]
      BY <2>1, <2>5 DEF TakenInTurn, SentForGood
    <3>2. \A u \in Turn : \A d \in request[u] : pc'[d] = pc[d]
      BY <2>1, <3>1, Kinds DEF TypeOK
    <3>3. \A u \in Turn : pc'[u] = pc[u] \/ pc[u] = "completing"
      BY <2>1, Kinds
    <3> QED
      BY <2>1, <2>5, <3>2, <3>3 DEF TakenInTurn, SentForGood
  <2> QED
    BY <2>1, <2>3, <2>4, <2>5 DEF TakenInTurn
<1>6. ASSUME NEW c \in Call, NEW where \in CallPC \ {"none", "ready", "gone"},
             pc' = [pc EXCEPT ![c] = where], pc[c] \notin {"none", "ended", "gone"},
             UNCHANGED <<tasks, request, items, aware>>, thrown \subseteq thrown' \cup {c},
             status' = status \/ (\E s \in Status \ {"none"} : status' = [status EXCEPT ![c] = s])
      PROVE  TakenInTurn'
  <2>1. \A d \in Call : status[d] # "none" => status'[d] # "none"
    BY <1>6 DEF TypeOK
  <2>2. where \notin {"appending", "none", "ready", "waiting"}
    BY <1>6 DEF CallPC
  <2>3. c \in Proc /\ \A w \in Client : w \in thrown => w \in thrown'
    BY <1>6, Kinds
  <2> QED
    BY <1>6, <2>1, <2>2, <2>3, MovesInTurn
<1>7. ASSUME NEW c \in Call, StartCall(c) \/ CallProceeds(c) \/ CallFinishes(c)
      PROVE  TakenInTurn'
  <2>1. PICK where \in CallPC \ {"none", "ready", "gone"} : pc' = [pc EXCEPT ![c] = where]
    BY <1>7 DEF StartCall, CallProceeds, CallFinishes, Goto, CallPC
  <2>2. /\ pc[c] \notin {"none", "ended", "gone"} /\ UNCHANGED <<tasks, request, items, aware>>
        /\ thrown \subseteq thrown' \cup {c}
        /\ status' = status \/ status' = [status EXCEPT ![c] = "executing"]
    BY <1>7 DEF StartCall, CallProceeds, CallFinishes, Sends
  <2> QED
    BY <1>6, <2>1, <2>2 DEF Status
<1>8. ASSUME NEW c \in Call, Finalize(c), pc[c] \in {"executing", "progressing"}
      PROVE  TakenInTurn'
  BY <1>6, <1>8 DEF Finalize, Goto, Sends, CallPC, Status
<1>9. ASSUME NEW c \in Call, ToolStep(c) \/ ProgressSent(c) \/ CallRaises(c)
      PROVE  TakenInTurn'
  <2>1. CASE Finalize(c) /\ pc[c] \in {"executing", "progressing"}
    BY <1>8, <2>1
  <2>2. CASE ~(Finalize(c) /\ pc[c] \in {"executing", "progressing"})
    <3>1. PICK where \in CallPC \ {"none", "ready", "gone"} : pc' = [pc EXCEPT ![c] = where]
      BY <1>9, <2>2 DEF ToolStep, ToolYields, ToolFails, ToolReturns, ProgressSent, CallRaises,
                        Goto, CallPC
    <3>2. /\ pc[c] \notin {"none", "ended", "gone"} /\ UNCHANGED <<tasks, request, items, aware>>
          /\ thrown \subseteq thrown' \cup {c}
          /\ status' = status \/ status' = [status EXCEPT ![c] = "completed"]
      BY <1>9, <2>2 DEF ToolStep, ToolYields, ToolFails, ToolReturns, ProgressSent, CallRaises,
                        Sends
    <3> QED
      BY <1>6, <3>1, <3>2 DEF Status
  <2> QED
    BY <2>1, <2>2
<1>10. ASSUME NEW k \in Task, TaskRetires(k)
       PROVE  TakenInTurn'
  <2>1. CASE tasks' = {}
    <3>1. Registry'
      BY <1>10, RegistryStep DEF Next, DoneCallback
    <3> QED
      BY <1>10, <2>1, <3>1, RestsInTurn
  <2>2. CASE tasks' # {}
    BY <1>10, <2>2, Kinds, TaskKinds, MovesInTurn DEF TaskRetires, Retired, Goto
  <2> QED
    BY <2>1, <2>2
<1>11. ASSUME NEW k \in Task, NEW t \in LoopTurn, LoopContinues(k, t)
       PROVE  TakenInTurn'
  <2>1. /\ pc' = [pc EXCEPT ![k] = "gone", ![t] = "ready"] /\ pc[k] = "ended" /\ pc[t] = "none"
        /\ tasks' = {t} /\ tasks # {} /\ UNCHANGED <<request, status, items, thrown, aware>>
    BY <1>11 DEF LoopContinues, Retired, LoopDrained, Fresh
  <2>2. \A j \in Proc : pc'[j] = IF j = t THEN "ready" ELSE IF j = k THEN "gone" ELSE pc[j]
    BY <2>1, Kinds DEF TypeOK
  <2>3. aware => \A w \in Client \ thrown' : pc'[w] # "appending"
    BY <2>1, <2>2, Kinds, TaskKinds DEF TakenInTurn, Serial
  <2>4. /\ t \in Turn /\ pc'[t] = "ready"
        /\ \A u \in Turn : u # t => pc'[u] = pc[u] \/ (pc'[u] = "gone" /\ pc[u] = "ended")
    <3>1. t \in Turn /\ pc[k] = "ended" /\ Turn \subseteq Proc
      BY <2>1, Kinds
    <3> QED
      BY <2>2, <3>1
  <2>5. \A c \in Call : pc'[c] = pc[c] \/ pc'[c] = "gone"
    BY <2>2, Kinds
  <2>6. pc[t] = "none" /\ tasks' = {t} /\ UNCHANGED <<request, status, items, aware>>
    BY <2>1
  <2> QED
    BY <2>3, <2>4, <2>5, <2>6, StartsInTurn
<1>12. ASSUME UNCHANGED <<pc, tasks, items, status, request, aware>>, thrown \subseteq thrown'
       PROVE  TakenInTurn'
  BY <1>12, StaysInTurn
<1>13. CASE NotifyTasks \/ UNCHANGED vars
  BY <1>12, <1>13 DEF NotifyTasks, vars
<1>14. ASSUME NEW w \in Client, Break(w) \/ Stop(w) \/ (\E r \in Turn : Restart(w, r))
       PROVE  TakenInTurn'
  BY <1>12, <1>14 DEF Break, Stop, CancelAll, Restart
<1>15. ASSUME NEW w \in Client,
              Connect(w) \/ Leave(w) \/ Closed(w) \/ HandlerRaises(w) \/ RestartFails(w) \/ PostServed(w)
       PROVE  TakenInTurn'
  <2>1. PICK where \in {"idle", "out", "closing"} : pc' = [pc EXCEPT ![w] = where]
    BY <1>15 DEF Connect, Leave, Closed, HandlerRaises, RestartFails, PostServed, Depart, Close, Goto
  <2>2. UNCHANGED <<tasks, items, status, request, aware>> /\ thrown \subseteq thrown' \cup {w}
    BY <1>15 DEF Connect, Leave, Closed, HandlerRaises, RestartFails, PostServed, Depart, Close
  <2> QED
    BY <2>1, <2>2, TaskKinds, MovesInTurn
<1>16. ASSUME NEW w \in Client, NEW t \in UserTurn, Post(w, t)
       PROVE  TakenInTurn'
  <2>1. /\ \A j \in Proc : pc'[j] = IF j = w THEN "appending" ELSE pc[j]
        /\ \A u \in Turn : items'[u] = IF u = t THEN {"user"} ELSE items[u]
        /\ UNCHANGED <<tasks, status, request>>
    BY <1>16, TaskKinds DEF Post, Goto, TypeOK
  <2>2. aware' => aware /\ told[w] # "busy" /\ (told[w] = "nothing" => tasks = {})
    BY <1>16 DEF Post
  <2>3. ASSUME aware', w \notin thrown'
        PROVE  tasks = {}
    <3>1. monitors \cap broken = {}
      BY <1>16, <2>3 DEF Post, Sends
    <3>2. CASE told[w] = "nothing"
      BY <2>2, <2>3, <3>2
    <3>3. CASE told[w] # "nothing"
      <4>1. w \in monitors \ broken
        BY <3>1, <3>3 DEF Shown, Untold
      <4>2. told[w] = "rest"
        BY <2>2, <2>3, <3>3 DEF TypeOK
      <4> QED
        BY <4>1, <4>2 DEF Shown, BusyIsShown
    <3> QED
      BY <3>2, <3>3
  <2>4. aware' => Serial'
    BY <2>1, <2>2, <2>3, Kinds DEF TakenInTurn, Serial
  <2>5. Authored' /\ Reported'
    BY <2>1, Kinds, TurnsDisjoint DEF TakenInTurn, Authored, Reported
  <2>6. aware' => SentForGood'
    BY <2>1, <2>2, Kinds, TurnsDisjoint DEF TakenInTurn, SentForGood, TypeOK
  <2> QED
    BY <2>4, <2>5, <2>6 DEF TakenInTurn
<1>17. ASSUME NEW w \in Client, NEW t \in UserTurn, Posted(w, t)
       PROVE  TakenInTurn'
  <2>1. /\ pc' = [pc EXCEPT ![w] = "posted", ![t] = "ready"]
        /\ pc[w] = "appending" /\ w \notin thrown /\ draft[w] = {t} /\ tasks' = tasks \cup {t}
        /\ UNCHANGED <<items, status, request, aware>>
    BY <1>17 DEF Posted, Scheduled
  <2>2. pc[t] = "none" /\ (aware => tasks' = {t})
    BY <2>1 DEF TakenInTurn, Serial, Registry, Drafted
  <2>3. \A j \in Proc : pc'[j] = IF j = t THEN "ready" ELSE IF j = w THEN "posted" ELSE pc[j]
    BY <2>1, TaskKinds, Kinds DEF TypeOK
  <2>4. \A v \in Client : pc'[v] # "appending"
    BY <2>3, TaskKinds, Kinds
  <2>5. /\ t \in Turn /\ pc'[t] = "ready"
        /\ \A u \in Turn : u # t => pc'[u] = pc[u] \/ (pc'[u] = "gone" /\ pc[u] = "ended")
        /\ \A c \in Call : pc'[c] = pc[c] \/ pc'[c] = "gone"
    BY <2>1, <2>3, TaskKinds, Kinds
  <2>6. UNCHANGED <<request, status, items, aware>>
    BY <2>1
  <2> QED
    BY <2>2, <2>4, <2>5, <2>6, StartsInTurn
<1> QED
  BY <1>1, <1>2, <1>3, <1>4, <1>5, <1>7, <1>9, <1>10, <1>11, <1>13, <1>14, <1>15, <1>16, <1>17
     DEF Next, TurnStep, ModelSays, CallStep, ToolStep, DoneCallback, HandlerStep, ClientActs

\* With one user who waits for the UI to come to rest before writing, no request
\* reports on a call that is executing, at the time or later, however many turns
\* and parallel calls the conversation has had, however often it was stopped or
\* restarted and the client came back, until it writes beside a task that the UI
\* of its new connection was not told of; once the tasks have retired, it holds
\* again.
THEOREM NoRunningCallGetsSent ==
  ASSUME Polite, \A v, w \in Client : v = w
  PROVE  Spec => []NoRunningCallSent
<1>1. TakenInTurn => NoRunningCallSent
  BY DEF TakenInTurn, SentForGood, NoRunningCallSent, Running
<1>2. TypeOK /\ Registry /\ Shown /\ TakenInTurn /\ [Next]_vars => TakenInTurn'
  BY InTurnStep
<1> QED
  BY <1>1, <1>2, InTurnInit, TypeCorrect, RegistryCorrect, ShownCorrect, PTL DEF Spec

=============================================================================
