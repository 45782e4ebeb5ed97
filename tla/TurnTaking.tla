----------------------------- MODULE TurnTaking -----------------------------
(***************************************************************************)
(* What the agentic loop promises, without websockets, streams or stops'   *)
(* details: workers (chat tasks and tool tasks) come and go, a tool leaves *)
(* a result that is due to the model, and the worker that retires last     *)
(* hands it to exactly one continuation.  Translated from on_task_done and *)
(* the writers of loop_break in llm/svc_router.py.                         *)
(***************************************************************************)
CONSTANTS
  Worker,        \* every task a conversation may run
  Continuation   \* the chat tasks opened to feed results back

VARIABLES
  live,   \* the registered tasks
  due     \* a result waits for the model

vars == <<live, due>>

Init == live = {} /\ due = FALSE

\* A user message or a function call starts a worker.
Spawn(k) == k \notin Continuation \cup live /\ live' = live \cup {k} /\ UNCHANGED due

\* A tool that is still registered returns a result.
Produce == live # {} /\ due' = TRUE /\ UNCHANGED live

\* The user stops the loop.
Halt == due' = FALSE /\ UNCHANGED live

\* A worker retires; the last one may not leave a due result behind.
Retire(k) ==
  /\ k \in live
  /\ live \ {k} = {} => ~due
  /\ live' = live \ {k} /\ UNCHANGED due

\* The last worker retires and hands the due result to a continuation.
Continue(k, t) ==
  /\ live = {k} /\ due
  /\ t # k
  /\ live' = {t} /\ due' = FALSE

Next ==
  \/ \E k \in Worker : Spawn(k) \/ Retire(k)
  \/ Produce \/ Halt
  \/ \E k \in Worker, t \in Continuation : Continue(k, t)

Spec == Init /\ [][Next]_vars

=============================================================================
