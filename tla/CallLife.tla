------------------------------ MODULE CallLife ------------------------------
(***************************************************************************)
(* What ToolService.execute() and its callers promise of one FunctionCall: *)
(* from the moment its execution begins it only moves forward, its content *)
(* only grows until something fails, whatever fails is explained and       *)
(* sticks, and a finished call is left alone.                              *)
(***************************************************************************)
EXTENDS Naturals, SequencesExt

VARIABLES
  begun,     \* has its execution begun?
  status, content, error

life == <<begun, status, content, error>>

\* A call arrives with the status of the response it came in, "completed" or
\* "incomplete", or as a request of its own, "in_progress".
Arrived == {"in_progress", "completed", "incomplete"}

\* How far the execution has come; "completed" says something else before it.
Stage == [in_progress |-> 1, executing |-> 2, completed |-> 3, finished |-> 4]

Reached == IF begun THEN Stage[status] ELSE 0

Init == ~begun /\ status \in Arrived /\ content = <<>> /\ error = FALSE

Forward == begun' /\ status' \in DOMAIN Stage /\ Stage[status'] >= Reached

\* The tool reports something, or gives its result: the answer of a microservice
\* may be an error, and it may be empty.
Report ==
  /\ begun /\ status \in {"in_progress", "executing"} /\ ~error
  /\ IsPrefix(content, content') /\ error' \in BOOLEAN
  /\ UNCHANGED <<begun, status>>

\* Something fails: the model is told what.
Fail ==
  /\ begun => status # "finished"
  /\ error' = TRUE /\ content' # <<>>
  /\ Forward

\* The execution begins, or the call goes on to its next status.
Advance ==
  /\ Forward /\ <<begun', status'>> # <<begun, status>>
  /\ UNCHANGED <<content, error>>

Next == Report \/ Fail \/ Advance

Spec == Init /\ [][Next]_life

=============================================================================
