---------------------------- MODULE MCAgentLoop ----------------------------
(* Small conversations for TLC.  The identifiers of a kind are               *)
(* interchangeable: the code never compares two of them, except an exchange  *)
(* with itself.                                                              *)
EXTENDS AgentLoop, TLC

CONSTANTS u1, u2, l1, l2, c1, c2, w1, w2

OneTurn == {u1}
TwoTurns == {u1, u2}
OneLoop == {l1}
TwoLoops == {l1, l2}
OneCall == {c1}
TwoCalls == {c1, c2}
OneClient == {w1}
TwoClients == {w1, w2}
NoClient == {}

CallSymmetry == Permutations({c1, c2})
AllSymmetry ==
  Permutations({u1, u2}) \cup Permutations({l1, l2}) \cup Permutations({c1, c2})

\* The states TLC tells apart in a run.  Each view leaves out history variables
\* only: no guard and no other variable depends on them, and none of the run's
\* properties reads them.
FaultsView == <<exchanges, items, status, loop_break, tasks, monitors, broken, pc,
                thrown, draft, notify, told, sound, stop>>
PoliteView == <<exchanges, items, status, loop_break, tasks, monitors, broken, pc,
                thrown, draft, notify, told, aware, request>>

=============================================================================
