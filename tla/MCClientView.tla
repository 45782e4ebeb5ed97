---------------------------- MODULE MCClientView ----------------------------
EXTENDS ClientView, TLC

CONSTANTS c1, c2, e1, e2

TwoClients == {c1, c2}
TwoExchanges == {e1, e2}
FirstHoldsAll ==
  [e \in TwoExchanges |-> IF e = e1 THEN {"user", "text", "call"} ELSE {"user"}]

SymmetricClients == Permutations(TwoClients)

=============================================================================
