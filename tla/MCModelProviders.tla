-------------------------- MODULE MCModelProviders --------------------------
EXTENDS ModelProviders

CONSTANTS p1, p2, m1, c1, c2

TwoProviders == {p1, p2}
OneProvider == {p1}
OneModel == {m1}
TwoClients == {c1, c2}

=============================================================================
