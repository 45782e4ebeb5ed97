-------------------------- MODULE MCToolDiscovery --------------------------
EXTENDS ToolDiscovery

CONSTANTS n1, n2, d1, d2

TwoNodes == {n1, n2}
TwoDiscoveries == {d1, d2}

=============================================================================
