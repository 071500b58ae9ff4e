----------------------------- MODULE MCGateway -----------------------------
EXTENDS GatewayInvariant, TLC

SymmPorts == Permutations(Ports)
SymmClients == Permutations(Clients)

NoLeaseAsked == {0}
LeasesAsked == {0, MaxLease + 1}
FormLeases == {0, 1}
ShortLease == {1}
=============================================================================
