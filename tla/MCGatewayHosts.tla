--------------------------- MODULE MCGatewayHosts ---------------------------
(* Three wildcards over two names: all match the first, one the second.    *)
EXTENDS GatewayHosts

CONSTANTS w1, w2, w3, n1, n2

AllMatches == {<<w1, n1>>, <<w2, n1>>, <<w3, n1>>, <<w3, n2>>}
PlainDomains == {Domain(n, FALSE) : n \in {n1, n2}}
=============================================================================
