--------------------------- MODULE MCProxyRequest ---------------------------
(***************************************************************************)
(* The kinds of request each run considers.                                *)
(***************************************************************************)
EXTENDS ProxyRequest

\* A gateway with middlewares and without an upstream to give.
Swallowed ==
    {c \in AllConfs : /\ c.host = "known" /\ c.interceptor = "none"
                      /\ c.gatewayMiddleware /\ c.upstream # "found"}
=============================================================================
