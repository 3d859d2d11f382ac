---------------------------- MODULE MCApiGateway ----------------------------
(***************************************************************************)
(* A gateway with one exact route and two patterns.  "users" is both the   *)
(* exact route and matched by the pattern "any"; "orders" is matched by    *)
(* both patterns, so a request may try two lists in a row.                 *)
(***************************************************************************)
EXTENDS ApiGateway

CONSTANT MaxLength      \* bound on the hosts of a route

MCRoutes == {"users", "orders", "any"}
MCPaths == {"/users", "/orders/1", "/other"}
MCExact == [p \in {"/users"} |-> "users"]
MCRegexes == <<"orders", "any">>
MCTests == {<<"orders", "/orders/1">>} \cup ({"any"} \X MCPaths)

\* Any lengths at all.
AnyLengths == [MCRoutes -> 0..MaxLength]
=============================================================================
