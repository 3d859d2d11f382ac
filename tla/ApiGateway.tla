----------------------------- MODULE ApiGateway -----------------------------
(***************************************************************************)
(* ApiGateway.resolveUpstream: the routes that match the request's path    *)
(* are tried in order, the exact one first and then the patterns as they   *)
(* were inserted, and every try asks the gateway's ONE load balancer.  Its *)
(* pointer, currentIdx, is therefore shared by lists of different lengths. *)
(* The method is synchronous: between Request and its outcome nothing else *)
(* runs, each action below being one turn of its loop.                     *)
(***************************************************************************)
EXTENDS Integers, Sequences, RoundRobin

CONSTANTS
    Routes,         \* the routes of the gateway
    Paths,          \* the request paths
    Exact,          \* _wellDefinedRoutesToUpstreamHosts: some paths -> their route
    Regexes,        \* _regexRoutesToUpstreamHosts: routes in insertion order
    Tests,          \* <<route, path>> when the route's pattern matches the path
    LengthChoices   \* the list lengths, by route, a gateway may be built with

ASSUME RoutesAssumption ==
    /\ DOMAIN Exact \subseteq Paths
    /\ \A p \in DOMAIN Exact : Exact[p] \in Routes
    /\ Regexes \in Seq(Routes)
    /\ \A p \in DOMAIN Exact : \A i \in DOMAIN Regexes : Exact[p] # Regexes[i]
    /\ \A i, j \in DOMAIN Regexes : Regexes[i] = Regexes[j] => i = j
    /\ Tests \subseteq {Regexes[i] : i \in DOMAIN Regexes} \X Paths

ASSUME LengthsAssumption == LengthChoices \subseteq [Routes -> Nat]

VARIABLES
    lengths,        \* upstreams.length of every route
    onlineHosts,    \* <<route, position>> of the hosts that are online
    path,           \* the path of the request being resolved, or of the last one
    todo,           \* the routes still to be looked at
    outcome         \* what resolveUpstream returned or threw last

gatewayVars == <<policy, lengths, onlineHosts, currentIdx, path, todo, outcome>>

Idle      == [kind |-> "idle"]
Resolving == [kind |-> "resolving"]
Undefined == [kind |-> "undefined"]
TypeError == [kind |-> "TypeError"]
Host(r, p) == [kind |-> "host", route |-> r, position |-> p]

HostsOf(r) == {r} \X (1..lengths[r])
OnlineOf(r) == {p \in 1..lengths[r] : <<r, p>> \in onlineHosts}

\* Mutant of Visited: the patterns are tried before the exact route.
VisitedPatternsFirst(p) ==
    Regexes \o (IF p \in DOMAIN Exact THEN <<Exact[p]>> ELSE <<>>)

\* The routes resolveUpstream looks at for a path, in its order.
Visited(p) == (IF p \in DOMAIN Exact THEN <<Exact[p]>> ELSE <<>>) \o Regexes

Matches(r, p) == (p \in DOMAIN Exact /\ r = Exact[p]) \/ <<r, p>> \in Tests

GatewayTypeOK ==
    /\ policy \in {"RoundRobin", "FirstFree"}
    /\ lengths \in LengthChoices
    /\ onlineHosts \subseteq UNION {HostsOf(r) : r \in Routes}
    /\ currentIdx \in Nat
    /\ path \in Paths
    /\ todo \in Seq(Routes)
    /\ \/ outcome \in {Idle, Resolving, Undefined, TypeError}
       \/ \E r \in Routes : \E p \in 1..lengths[r] : outcome = Host(r, p)

-----------------------------------------------------------------------------
GatewayInit ==
    /\ policy \in {"RoundRobin", "FirstFree"}
    /\ lengths \in LengthChoices
    /\ onlineHosts \in SUBSET UNION {HostsOf(r) : r \in Routes}
    /\ currentIdx = 0
    /\ path \in Paths
    /\ todo = <<>>
    /\ outcome = Idle

Request(p) ==
    /\ outcome # Resolving
    /\ path' = p
    /\ todo' = Visited(p)
    /\ outcome' = Resolving
    /\ UNCHANGED <<policy, lengths, onlineHosts, currentIdx>>

Return(result) == outcome' = result /\ todo' = <<>>

\* The next route does not match, or nextHost found no host in it: go on.
Continue == outcome' = Resolving /\ todo' = Tail(todo)

\* Mutant of TryFind: upstreams[0], without asking whether there is one.
TryFindFirst(r) ==
    /\ policy = "FirstFree" \/ lengths[r] <= 1
    /\ Return(Host(r, 1))
    /\ UNCHANGED currentIdx

\* FirstFree, and RoundRobin on a list of at most one host, search for the
\* first online host without the pointer.
TryFind(r) ==
    /\ policy = "FirstFree" \/ lengths[r] <= 1
    /\ \/ OnlineOf(r) = {} /\ Continue
       \/ \E p \in OnlineOf(r) : (\A q \in OnlineOf(r) : p <= q) /\ Return(Host(r, p))
    /\ UNCHANGED currentIdx

\* The pointer is beyond this list: `iterator.next().value' is undefined.
TryOverrun(r) ==
    /\ policy = "RoundRobin"
    /\ Overrun(currentIdx, lengths[r])
    /\ Return(TypeError)
    /\ UNCHANGED currentIdx

\* Mutant of TryScan: a matching route without an online host ends the search.
TryScanGivesUp(r) ==
    /\ policy = "RoundRobin"
    /\ lengths[r] > 1
    /\ ~Overrun(currentIdx, lengths[r])
    /\ \/ \E k \in 0..(lengths[r] - 1) :
            /\ Returns(currentIdx, lengths[r], OnlineOf(r), k)
            /\ currentIdx' = Yield(currentIdx, lengths[r], k)
            /\ Return(Host(r, currentIdx'))
       \/ /\ \A k \in Scanned(currentIdx, lengths[r]) :
               Yield(currentIdx, lengths[r], k) \notin OnlineOf(r)
          /\ currentIdx' = Previous(currentIdx, lengths[r])
          /\ Return(Undefined)

\* Mutant of TryScan: the pointer is left behind the host that was found.
TryScanStepsBeyond(r) ==
    /\ policy = "RoundRobin"
    /\ lengths[r] > 1
    /\ ~Overrun(currentIdx, lengths[r])
    /\ \/ \E k \in 0..(lengths[r] - 1) :
            /\ Returns(currentIdx, lengths[r], OnlineOf(r), k)
            /\ currentIdx' = Yield(currentIdx, lengths[r], k) + 1
            /\ Return(Host(r, currentIdx' - 1))
       \/ /\ \A k \in Scanned(currentIdx, lengths[r]) :
               Yield(currentIdx, lengths[r], k) \notin OnlineOf(r)
          /\ currentIdx' = Previous(currentIdx, lengths[r])
          /\ Continue

TryScan(r) ==
    /\ policy = "RoundRobin"
    /\ lengths[r] > 1
    /\ ~Overrun(currentIdx, lengths[r])
    /\ \/ \E k \in 0..(lengths[r] - 1) :
            /\ Returns(currentIdx, lengths[r], OnlineOf(r), k)
            /\ currentIdx' = Yield(currentIdx, lengths[r], k)
            /\ Return(Host(r, currentIdx'))
       \/ /\ \A k \in Scanned(currentIdx, lengths[r]) :
               Yield(currentIdx, lengths[r], k) \notin OnlineOf(r)
          /\ currentIdx' = Previous(currentIdx, lengths[r])
          /\ Continue

NextRoute ==
    /\ outcome = Resolving /\ todo # <<>>
    /\ LET r == Head(todo) IN
         \/ ~Matches(r, path) /\ Continue /\ UNCHANGED currentIdx
         \/ Matches(r, path) /\ (TryFind(r) \/ TryOverrun(r) \/ TryScan(r))
    /\ UNCHANGED <<policy, lengths, onlineHosts, path>>

NoRouteLeft ==
    /\ outcome = Resolving /\ todo = <<>>
    /\ Return(Undefined)
    /\ UNCHANGED <<policy, lengths, onlineHosts, currentIdx, path>>

SetHostOnline(r, p) ==
    /\ outcome # Resolving
    /\ onlineHosts' = IF <<r, p>> \in onlineHosts
                        THEN onlineHosts \ {<<r, p>>} ELSE onlineHosts \cup {<<r, p>>}
    /\ UNCHANGED <<policy, lengths, currentIdx, path, todo, outcome>>

GatewayNext ==
    \/ \E p \in Paths : Request(p)
    \/ NextRoute
    \/ NoRouteLeft
    \/ \E r \in Routes : \E p \in 1..lengths[r] : SetHostOnline(r, p)

GatewaySpec == GatewayInit /\ [][GatewayNext]_gatewayVars

-----------------------------------------------------------------------------
\* "Retrieve next available host", "@return {UpstreamHost|undefined}"
\* (load-balancer.ts): asking for a host never throws.
NextHostReturns == outcome # TypeError

Available(p) == \E r \in Routes : Matches(r, p) /\ OnlineOf(r) # {}

Settles == outcome = Resolving /\ outcome' # Resolving

\* All the lists the pointer scans have one length.
SameLengths == \A r, s \in Routes : lengths[r] > 1 /\ lengths[s] > 1 => lengths[r] = lengths[s]

\* Then the shared pointer fits each of them, wherever it was left.
EqualListsNeverThrow == SameLengths => NextHostReturns

\* Then a request gets a host exactly when some route matching its path has one
\* online, wherever earlier requests for other routes left the pointer.
ResolvesIffAvailable ==
    [][Settles /\ SameLengths => (outcome'.kind = "host" <=> Available(path))]_gatewayVars

\* The exact route of a path comes before the patterns, and a pattern before
\* those inserted later.
Precedes(q, r, p) ==
    \/ p \in DOMAIN Exact /\ q = Exact[p] /\ r # q
    \/ \E i, j \in DOMAIN Regexes : i < j /\ q = Regexes[i] /\ r = Regexes[j]

\* A request is given an online host of a route that matches its path, and no
\* matching route that precedes it has a host online.
EarlierRouteWins ==
    [][Settles /\ outcome'.kind = "host" =>
         LET r == outcome'.route IN
            /\ Matches(r, path) /\ outcome'.position \in OnlineOf(r)
            /\ \A q \in Routes :
                 Precedes(q, r, path) /\ Matches(q, path) => OnlineOf(q) = {}]_gatewayVars

\* What resolveUpstream knows at each turn of its loop: the routes behind it
\* match without a host online, or not at all.
Searched ==
    outcome = Resolving =>
      LET done == Len(Visited(path)) - Len(todo) IN
        /\ done >= 0
        /\ \A i \in 1..Len(todo) : todo[i] = Visited(path)[done + i]
        /\ \A i \in 1..done :
             Matches(Visited(path)[i], path) => OnlineOf(Visited(path)[i]) = {}

\* The shared pointer fits every list it scans.
PointerFits == \A r \in Routes : ~Overrun(currentIdx, lengths[r])

\* The inductive invariants: of the loop, and of the pointer.
LoopInv == GatewayTypeOK /\ Searched
FitInv == LoopInv /\ (SameLengths => PointerFits /\ NextHostReturns)
=============================================================================
