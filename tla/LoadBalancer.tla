---------------------------- MODULE LoadBalancer ----------------------------
(***************************************************************************)
(* The load balancer of one VirtualHost: nextUpstream() hands the same     *)
(* array of upstream hosts to the same LoadBalancer on every request,      *)
(* while hosts go offline and online between requests and the gateway is   *)
(* replaced through the admin API.  nextHost is synchronous, so one call   *)
(* is one step.                                                            *)
(***************************************************************************)
EXTENDS Integers, RoundRobin

CONSTANTS
    MaxUpstreams    \* bound on the number of upstream hosts of a gateway

ASSUME MaxUpstreamsAssumption == MaxUpstreams \in Nat

VARIABLES
    size,           \* upstreams.length
    online,         \* positions whose isOnline is true
    picked,         \* what the last nextHost returned, 0 for undefined
    passed          \* history: the hosts picked since this one last had a turn

vars == <<policy, size, online, currentIdx, picked, passed>>

Policies == {"RoundRobin", "FirstFree"}
Positions == 1..MaxUpstreams
NoTurns == [h \in Positions |-> {}]

TypeOK ==
    /\ policy \in Policies
    /\ size \in 0..MaxUpstreams
    /\ online \in SUBSET (1..size)
    /\ currentIdx \in 0..size
    /\ picked \in 0..size
    /\ passed \in [Positions -> SUBSET (1..size)]

-----------------------------------------------------------------------------
\* LoadBalancerFactory.getLoadBalancer: a gateway is built with a fresh
\* balancer, whatever its hosts' state is.
Fresh ==
    /\ policy \in Policies
    /\ size \in 0..MaxUpstreams
    /\ online \in SUBSET (1..size)
    /\ currentIdx = 0

Init == Fresh /\ picked = 0 /\ passed = NoTurns

\* upstreams.find((h) => h.isOnline)
FindOnline ==
    \/ online = {} /\ picked' = 0
    \/ \E h \in online : (\A g \in online : h <= g) /\ picked' = h

\* History only: every host still waiting has seen `p' pass.
RecordTurn(p) ==
    passed' = [h \in Positions |->
                 IF h = p \/ h \notin online THEN {} ELSE passed[h] \cup {p}]

\* Mutant of ScanFinds: the pointer moves one host per call, not with the scan.
ScanFindsStepsOnce ==
    \E k \in 0..(size - 1) :
        /\ Returns(currentIdx, size, online, k)
        /\ picked' = Yield(currentIdx, size, k)
        /\ currentIdx' = Yield(currentIdx, size, 0)
        /\ RecordTurn(Yield(currentIdx, size, k))

\* The do-while loop finds an online host; the pointer stays on it.
ScanFinds ==
    \E k \in 0..(size - 1) :
        /\ Returns(currentIdx, size, online, k)
        /\ picked' = Yield(currentIdx, size, k)
        /\ currentIdx' = Yield(currentIdx, size, k)
        /\ RecordTurn(Yield(currentIdx, size, k))

\* The loop has come back to `previous', which is looked at once more.
ScanFails ==
    /\ \A k \in Scanned(currentIdx, size) : Yield(currentIdx, size, k) \notin online
    /\ LET previous == Previous(currentIdx, size) IN
         /\ picked' = IF previous \in online THEN previous ELSE 0
         /\ currentIdx' = previous
    /\ UNCHANGED passed

RoundRobinNextHost ==
    /\ policy = "RoundRobin"
    /\ \/ size <= 1 /\ FindOnline /\ UNCHANGED <<currentIdx, passed>>
       \/ size > 1 /\ (ScanFinds \/ ScanFails)
    /\ UNCHANGED <<policy, size, online>>

FirstFreeNextHost ==
    /\ policy = "FirstFree"
    /\ FindOnline
    /\ UNCHANGED <<policy, size, online, currentIdx, passed>>

NextHost == RoundRobinNextHost \/ FirstFreeNextHost

\* The isOnline setter of UpstreamHost: false from a failed health probe, and
\* either way from whoever holds the host.
SetOnline(h) ==
    /\ h \in 1..size
    /\ online' = IF h \in online THEN online \ {h} ELSE online \cup {h}
    /\ passed' = [passed EXCEPT ![h] = {}]
    /\ UNCHANGED <<policy, size, currentIdx, picked>>

\* Mutant of Rebuild: the balancer, and its pointer, outlive the hosts.
RebuildKeepsPointer ==
    /\ policy' \in Policies
    /\ size' \in 0..MaxUpstreams
    /\ online' \in SUBSET (1..size')
    /\ picked' = 0
    /\ passed' = NoTurns
    /\ UNCHANGED currentIdx

\* The gateway is rebuilt from its JSON form: new hosts, new balancer.
Rebuild ==
    /\ policy' \in Policies
    /\ size' \in 0..MaxUpstreams
    /\ online' \in SUBSET (1..size')
    /\ currentIdx' = 0
    /\ picked' = 0
    /\ passed' = NoTurns

Next == NextHost \/ (\E h \in Positions : SetOnline(h)) \/ Rebuild

Spec == Init /\ [][Next]_vars

-----------------------------------------------------------------------------
\* nextHost answers undefined exactly when no host is online, and otherwise an
\* online one, although the round-robin loop ends by comparing with the host
\* before the pointer and not by counting.
FindsAvailableHost ==
    [][NextHost => IF online = {} THEN picked' = 0 ELSE picked' \in online]_vars

\* Round robin is fair one turn at a time: no host is picked a second time
\* while another, online all along, still waits for its turn, whatever hosts
\* went down or came up in between.
NoOvertaking ==
    [][RoundRobinNextHost /\ picked' # 0 =>
         \A h \in online \ {picked'} : picked' \notin passed[h]]_vars

\* How far position h lies ahead of p on the ring of `size' positions.
Ahead(p, h) == IF h > p THEN h - p ELSE h + size - p

\* The reason: whoever passed h lies at or before the pointer, seen from h.
TurnsInOrder ==
    \A h \in online : \A g \in passed[h] :
        g # h /\ Ahead(currentIdx, h) <= Ahead(g, h)

\* The inductive invariant behind NoOvertaking.
IInv == TypeOK /\ TurnsInOrder
=============================================================================
