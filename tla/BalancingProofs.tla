--------------------------- MODULE BalancingProofs ---------------------------
(***************************************************************************)
(* Proofs about the load balancer, for lists of any length.  Of one list:  *)
(* round robin overtakes nobody.  Seen from a waiting host h, everyone who *)
(* passed it lies at or behind the pointer, and the scan only ever moves   *)
(* the pointer forward, up to the next online host, which is h at the      *)
(* latest.  Of ApiGateway, whose routes share one balancer, for every set  *)
(* of routes: the loop's invariant (Searched) gives the precedence of      *)
(* earlier routes for any lengths; that an available host is always found  *)
(* needs the lists to have one length, so that the shared pointer fits     *)
(* them all (PointerFits).                                                 *)
(***************************************************************************)
EXTENDS LoadBalancer, ApiGateway, TLAPS

-----------------------------------------------------------------------------
(* The scan of a list of n > 1 hosts, for every n and every pointer that   *)
(* fits the list.                                                          *)

\* Lemma: the iterator yields positions of the list, in the order of the ring.
LEMMA YieldInList ==
    ASSUME NEW n \in Nat, n > 1, NEW idx \in 0..n, NEW k \in 0..(n - 1)
    PROVE  /\ Yield(idx, n, k) \in 1..n
           /\ Yield(idx, n, k) = Previous(idx, n) <=> k = n - 1
  BY DEF Yield, Start, Previous

\* Lemma: ending the loop at `previous' makes it look at every host once.
LEMMA ScanIsComplete ==
    ASSUME NEW n \in Nat, n > 1, NEW idx \in 0..n
    PROVE  /\ Scanned(idx, n) = 0..(n - 1)
           /\ \A p \in 1..n : \E k \in 0..(n - 1) : Yield(idx, n, k) = p
  <1>1. Scanned(idx, n) \subseteq 0..(n - 1)
    BY DEF Scanned
  <1>2. ASSUME NEW k \in 0..(n - 1)
        PROVE  k \in Scanned(idx, n)
    <2>1. ASSUME NEW j \in 0..(k - 1)
          PROVE  Yield(idx, n, j) # Previous(idx, n)
      BY YieldInList
    <2> QED
      BY <2>1 DEF Scanned
  <1>3. ASSUME NEW p \in 1..n
        PROVE  \E k \in 0..(n - 1) : Yield(idx, n, k) = p
    <2>1. CASE p > Start(idx, n)
      <3>1. p - Start(idx, n) - 1 \in 0..(n - 1)
        BY <2>1 DEF Start
      <3>2. Yield(idx, n, p - Start(idx, n) - 1) = p
        BY <2>1 DEF Yield, Start
      <3> QED
        BY <3>1, <3>2
    <2>2. CASE p <= Start(idx, n)
      <3>1. p - Start(idx, n) - 1 + n \in 0..(n - 1)
        BY <2>2 DEF Start
      <3>2. Yield(idx, n, p - Start(idx, n) - 1 + n) = p
        BY <2>2 DEF Yield, Start
      <3> QED
        BY <3>1, <3>2
    <2> QED
      BY <2>1, <2>2 DEF Start
  <1> QED
    BY <1>1, <1>2, <1>3

\* Lemma: the host a scan returns lies no further from the pointer than any
\* other online host.
LEMMA NearestIsReturned ==
    ASSUME NEW n \in Nat, n > 1, NEW idx \in 0..n, NEW up \in SUBSET (1..n),
           NEW k \in 0..(n - 1), Returns(idx, n, up, k),
           NEW h \in up, h # Yield(idx, n, k)
    PROVE  \E j \in 0..(n - 1) : Yield(idx, n, j) = h /\ k < j
  <1>1. PICK j \in 0..(n - 1) : Yield(idx, n, j) = h
    BY ScanIsComplete
  <1>2. j \notin 0..(k - 1)
    BY <1>1 DEF Returns
  <1>3. j # k
    BY <1>1
  <1> QED
    BY <1>1, <1>2, <1>3

-----------------------------------------------------------------------------
(* The turns of the hosts of one list.                                     *)

\* Lemma: every call that picks a host by round robin picks an online one that
\* no waiting host has seen pass, and the order of turns is kept.
LEMMA TurnKeepsOrder ==
    ASSUME TypeOK, TurnsInOrder, size > 1,
           NEW k \in 0..(size - 1), Returns(currentIdx, size, online, k),
           NEW h \in online, h # Yield(currentIdx, size, k)
    PROVE  /\ Yield(currentIdx, size, k) \notin passed[h]
           /\ \A g \in passed[h] :
                Ahead(Yield(currentIdx, size, k), h) <= Ahead(g, h)
  <1> DEFINE p == Yield(currentIdx, size, k)
  <1>0. /\ size \in Nat /\ currentIdx \in 0..size /\ h \in 1..size
        /\ online \in SUBSET (1..size) /\ passed[h] \in SUBSET (1..size)
    BY MaxUpstreamsAssumption DEF TypeOK, Positions
  <1>1. PICK j \in 0..(size - 1) : Yield(currentIdx, size, j) = h /\ k < j
    BY <1>0, NearestIsReturned
  <1>2. p \in 1..size /\ Ahead(p, h) < Ahead(currentIdx, h)
    BY <1>0, <1>1 DEF Ahead, Yield, Start
  <1>3. ASSUME NEW g \in passed[h]
        PROVE  Ahead(p, h) < Ahead(g, h)
    <2>1. Ahead(currentIdx, h) <= Ahead(g, h)
      BY DEF TurnsInOrder
    <2> QED
      BY <1>0, <1>2, <2>1 DEF Ahead
  <1>4. p \notin passed[h]
    BY <1>0, <1>2, <1>3 DEF Ahead
  <1> QED
    BY <1>0, <1>2, <1>3, <1>4 DEF Ahead

\* Lemma: a scan that returns undefined has found every host offline.
LEMMA FailedScanMeansNoneOnline ==
    ASSUME TypeOK, size > 1, ScanFails
    PROVE  /\ online = {}
           /\ picked' = 0
           /\ currentIdx' \in 1..size
  <1>1. /\ size \in Nat /\ currentIdx \in 0..size /\ online \in SUBSET (1..size)
    BY MaxUpstreamsAssumption DEF TypeOK
  <1>2. \A k \in 0..(size - 1) : Yield(currentIdx, size, k) \notin online
    BY <1>1, ScanIsComplete DEF ScanFails
  <1>3. \A q \in 1..size : \E k \in 0..(size - 1) : Yield(currentIdx, size, k) = q
    BY <1>1, ScanIsComplete
  <1>4. online = {}
    BY <1>1, <1>2, <1>3
  <1>5. Previous(currentIdx, size) \in 1..size
    BY <1>1 DEF Previous
  <1> QED
    BY <1>4, <1>5 DEF ScanFails

-----------------------------------------------------------------------------
\* Lemma: each initial state satisfies the inductive invariant.
LEMMA InitEstablishes == Init => IInv
  BY MaxUpstreamsAssumption
  DEF Init, Fresh, IInv, TypeOK, TurnsInOrder, NoTurns, Positions

\* Lemma: a round-robin pick preserves the inductive invariant.
LEMMA ScanFindsPreserves ==
    ASSUME IInv, RoundRobinNextHost, size > 1, ScanFinds
    PROVE  IInv'
  <1>1. PICK k \in 0..(size - 1) :
          /\ Returns(currentIdx, size, online, k)
          /\ picked' = Yield(currentIdx, size, k)
          /\ currentIdx' = Yield(currentIdx, size, k)
          /\ RecordTurn(Yield(currentIdx, size, k))
    BY DEF ScanFinds
  <1> DEFINE p == Yield(currentIdx, size, k)
  <1>2. p \in 1..size
    BY <1>1, YieldInList, MaxUpstreamsAssumption DEF IInv, TypeOK
  <1>3. TypeOK'
    <2>1. passed' \in [Positions -> SUBSET (1..size)]
      BY <1>1, <1>2 DEF IInv, TypeOK, RecordTurn
    <2> HIDE DEF p
    <2> QED
      BY <1>1, <1>2, <2>1 DEF p, IInv, TypeOK, RoundRobinNextHost
  <1>4. TurnsInOrder'
    <2> SUFFICES ASSUME NEW h \in online', NEW g \in passed'[h]
                 PROVE  g # h /\ Ahead(currentIdx, h)' <= Ahead(g, h)'
      BY DEF TurnsInOrder
    <2>1. h \in online /\ h \in Positions /\ size' = size
      BY MaxUpstreamsAssumption DEF RoundRobinNextHost, IInv, TypeOK, Positions
    <2>2. h # p /\ (g \in passed[h] \/ g = p)
      BY <1>1, <2>1 DEF RecordTurn
    <2>3. Ahead(currentIdx, h)' = Ahead(p, h)
      BY <1>1, <2>1 DEF Ahead
    <2>4. Ahead(g, h)' = Ahead(g, h)
      BY <2>1 DEF Ahead
    <2>5. CASE g \in passed[h]
      <3>1. Ahead(p, h) <= Ahead(g, h)
        BY <1>1, <2>1, <2>2, <2>5, TurnKeepsOrder DEF IInv
      <3>2. g # h
        BY <2>1, <2>5 DEF IInv, TurnsInOrder
      <3> QED
        BY <2>3, <2>4, <3>1, <3>2
    <2>6. CASE g = p
      <3>1. Ahead(p, h) \in Int
        BY <1>2, <2>1, MaxUpstreamsAssumption DEF Ahead, IInv, TypeOK, Positions
      <3> QED
        BY <2>2, <2>3, <2>4, <2>6, <3>1
    <2> QED
      BY <2>2, <2>5, <2>6
  <1> QED
    BY <1>3, <1>4 DEF IInv

\* Lemma: every step preserves the inductive invariant.
LEMMA NextPreserves == IInv /\ [Next]_vars => IInv'
  <1> SUFFICES ASSUME IInv, [Next]_vars
               PROVE  IInv'
    OBVIOUS
  <1> USE MaxUpstreamsAssumption
  <1>1. CASE RoundRobinNextHost
    <2>1. CASE size <= 1 /\ FindOnline /\ UNCHANGED <<currentIdx, passed>>
      <3>1. TypeOK'
        BY <1>1, <2>1 DEF IInv, TypeOK, RoundRobinNextHost, FindOnline
      <3>2. TurnsInOrder'
        BY <1>1, <2>1 DEF IInv, TurnsInOrder, RoundRobinNextHost, Ahead
      <3> QED
        BY <3>1, <3>2 DEF IInv
    <2>2. CASE size > 1 /\ ScanFinds
      BY <1>1, <2>2, ScanFindsPreserves
    <2>3. CASE size > 1 /\ ScanFails
      <3>2. online = {} /\ picked' = 0 /\ currentIdx' \in 1..size
        BY <2>3, FailedScanMeansNoneOnline DEF IInv
      <3>3. TypeOK'
        BY <1>1, <2>3, <3>2 DEF IInv, TypeOK, RoundRobinNextHost, ScanFails
      <3>4. TurnsInOrder'
        BY <1>1, <3>2 DEF TurnsInOrder, RoundRobinNextHost
      <3> QED
        BY <3>3, <3>4 DEF IInv
    <2> QED
      BY <1>1, <2>1, <2>2, <2>3 DEF RoundRobinNextHost
  <1>2. CASE FirstFreeNextHost
    <2>1. TypeOK'
      BY <1>2 DEF IInv, TypeOK, FirstFreeNextHost, FindOnline
    <2>2. TurnsInOrder'
      BY <1>2 DEF IInv, TurnsInOrder, FirstFreeNextHost, Ahead
    <2> QED
      BY <2>1, <2>2 DEF IInv
  <1>3. ASSUME NEW q \in Positions, SetOnline(q)
        PROVE  IInv'
    <2>1. TypeOK'
      BY <1>3 DEF IInv, TypeOK, SetOnline, Positions
    <2>2. TurnsInOrder'
      <3> SUFFICES ASSUME NEW h \in online', NEW g \in passed'[h]
                   PROVE  g # h /\ Ahead(currentIdx, h)' <= Ahead(g, h)'
        BY DEF TurnsInOrder
      <3>1. h # q /\ h \in online /\ g \in passed[h]
        BY <1>3 DEF SetOnline, IInv, TypeOK, Positions
      <3> QED
        BY <1>3, <3>1 DEF SetOnline, IInv, TurnsInOrder, Ahead
    <2> QED
      BY <2>1, <2>2 DEF IInv
  <1>4. CASE Rebuild
    <2>1. TypeOK'
      BY <1>4 DEF Rebuild, TypeOK, NoTurns, Positions
    <2>2. TurnsInOrder'
      BY <1>4, <2>1 DEF Rebuild, TurnsInOrder, TypeOK, NoTurns, Positions
    <2> QED
      BY <2>1, <2>2 DEF IInv
  <1>5. CASE UNCHANGED vars
    BY <1>5 DEF vars, IInv, TypeOK, TurnsInOrder, Ahead
  <1> QED
    BY <1>1, <1>2, <1>3, <1>4, <1>5 DEF Next, NextHost

\* Theorem: the inductive invariant, hence the type invariant and the order of
\* turns, holds for any bound on the number of upstream hosts.
THEOREM Invariance == Spec => [](TypeOK /\ TurnsInOrder)
  <1>1. IInv => TypeOK /\ TurnsInOrder
    BY DEF IInv
  <1> QED
    BY InitEstablishes, NextPreserves, <1>1, PTL DEF Spec

\* Theorem: round robin never gives a host a second turn while another one,
\* online all along, waits for its first.
THEOREM Fairness == Spec => NoOvertaking
  <1>1. ASSUME IInv, [Next]_vars
        PROVE  [RoundRobinNextHost /\ picked' # 0 =>
                  \A h \in online \ {picked'} : picked' \notin passed[h]]_vars
    <2> SUFFICES ASSUME RoundRobinNextHost, picked' # 0,
                        NEW h \in online, h # picked'
                 PROVE  picked' \notin passed[h]
      OBVIOUS
    <2>1. CASE size <= 1
      <3>1. size \in {0, 1} /\ picked' \in online
        BY <1>1, <2>1, MaxUpstreamsAssumption
        DEF RoundRobinNextHost, FindOnline, IInv, TypeOK
      <3>2. h = 1 /\ picked' = 1
        BY <1>1, <3>1 DEF IInv, TypeOK
      <3> QED
        BY <3>2
    <2>2. CASE size > 1 /\ ScanFinds
      <3>1. PICK k \in 0..(size - 1) : /\ Returns(currentIdx, size, online, k)
                                       /\ picked' = Yield(currentIdx, size, k)
        BY <2>2 DEF ScanFinds
      <3> QED
        BY <1>1, <2>2, <3>1, TurnKeepsOrder DEF IInv
    <2>3. CASE size > 1 /\ ScanFails
      BY <1>1, <2>3, FailedScanMeansNoneOnline DEF IInv
    <2>4. size \in Nat
      BY <1>1, MaxUpstreamsAssumption DEF IInv, TypeOK
    <2> QED
      BY <2>1, <2>2, <2>3, <2>4 DEF RoundRobinNextHost
  <1> QED
    BY InitEstablishes, NextPreserves, <1>1, PTL DEF Spec, NoOvertaking

\* Theorem: nextHost answers undefined only when no host is online, and
\* otherwise a host that is.
THEOREM Availability == Spec => FindsAvailableHost
  <1>1. ASSUME IInv, [Next]_vars
        PROVE  [NextHost =>
                  IF online = {} THEN picked' = 0 ELSE picked' \in online]_vars
    <2> SUFFICES ASSUME NextHost
                 PROVE  IF online = {} THEN picked' = 0 ELSE picked' \in online
      OBVIOUS
    <2>0. size \in Nat /\ currentIdx \in 0..size /\ online \in SUBSET (1..size)
      BY <1>1, MaxUpstreamsAssumption DEF IInv, TypeOK
    <2>1. CASE FindOnline
      BY <2>1 DEF FindOnline
    <2>2. CASE size > 1 /\ ScanFinds
      BY <2>2 DEF ScanFinds, Returns
    <2>3. CASE size > 1 /\ ScanFails
      BY <1>1, <2>3, FailedScanMeansNoneOnline DEF IInv
    <2> QED
      BY <2>1, <2>2, <2>3 DEF NextHost, RoundRobinNextHost, FirstFreeNextHost
  <1> QED
    BY InitEstablishes, NextPreserves, <1>1, PTL DEF Spec, FindsAvailableHost

-----------------------------------------------------------------------------
(* The lists of a path.                                                    *)

\* Lemma: the lists of a path are routes of the gateway.
LEMMA VisitedType ==
    ASSUME NEW p \in Paths
    PROVE  Visited(p) \in Seq(Routes)
  BY RoutesAssumption DEF Visited

\* Lemma: the routes that match a path are among those it looks at.
LEMMA MatchesAreVisited ==
    ASSUME NEW p \in Paths, NEW r \in Routes, Matches(r, p)
    PROVE  \E i \in DOMAIN Visited(p) : Visited(p)[i] = r
  <1>1. CASE p \in DOMAIN Exact /\ r = Exact[p]
    <2>1. 1 \in DOMAIN Visited(p) /\ Visited(p)[1] = r
      BY <1>1, RoutesAssumption DEF Visited
    <2> QED
      BY <2>1
  <1>2. CASE <<r, p>> \in Tests
    <2>1. PICK k \in DOMAIN Regexes : r = Regexes[k]
      BY <1>2, RoutesAssumption
    <2>2. CASE p \in DOMAIN Exact
      <3>1. k + 1 \in DOMAIN Visited(p) /\ Visited(p)[k + 1] = r
        BY <2>1, <2>2, RoutesAssumption DEF Visited
      <3> QED
        BY <3>1
    <2>3. CASE p \notin DOMAIN Exact
      <3>1. k \in DOMAIN Visited(p) /\ Visited(p)[k] = r
        BY <2>1, <2>3, RoutesAssumption DEF Visited
      <3> QED
        BY <3>1
    <2> QED
      BY <2>2, <2>3
  <1> QED
    BY <1>1, <1>2 DEF Matches

\* Lemma: a route that precedes another is looked at before it.
LEMMA PrecedingIsVisitedBefore ==
    ASSUME NEW p \in Paths, NEW i \in DOMAIN Visited(p), NEW q \in Routes,
           Precedes(q, Visited(p)[i], p)
    PROVE  \E j \in 1..(i - 1) : Visited(p)[j] = q
  <1> DEFINE V == Visited(p)
  <1>1. /\ Regexes \in Seq(Routes) /\ DOMAIN Regexes = 1..Len(Regexes)
        /\ Len(Regexes) \in Nat
    BY RoutesAssumption
  <1>2. CASE p \in DOMAIN Exact
    <2>1. /\ V = <<Exact[p]>> \o Regexes /\ Exact[p] \in Routes
          /\ DOMAIN V = 1..(Len(Regexes) + 1)
          /\ V[1] = Exact[p]
          /\ \A k \in 1..Len(Regexes) : V[k + 1] = Regexes[k]
      BY <1>1, <1>2, RoutesAssumption DEF Visited
    <2> HIDE DEF V
    <2>2. CASE q = Exact[p] /\ V[i] # q
      <3>1. i > 1
        BY <1>1, <2>1, <2>2 DEF V
      <3> QED
        BY <1>1, <2>1, <2>2, <3>1 DEF V
    <2>3. ASSUME NEW a \in DOMAIN Regexes, NEW b \in DOMAIN Regexes,
                 a < b, q = Regexes[a], V[i] = Regexes[b]
          PROVE  \E j \in 1..(i - 1) : V[j] = q
      <3>1. i # 1
        BY <1>2, <2>1, <2>3, RoutesAssumption
      <3>2. i - 1 \in DOMAIN Regexes /\ V[i] = Regexes[i - 1]
        <4>1. i \in 1..(Len(Regexes) + 1)
          BY <2>1 DEF V
        <4>2. i - 1 \in 1..Len(Regexes) /\ (i - 1) + 1 = i
          BY <1>1, <3>1, <4>1
        <4> QED
          BY <1>1, <2>1, <4>2
      <3>3. i - 1 = b
        BY <2>3, <3>2, RoutesAssumption
      <3>4. V[a + 1] = q /\ a + 1 \in 1..(i - 1)
        BY <1>1, <2>1, <2>3, <3>3
      <3> QED
        BY <3>4
    <2> QED
      BY <2>2, <2>3 DEF Precedes, V
  <1>3. CASE p \notin DOMAIN Exact
    <2>1. V = Regexes
      BY <1>1, <1>3 DEF Visited
    <2>2. PICK a \in DOMAIN Regexes, b \in DOMAIN Regexes :
                 a < b /\ q = Regexes[a] /\ V[i] = Regexes[b]
      BY <1>3 DEF Precedes
    <2>3. i = b
      BY <2>1, <2>2, RoutesAssumption
    <2> QED
      BY <1>1, <2>1, <2>2, <2>3
  <1> QED
    BY <1>2, <1>3

\* Lemma: initially the loop is not running.
LEMMA GatewayInitEstablishes == GatewayInit => LoopInv
  BY
  DEF GatewayInit, LoopInv, GatewayTypeOK, Searched, Idle, Resolving,
      Undefined, TypeError

\* Lemma: one turn of the loop returns, or goes on past a route that has
\* nothing to offer; the pointer remains a number.
LEMMA TurnOfLoop ==
    ASSUME LoopInv, NextRoute
    PROVE  LET r == Head(todo) IN
           /\ r \in Routes /\ currentIdx' \in Nat
           /\ \/ /\ Continue
                 /\ Matches(r, path) => OnlineOf(r) = {}
              \/ /\ \E p \in OnlineOf(r) : Return(Host(r, p))
                 /\ Matches(r, path)
              \/ Overrun(currentIdx, lengths[r]) /\ Return(TypeError)
  <1> DEFINE r == Head(todo)
  <1>1. /\ outcome = Resolving /\ todo # <<>> /\ todo \in Seq(Routes)
        /\ currentIdx \in Nat /\ r \in Routes /\ lengths[r] \in Nat
    BY LengthsAssumption DEF LoopInv, GatewayTypeOK, NextRoute
  <1>2. OnlineOf(r) \in SUBSET (1..lengths[r])
    BY DEF OnlineOf
  <1> HIDE DEF r
  <1>3. CASE ~Matches(r, path) /\ Continue /\ UNCHANGED currentIdx
    BY <1>1, <1>3 DEF r
  <1>4. CASE Matches(r, path) /\ TryFind(r)
    BY <1>1, <1>4 DEF TryFind, r
  <1>5. CASE Matches(r, path) /\ TryOverrun(r)
    BY <1>1, <1>5 DEF TryOverrun, r
  <1>6. CASE Matches(r, path) /\ TryScan(r)
    <2>1. currentIdx \in 0..lengths[r] /\ lengths[r] > 1
      BY <1>1, <1>6 DEF TryScan, Overrun
    <2>2. CASE \E k \in 0..(lengths[r] - 1) :
                 /\ Returns(currentIdx, lengths[r], OnlineOf(r), k)
                 /\ currentIdx' = Yield(currentIdx, lengths[r], k)
                 /\ Return(Host(r, currentIdx'))
      <3>1. currentIdx' \in OnlineOf(r) /\ Return(Host(r, currentIdx'))
        BY <2>2 DEF Returns
      <3>2. currentIdx' \in Nat
        BY <1>1, <1>2, <3>1
      <3> QED
        BY <1>1, <1>6, <3>1, <3>2 DEF r
    <2>3. CASE /\ \A k \in Scanned(currentIdx, lengths[r]) :
                    Yield(currentIdx, lengths[r], k) \notin OnlineOf(r)
               /\ currentIdx' = Previous(currentIdx, lengths[r])
               /\ Continue
      <3>1. \A k \in 0..(lengths[r] - 1) :
              Yield(currentIdx, lengths[r], k) \notin OnlineOf(r)
        BY <1>1, <2>1, <2>3, ScanIsComplete
      <3>2. \A q \in 1..lengths[r] :
              \E k \in 0..(lengths[r] - 1) : Yield(currentIdx, lengths[r], k) = q
        BY <1>1, <2>1, ScanIsComplete
      <3>3. OnlineOf(r) = {}
        BY <1>2, <3>1, <3>2
      <3>4. currentIdx' \in Nat
        BY <1>1, <2>1, <2>3 DEF Previous
      <3> QED
        BY <1>1, <2>3, <3>3, <3>4 DEF r
    <2> QED
      BY <1>6, <2>2, <2>3 DEF TryScan
  <1> QED
    BY <1>3, <1>4, <1>5, <1>6 DEF NextRoute, r

\* Lemma: going on past a route keeps the loop's invariant.
LEMMA ContinueKeepsSearched ==
    ASSUME LoopInv, NextRoute, Continue,
           Matches(Head(todo), path) => OnlineOf(Head(todo)) = {},
           UNCHANGED <<policy, lengths, onlineHosts, path>>
    PROVE  todo' \in Seq(Routes) /\ Searched'
  <1> DEFINE V == Visited(path)
             done == Len(V) - Len(todo)
  <1>1. /\ V \in Seq(Routes) /\ todo \in Seq(Routes) /\ todo # <<>>
        /\ outcome = Resolving
    BY VisitedType DEF LoopInv, GatewayTypeOK, NextRoute
  <1>2. /\ done >= 0
        /\ \A i \in 1..Len(todo) : todo[i] = V[done + i]
        /\ \A i \in 1..done : Matches(V[i], path) => OnlineOf(V[i]) = {}
    BY <1>1 DEF LoopInv, Searched
  <1>3. /\ V' = V
        /\ \A i : Matches(V[i], path)' <=> Matches(V[i], path)
        /\ \A i : OnlineOf(V[i])' = OnlineOf(V[i])
    BY DEF Visited, Matches, OnlineOf
  <1> HIDE DEF V
  <1>4. /\ todo' \in Seq(Routes) /\ Len(todo') = Len(todo) - 1
        /\ \A i \in 1..Len(todo') : todo'[i] = todo[i + 1]
        /\ Len(todo) \in Nat /\ Len(V) \in Nat /\ Len(todo) >= 1
        /\ Head(todo) = todo[1]
    BY <1>1 DEF Continue
  <1>5. done \in Nat /\ Len(V) - Len(todo') = done + 1
    BY <1>2, <1>4
  <1> HIDE DEF done
  <1>6. \A i \in 1..Len(todo') : todo'[i] = V[done + 1 + i]
    BY <1>2, <1>4, <1>5
  <1>7. V[done + 1] = Head(todo)
    BY <1>2, <1>4, <1>5
  <1>8. ASSUME NEW i \in 1..(done + 1)
        PROVE  (Matches(V[i], path) => OnlineOf(V[i]) = {})'
    <2>1. CASE i = done + 1
      BY <1>3, <1>7, <2>1
    <2>2. CASE i \in 1..done
      BY <1>2, <1>3, <2>2
    <2> QED
      BY <1>5, <2>1, <2>2
  <1>9. LET d == Len(V') - Len(todo') IN
          /\ d >= 0
          /\ \A i \in 1..Len(todo') : todo'[i] = V'[d + i]
          /\ \A i \in 1..d : (Matches(V[i], path) => OnlineOf(V[i]) = {})'
    <2> DEFINE d == Len(V') - Len(todo')
    <2>1. d = done + 1
      BY <1>3, <1>5
    <2> HIDE DEF d
    <2>2. d >= 0
      BY <1>5, <2>1
    <2>3. \A i \in 1..Len(todo') : todo'[i] = V'[d + i]
      BY <1>3, <1>6, <2>1
    <2>4. \A i \in 1..d : (Matches(V[i], path) => OnlineOf(V[i]) = {})'
      BY <1>8, <2>1
    <2> QED
      BY <2>2, <2>3, <2>4 DEF d
  <1> QED
    BY <1>4, <1>9 DEF Searched, V

\* Lemma: every step preserves the loop's invariant.
LEMMA GatewayNextPreserves == LoopInv /\ [GatewayNext]_gatewayVars => LoopInv'
  <1> SUFFICES ASSUME LoopInv, [GatewayNext]_gatewayVars
               PROVE  LoopInv'
    OBVIOUS
  <1>1. ASSUME NEW p \in Paths, Request(p)
        PROVE  LoopInv'
    <2>1. Visited(p) \in Seq(Routes)
      BY VisitedType
    <2>2. GatewayTypeOK'
      BY <1>1, <2>1 DEF Request, LoopInv, GatewayTypeOK, HostsOf
    <2>3. Searched'
      BY <1>1, <2>1 DEF Request, Searched, Visited
    <2> QED
      BY <2>2, <2>3 DEF LoopInv
  <1>2. CASE NextRoute
    <2> DEFINE r == Head(todo)
    <2>1. r \in Routes /\ currentIdx' \in Nat
          /\ UNCHANGED <<policy, lengths, onlineHosts, path>>
      BY <1>2, TurnOfLoop DEF NextRoute
    <2>2. CASE Continue /\ (Matches(r, path) => OnlineOf(r) = {})
      <3>1. todo' \in Seq(Routes) /\ Searched'
        BY <1>2, <2>1, <2>2, ContinueKeepsSearched
      <3> QED
        BY <2>1, <2>2, <3>1 DEF Continue, LoopInv, GatewayTypeOK, HostsOf
    <2>3. CASE \E p \in OnlineOf(r) : Return(Host(r, p))
      BY <2>1, <2>3
      DEF Return, Host, Resolving, OnlineOf, LoopInv, GatewayTypeOK,
                        HostsOf, Searched
    <2>4. CASE Return(TypeError)
      BY <2>1, <2>4
      DEF Return, Resolving, TypeError, LoopInv, GatewayTypeOK, HostsOf,
          Searched
    <2> QED
      BY <1>2, <2>2, <2>3, <2>4, TurnOfLoop
  <1>3. CASE NoRouteLeft
    BY <1>3
    DEF NoRouteLeft, Return, Resolving, Undefined, LoopInv, GatewayTypeOK,
                HostsOf, Searched
  <1>4. ASSUME NEW r \in Routes, NEW p \in 1..lengths[r], SetHostOnline(r, p)
        PROVE  LoopInv'
    <2>1. GatewayTypeOK'
      BY <1>4 DEF SetHostOnline, LoopInv, GatewayTypeOK, HostsOf
    <2>2. Searched'
      BY <1>4 DEF SetHostOnline, Searched
    <2> QED
      BY <2>1, <2>2 DEF LoopInv
  <1>5. CASE UNCHANGED gatewayVars
    BY <1>5
    DEF gatewayVars, LoopInv, GatewayTypeOK, Searched, HostsOf, OnlineOf,
        Visited, Matches
  <1> QED
    BY <1>1, <1>2, <1>3, <1>4, <1>5 DEF GatewayNext

\* Theorem: whatever the lengths of the lists, a route serves a request only if
\* no route before it that matches has a host online.
THEOREM Precedence == GatewaySpec => EarlierRouteWins
  <1>1. ASSUME LoopInv, [GatewayNext]_gatewayVars
        PROVE  [Settles /\ outcome'.kind = "host" =>
                  LET r == outcome'.route IN
                    /\ Matches(r, path) /\ outcome'.position \in OnlineOf(r)
                    /\ \A q \in Routes :
                         Precedes(q, r, path) /\ Matches(q, path)
                           => OnlineOf(q) = {}]_gatewayVars
    <2> SUFFICES ASSUME Settles, outcome'.kind = "host"
                 PROVE  LET r == outcome'.route IN
                          /\ Matches(r, path) /\ outcome'.position \in OnlineOf(r)
                          /\ \A q \in Routes :
                               Precedes(q, r, path) /\ Matches(q, path)
                                 => OnlineOf(q) = {}
      OBVIOUS
    <2> DEFINE V == Visited(path)
               done == Len(V) - Len(todo)
    <2>1. NextRoute
      BY <1>1
      DEF GatewayNext, Settles, Request, NoRouteLeft, Return, Undefined,
          SetHostOnline, gatewayVars
    <2>2. /\ Matches(Head(todo), path)
          /\ \E p \in OnlineOf(Head(todo)) : Return(Host(Head(todo), p))
      BY <1>1, <2>1, TurnOfLoop
      DEF Settles, Continue, Return, Host, TypeError, Resolving
    <2>3. /\ outcome'.route = Head(todo)
          /\ outcome'.position \in OnlineOf(Head(todo))
      BY <2>2 DEF Return, Host
    <2>4. /\ V \in Seq(Routes) /\ todo \in Seq(Routes) /\ todo # <<>>
          /\ outcome = Resolving /\ path \in Paths
      BY <1>1, <2>1, VisitedType DEF LoopInv, GatewayTypeOK, NextRoute
    <2>5. /\ done >= 0
          /\ \A i \in 1..Len(todo) : todo[i] = V[done + i]
          /\ \A i \in 1..done : Matches(V[i], path) => OnlineOf(V[i]) = {}
      BY <1>1, <2>4 DEF LoopInv, Searched
    <2> HIDE DEF V
    <2>6. V[done + 1] = Head(todo) /\ done + 1 \in 1..Len(V) /\ DOMAIN V = 1..Len(V)
      BY <2>4, <2>5
    <2>7. done \in Nat
      BY <2>4, <2>5
    <2> HIDE DEF done
    <2>8. ASSUME NEW q \in Routes, Precedes(q, V[done + 1], path), Matches(q, path)
          PROVE  OnlineOf(q) = {}
      <3>1. \E j \in 1..((done + 1) - 1) : V[j] = q
        BY <2>4, <2>6, <2>8, PrecedingIsVisitedBefore DEF V
      <3>2. (done + 1) - 1 = done
        BY <2>7
      <3> QED
        BY <2>5, <2>8, <3>1, <3>2
    <2> QED
      BY <2>2, <2>3, <2>6, <2>8
  <1> QED
    BY GatewayInitEstablishes, GatewayNextPreserves, <1>1, PTL
    DEF GatewaySpec, EarlierRouteWins

-----------------------------------------------------------------------------
\* Lemma: the pointer moves only by scanning a list, and stays within that list.
LEMMA PointerStaysInScannedList ==
    ASSUME LoopInv, PointerFits, NextRoute, UNCHANGED lengths
    PROVE  \/ currentIdx' = currentIdx
           \/ \E r \in Routes : lengths[r] > 1 /\ currentIdx' \in 0..lengths[r]
  <1> DEFINE r == Head(todo)
  <1>1. /\ r \in Routes /\ lengths[r] \in Nat /\ currentIdx \in Nat
        /\ OnlineOf(r) \in SUBSET (1..lengths[r])
    BY LengthsAssumption DEF LoopInv, GatewayTypeOK, NextRoute, OnlineOf
  <1> HIDE DEF r
  <1>2. CASE TryScan(r)
    <2>1. currentIdx \in 0..lengths[r] /\ lengths[r] > 1
      BY <1>1, <1>2 DEF TryScan, Overrun
    <2>2. \/ \E k \in 0..(lengths[r] - 1) : currentIdx' = Yield(currentIdx, lengths[r], k)
          \/ currentIdx' = Previous(currentIdx, lengths[r])
      BY <1>2 DEF TryScan
    <2>3. currentIdx' \in 0..lengths[r]
      BY <1>1, <2>1, <2>2, YieldInList DEF Previous
    <2> QED
      BY <1>1, <2>1, <2>3
  <1>3. CASE currentIdx' = currentIdx
    BY <1>3
  <1> QED
    BY <1>2, <1>3 DEF NextRoute, TryFind, TryOverrun, r

\* Lemma: lists of one length keep the pointer fitting, and nothing throws.
LEMMA FitPreserved ==
    ASSUME FitInv, [GatewayNext]_gatewayVars
    PROVE  FitInv'
  <1>1. LoopInv'
    BY GatewayNextPreserves DEF FitInv
  <1>2. lengths \in [Routes -> Nat] /\ lengths' = lengths
        /\ \A q \in Routes : lengths[q] \in Nat
    BY LengthsAssumption
    DEF FitInv, LoopInv, GatewayTypeOK, GatewayNext, Request, NextRoute,
        NoRouteLeft, SetHostOnline, gatewayVars
  <1>3. SUFFICES ASSUME SameLengths
                 PROVE  PointerFits' /\ NextHostReturns'
    BY <1>1, <1>2 DEF FitInv, SameLengths
  <1>4. LoopInv /\ PointerFits /\ NextHostReturns
    BY <1>3 DEF FitInv
  <1>5. CASE NextRoute
    <2>1. PointerFits'
      <3>1. CASE currentIdx' = currentIdx
        BY <1>2, <1>4, <3>1 DEF PointerFits, Overrun
      <3>2. ASSUME NEW r \in Routes, lengths[r] > 1, currentIdx' \in 0..lengths[r]
            PROVE  PointerFits'
        <4>1. \A q \in Routes : lengths[q] > 1 => lengths[q] = lengths[r]
          BY <1>3, <3>2 DEF SameLengths
        <4> QED
          BY <1>2, <3>2, <4>1 DEF PointerFits, Overrun
      <3> QED
        BY <1>2, <1>4, <1>5, <3>1, <3>2, PointerStaysInScannedList
    <2>2. NextHostReturns'
      <3>1. ~Overrun(currentIdx, lengths[Head(todo)])
        BY <1>4, <1>5, TurnOfLoop DEF PointerFits
      <3> QED
        BY <1>4, <1>5, <3>1, TurnOfLoop
        DEF NextHostReturns, Continue, Return, Host, Resolving, TypeError
    <2> QED
      BY <2>1, <2>2
  <1>6. CASE currentIdx' = currentIdx /\ outcome' # TypeError
    BY <1>2, <1>4, <1>6 DEF PointerFits, Overrun, NextHostReturns
  <1>7. Resolving # TypeError /\ Undefined # TypeError /\ outcome # TypeError
    BY <1>4 DEF Resolving, Undefined, TypeError, NextHostReturns
  <1>8. CASE \E p \in Paths : Request(p)
    BY <1>6, <1>7, <1>8 DEF Request
  <1>9. CASE NoRouteLeft
    BY <1>6, <1>7, <1>9 DEF NoRouteLeft, Return
  <1>10. CASE \E r \in Routes : \E p \in 1..lengths[r] : SetHostOnline(r, p)
    BY <1>6, <1>7, <1>10 DEF SetHostOnline
  <1>11. CASE UNCHANGED gatewayVars
    BY <1>6, <1>7, <1>11 DEF gatewayVars
  <1> QED
    BY <1>5, <1>8, <1>9, <1>10, <1>11 DEF GatewayNext

\* Theorem: for every gateway whose scanned lists have one length, a request
\* gets a host exactly when a route that matches its path has one online, and
\* nextHost never throws, although the routes share one pointer.
THEOREM Resolution ==
    GatewaySpec => ResolvesIffAvailable /\ []EqualListsNeverThrow
  <1>1. GatewayInit => FitInv
    <2>1. GatewayInit => PointerFits /\ NextHostReturns
      BY LengthsAssumption
      DEF GatewayInit, PointerFits, Overrun, NextHostReturns, Idle, TypeError
    <2> QED
      BY <2>1, GatewayInitEstablishes DEF FitInv
  <1>2. FitInv /\ [GatewayNext]_gatewayVars => FitInv'
    BY FitPreserved
  <1>3. FitInv => EqualListsNeverThrow
    BY DEF FitInv, EqualListsNeverThrow
  <1>4. ASSUME FitInv, [GatewayNext]_gatewayVars
        PROVE  [Settles /\ SameLengths => (outcome'.kind = "host" <=> Available(path))]_gatewayVars
    <2> SUFFICES ASSUME Settles, SameLengths
                 PROVE  outcome'.kind = "host" <=> Available(path)
      OBVIOUS
    <2> DEFINE V == Visited(path)
               done == Len(V) - Len(todo)
    <2>1. /\ V \in Seq(Routes) /\ todo \in Seq(Routes)
          /\ outcome = Resolving /\ DOMAIN V = 1..Len(V) /\ path \in Paths
      BY <1>4, VisitedType DEF FitInv, LoopInv, GatewayTypeOK, Settles
    <2>2. /\ done >= 0
          /\ \A i \in 1..Len(todo) : todo[i] = V[done + i]
          /\ \A i \in 1..done : Matches(V[i], path) => OnlineOf(V[i]) = {}
      BY <1>4, <2>1 DEF FitInv, LoopInv, Searched
    <2> HIDE DEF V
    <2>3. CASE NextRoute
      <3>1. ~Overrun(currentIdx, lengths[Head(todo)])
        BY <1>4, <2>3, TurnOfLoop DEF FitInv, PointerFits
      <3>2. /\ Matches(Head(todo), path)
            /\ \E p \in OnlineOf(Head(todo)) : Return(Host(Head(todo), p))
        BY <1>4, <2>3, <3>1, TurnOfLoop DEF FitInv, Settles, Continue
      <3>3. Head(todo) \in Routes
        BY <2>1, <2>3 DEF NextRoute
      <3>4. Available(path)
        BY <3>2, <3>3 DEF Available
      <3> QED
        BY <3>2, <3>4 DEF Return, Host
    <2>4. CASE NoRouteLeft
      <3>1. done = Len(V)
        BY <2>1, <2>4 DEF NoRouteLeft
      <3>2. ASSUME NEW r \in Routes, Matches(r, path)
            PROVE  OnlineOf(r) = {}
        <4>1. PICK i \in DOMAIN V : V[i] = r
          BY <2>1, <3>2, MatchesAreVisited DEF V
        <4>2. i \in 1..done
          BY <2>1, <3>1
        <4> QED
          BY <2>2, <3>2, <4>1, <4>2
      <3>3. ~Available(path)
        BY <3>2 DEF Available
      <3> QED
        BY <2>4, <3>3 DEF NoRouteLeft, Return, Undefined
    <2> QED
      BY <1>4, <2>3, <2>4
      DEF GatewayNext, Request, SetHostOnline, Settles, gatewayVars
  <1> QED
    BY <1>1, <1>2, <1>3, <1>4, PTL DEF GatewaySpec, ResolvesIffAvailable

\* The loop of resolveUpstream keeps its types, whatever the patterns and the
\* lengths of the lists: what is left to try is a part of the routes, and the
\* pointer is a natural number, in its list or beyond it.
THEOREM Types == GatewaySpec => []GatewayTypeOK
  <1>1. LoopInv => GatewayTypeOK
    BY DEF LoopInv
  <1> QED
    BY <1>1, GatewayInitEstablishes, GatewayNextPreserves, PTL DEF GatewaySpec
=============================================================================
