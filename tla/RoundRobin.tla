----------------------------- MODULE RoundRobin -----------------------------
(***************************************************************************)
(* What a gateway's load balancer keeps, and the scan of                   *)
(* RoundRobinLoadBalancer.nextHost over a list of n > 1 upstreams, as pure *)
(* operators.  Position p in 1..n stands for upstreams[p - 1]; the pointer *)
(* idx is the field _currentIdx, so idx equals the position of the host    *)
(* the iterator yielded last.                                              *)
(***************************************************************************)
LOCAL INSTANCE Integers

VARIABLES
    policy,         \* the type of the gateway's load balancer
    currentIdx      \* RoundRobinLoadBalancer._currentIdx

\* IndexedUpstreamIterator.next wraps only when the pointer equals the length.
Start(idx, n) == IF idx = n THEN 0 ELSE idx

\* The position yielded by the (k+1)-th call of next, which is also the
\* pointer after that call.
Yield(idx, n, k) ==
    LET i == Start(idx, n) + k IN IF i < n THEN i + 1 ELSE i + 1 - n

\* Mutant of Previous: upstreams[_currentIdx] instead of the host before it.
PreviousIsNext(idx, n) == IF idx = 0 THEN n ELSE IF idx = n THEN 1 ELSE idx + 1

\* The host whose turn ends the do-while loop.
Previous(idx, n) == IF idx = 0 THEN n ELSE idx

\* The iterations the loop makes when no host is online: it stops after the
\* one that yields Previous.
Scanned(idx, n) ==
    {k \in 0..(n - 1) : \A j \in 0..(k - 1) : Yield(idx, n, j) # Previous(idx, n)}

\* The iteration k of the loop that returns, when `up' are the online positions.
Returns(idx, n, up, k) ==
    /\ k \in Scanned(idx, n)
    /\ Yield(idx, n, k) \in up
    /\ \A j \in 0..(k - 1) : Yield(idx, n, j) \notin up

\* A pointer beyond the list: next() yields undefined, and reading isOnline of
\* it is a TypeError.
Overrun(idx, n) == n > 1 /\ idx > n
=============================================================================
