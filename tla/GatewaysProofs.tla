---------------------------- MODULE GatewaysProofs ----------------------------
(***************************************************************************)
(* Where the gateways are: in Redis, and in the hosts a process serves.    *)
(*                                                                         *)
(* The table of a process has what Redis has, for any number of requests   *)
(* and domains.  The argument is about the order of the one queue to       *)
(* Redis: commands are executed in its order, and replied to in its order, *)
(* so that what Redis holds of a domain is what the change of it executed  *)
(* last will leave in the table; only a clone goes the other way, from the *)
(* table to Redis, and it is always the first change of its domain.        *)
(*                                                                         *)
(* The Map and the array of the gateway service implement the table of     *)
(* GatewayTable: the array holds one gateway of a domain at most, and what *)
(* a splice leaves stays in its order.                                     *)
(***************************************************************************)
EXTENDS RedisGateways, GatewayHosts, SequenceTheorems, WellFoundedInduction, TLAPS

-----------------------------------------------------------------------------
(* The invariant that makes the table follow Redis.                        *)

\* The n-th request of the queue is to save a clone of the wildcard gateway.
IsClone(n) == requests[pipe[n]].op = "clone"

\* Redis has executed its command, and the reply is on its way.
Executed(n) == requests[pipe[n]].executed

\* The queue holds a request once; commands are executed in its order.
InOrder ==
    /\ \A m, n \in DOMAIN pipe : pipe[m] = pipe[n] => m = n
    /\ \A m, n \in DOMAIN pipe : m < n /\ Executed(n) => Executed(m)

\* A clone is never looked for, and what is saved is a gateway.
WellFormed(r) ==
    /\ r.op = "clone" => r.step = "change"
    /\ r.op # "delete" => IsThere(r.gateway)

\* Redis holds at most one gateway of a domain.
OneKind(d) == \E k \in Kinds : redis[k][d] = 0

\* A clone is in the table before it is in Redis, and is the first change of its
\* domain that is under way.
ClonesFirst(d) ==
    \A n \in DOMAIN pipe : Changes(n, d) /\ IsClone(n) =>
       /\ table[d] = requests[pipe[n]].gateway
       /\ \A m \in 1..(n - 1) : ~Changes(m, d)

\* Redis holds what the change that was executed last will leave in the table.
LastExecuted(d) ==
    \A n \in DOMAIN pipe :
       /\ Changes(n, d) /\ Executed(n)
       /\ \A m \in DOMAIN pipe : m > n /\ Changes(m, d) => ~Executed(m)
       => ById(d) = After(requests[pipe[n]])

\* When no reply is on its way to the table, and no clone to Redis, they agree.
Agree(d) ==
    (\A n \in DOMAIN pipe : Changes(n, d) => ~Executed(n) /\ ~IsClone(n))
      => table[d] = ById(d)

\* What holds of a domain that is not doubtful.
Follows(d) == OneKind(d) /\ ClonesFirst(d) /\ LastExecuted(d) /\ Agree(d)

\* The inductive invariant behind TableFollowsRedis.
IInv ==
    /\ TypeOK
    /\ InOrder
    /\ \A n \in DOMAIN pipe : WellFormed(requests[pipe[n]])
    /\ \A d \in Domains \ doubtful : Follows(d)

-----------------------------------------------------------------------------
\* Lemma: a bounded set of numbers that is not empty has its maximum.
LEMMA MaxExists ==
    ASSUME NEW k \in Nat, NEW S, S \subseteq 1..k, S # {}
    PROVE  Max(S) \in S
  <1> DEFINE T == {k - n : n \in S}
  <1>1. \A m \in S : m \in Nat /\ m <= k /\ k - m \in T
    OBVIOUS
  <1>2. \A y \in T : \E m \in S : y = k - m
    OBVIOUS
  <1> HIDE DEF T
  <1>3. T \subseteq Nat
    BY <1>1, <1>2
  <1>4. T # {}
    BY <1>1
  <1>5. PICK x \in T : \A y \in T : ~(<<y, x>> \in OpToRel(<, Nat))
    BY <1>3, <1>4, NatLessThanWellFounded, WFMin
  <1>6. \A y \in T : ~(y < x)
    BY <1>3, <1>5 DEF OpToRel
  <1>7. PICK n \in S : x = k - n
    BY <1>2
  <1>8. \A m \in S : ~(k - m < k - n)
    BY <1>1, <1>6, <1>7
  <1>9. \A m \in S : n >= m
    BY <1>1, <1>8
  <1> QED BY <1>9 DEF Max

\* Lemma: the queue consists of requests that are neither done nor beyond those made.
LEMMA Queued ==
    ASSUME TypeOK
    PROVE  /\ Len(pipe) \in Nat /\ DOMAIN pipe = 1..Len(pipe)
           /\ Len(requests) \in Nat /\ DOMAIN requests = 1..Len(requests)
           /\ \A i \in DOMAIN requests : requests[i] \in Requests \cup {Done}
           /\ \A n \in DOMAIN pipe : /\ pipe[n] \in DOMAIN requests
                                     /\ requests[pipe[n]] \in Requests
  <1>1. requests \in Seq(Requests \cup {Done}) /\ pipe \in Seq(DOMAIN requests)
    BY DEF TypeOK
  <1>2. Len(requests) \in Nat /\ DOMAIN requests = 1..Len(requests)
    BY <1>1
  <1>3. Len(pipe) \in Nat /\ DOMAIN pipe = 1..Len(pipe)
    BY <1>1
  <1>4. \A i \in DOMAIN requests : requests[i] \in Requests \cup {Done}
    BY <1>1
  <1>5. \A n \in DOMAIN pipe : pipe[n] \in DOMAIN requests
    BY <1>1
  <1>6. \A n \in DOMAIN pipe : requests[pipe[n]].step # "done"
    BY DEF TypeOK
  <1>7. \A n \in DOMAIN pipe : requests[pipe[n]] \in Requests
    BY <1>4, <1>5, <1>6 DEF Done
  <1> QED BY <1>2, <1>3, <1>4, <1>5, <1>7

\* Lemma: what becomes of the queue when a request is appended to it.
LEMMA Appended ==
    ASSUME TypeOK, NEW r \in Requests, Len(requests) < MaxRequests,
           requests' = Append(requests, r), pipe' = Append(pipe, Len(requests) + 1)
    PROVE  /\ DOMAIN pipe' = 1..(Len(pipe) + 1)
           /\ \A n \in DOMAIN pipe : /\ pipe'[n] = pipe[n]
                                     /\ requests'[pipe'[n]] = requests[pipe[n]]
           /\ pipe'[Len(pipe) + 1] = Len(requests) + 1
           /\ requests'[pipe'[Len(pipe) + 1]] = r
           /\ requests' \in Seq(Requests \cup {Done}) /\ Len(requests') <= MaxRequests
           /\ pipe' \in Seq(DOMAIN requests')
           /\ \A n \in DOMAIN pipe' : requests'[pipe'[n]].step # "done"
  <1>1. requests \in Seq(Requests \cup {Done}) /\ pipe \in Seq(DOMAIN requests)
    BY DEF TypeOK
  <1>2. requests' \in Seq(Requests \cup {Done}) /\ Len(requests') = Len(requests) + 1
    BY <1>1
  <1>3. DOMAIN requests' = 1..(Len(requests) + 1) /\ DOMAIN requests = 1..Len(requests)
    BY <1>1, <1>2
  <1>4. /\ \A i \in DOMAIN requests : requests'[i] = requests[i]
        /\ requests'[Len(requests) + 1] = r
    BY <1>1, <1>3
  <1>5. pipe' \in Seq(1..(Len(requests) + 1)) /\ DOMAIN pipe' = 1..(Len(pipe) + 1)
    <2>1. pipe \in Seq(1..(Len(requests) + 1)) /\ Len(requests) + 1 \in 1..(Len(requests) + 1)
      BY <1>1, <1>3
    <2> QED BY <2>1
  <1>6. \A n \in DOMAIN pipe : pipe'[n] = pipe[n] /\ pipe[n] \in DOMAIN requests
    BY <1>1
  <1>7. pipe'[Len(pipe) + 1] = Len(requests) + 1
    BY <1>1
  <1>8. \A n \in DOMAIN pipe : requests'[pipe'[n]] = requests[pipe[n]]
    BY <1>4, <1>6
  <1>9. \A n \in DOMAIN pipe' : requests'[pipe'[n]] \in Requests
    <2>1. \A n \in DOMAIN pipe' : n \in DOMAIN pipe \/ n = Len(pipe) + 1
      BY <1>1, <1>5
    <2> QED BY <2>1, <1>4, <1>7, <1>8, Queued
  <1>10. \A n \in DOMAIN pipe' : requests'[pipe'[n]].step # "done"
    BY <1>9 DEF Requests
  <1>11. Len(requests') <= MaxRequests
    BY <1>1, <1>2, RedisAssumption
  <1> QED BY <1>2, <1>3, <1>4, <1>5, <1>6, <1>7, <1>8, <1>10, <1>11

\* Lemma: what becomes of the queue when its first request leaves it.
LEMMA Left ==
    ASSUME TypeOK, pipe # <<>>, pipe' = Tail(pipe)
    PROVE  /\ Len(pipe) - 1 \in Nat /\ DOMAIN pipe' = 1..(Len(pipe) - 1)
           /\ \A n \in DOMAIN pipe' : n + 1 \in DOMAIN pipe /\ pipe'[n] = pipe[n + 1]
           /\ 1 \in DOMAIN pipe /\ Head(pipe) = pipe[1]
  BY DEF TypeOK

-----------------------------------------------------------------------------
\* Lemma: a look in Redis, by either way, finds a gateway.
LEMMA GivenIsGateway ==
    ASSUME TypeOK, NEW d \in Domains
    PROVE  ById(d) \in Gateways /\ Given(d) \in Gateways
  <1>1. \A k \in Kinds : redis[k][d] \in Versions
    BY DEF TypeOK
  <1>2. Absent \in Gateways /\ \A k \in Kinds : Gateway(k, redis[k][d]) \in Gateways
    BY <1>1 DEF Absent, Gateway, Gateways, Kinds, Versions
  <1> QED BY <1>2 DEF ById, Given, Kinds

\* Lemma: the initial states are of their types.
LEMMA InitTypes == Init => TypeOK
  <1> SUFFICES ASSUME Init PROVE TypeOK
    OBVIOUS
  <1>1. redis \in [Kinds -> [Domains -> Versions]]
    BY DEF Init, Versions
  <1>2. table \in [Domains -> Gateways]
    BY DEF Init, Absent, Gateway, Gateways, Kinds, Versions
  <1> QED BY <1>1, <1>2, RedisAssumption DEF Init, TypeOK

\* Lemma: the administrator and the gateway service make well-formed requests.
LEMMA NewRequest ==
    ASSUME NEW op \in {"add", "update", "delete", "clone"}, NEW path \in Domains,
           NEW d \in Domains, NEW g \in Gateways
    PROVE  Request(op, path, d, g) \in Requests
  BY DEF Request, Requests, Absent, Gateway, Gateways, Kinds, Versions

\* Lemma: an administrator's request keeps the types.
LEMMA ArrivesTypes ==
    ASSUME TypeOK, NEW op \in {"add", "update", "delete"}, NEW k \in AdminKinds,
           NEW v \in Versions, NEW path \in Domains, NEW d \in Domains,
           Arrives(op, k, v, path, d)
    PROVE  TypeOK'
  <1> DEFINE r == Request(op, path, d, Gateway(k, v))
  <1>1. Gateway(k, v) \in Gateways
    BY RedisAssumption DEF Gateway, Gateways
  <1>2. r \in Requests
    BY <1>1, NewRequest
  <1>3. /\ Len(requests) < MaxRequests
        /\ requests' = Append(requests, r) /\ pipe' = Append(pipe, Len(requests) + 1)
        /\ UNCHANGED <<redis, ready, breaks, buffer, table, doubtful>>
    BY DEF Arrives
  <1> HIDE DEF r
  <1>4. /\ requests' \in Seq(Requests \cup {Done}) /\ Len(requests') <= MaxRequests
        /\ pipe' \in Seq(DOMAIN requests')
        /\ \A n \in DOMAIN pipe' : requests'[pipe'[n]].step # "done"
    BY <1>2, <1>3, Appended
  <1> QED BY <1>3, <1>4 DEF TypeOK

\* Lemma: a request of a client, with its clone, keeps the types.
LEMMA ResolvesTypes ==
    ASSUME TypeOK, NEW d \in Domains, Resolves(d)
    PROVE  TypeOK'
  <1> DEFINE i == Len(requests) + 1
             r == Request("clone", d, d, table[Wildcard])
  <1>1. table[Wildcard] \in Gateways
    BY RedisAssumption DEF TypeOK
  <1>2. r \in Requests
    BY <1>1, NewRequest
  <1>3. table' \in [Domains -> Gateways]
    BY <1>1 DEF Resolves, TypeOK
  <1>4. Len(requests) < MaxRequests /\ UNCHANGED <<redis, ready, breaks>>
    BY DEF Resolves
  <1>5. CASE ready /\ ~Unsent(r)
    <2>1. /\ requests' = Append(requests, r) /\ pipe' = Append(pipe, i)
          /\ doubtful' \in {doubtful, doubtful \cup {d}} /\ buffer' = buffer
      BY <1>5 DEF Resolves
    <2> HIDE DEF r
    <2>2. /\ requests' \in Seq(Requests \cup {Done}) /\ Len(requests') <= MaxRequests
          /\ pipe' \in Seq(DOMAIN requests')
          /\ \A n \in DOMAIN pipe' : requests'[pipe'[n]].step # "done"
      BY <1>2, <1>4, <2>1, Appended
    <2> QED BY <1>3, <1>4, <2>1, <2>2 DEF TypeOK
  <1>6. CASE ~(ready /\ ~Unsent(r))
    <2>1. /\ requests' = Append(requests, Done) /\ pipe' = pipe
          /\ buffer' = IF ready THEN buffer ELSE Append(buffer, i)
          /\ doubtful' = doubtful \cup {d}
      BY <1>6 DEF Resolves
    <2>2. requests \in Seq(Requests \cup {Done}) /\ pipe \in Seq(DOMAIN requests)
      BY DEF TypeOK
    <2>3. /\ requests' \in Seq(Requests \cup {Done}) /\ Len(requests') = Len(requests) + 1
          /\ \A j \in DOMAIN requests : j \in DOMAIN requests' /\ requests'[j] = requests[j]
      BY <2>1, <2>2
    <2>4. pipe' \in Seq(DOMAIN requests')
      BY <2>1, <2>2, <2>3
    <2>5. \A n \in DOMAIN pipe' : requests'[pipe'[n]].step # "done"
      BY <2>1, <2>3, Queued DEF TypeOK
    <2>6. i \in Ids /\ Len(requests') <= MaxRequests
      BY <1>4, <2>2, <2>3, RedisAssumption DEF Ids
    <2>7. buffer' \in Seq(Ids) /\ (ready => buffer' = <<>>)
      BY <2>1, <2>6 DEF TypeOK
    <2> QED BY <1>3, <1>4, <2>1, <2>3, <2>4, <2>5, <2>6, <2>7 DEF TypeOK
  <1> QED BY <1>5, <1>6

\* Lemma: one of the requests is put in another step, or is done.
LEMMA Replaced ==
    ASSUME TypeOK, NEW i \in DOMAIN requests, NEW r \in Requests \cup {Done},
           requests' = [requests EXCEPT ![i] = r]
    PROVE  /\ requests' \in Seq(Requests \cup {Done}) /\ Len(requests') <= MaxRequests
           /\ DOMAIN requests' = DOMAIN requests
           /\ requests'[i] = r
           /\ \A j \in DOMAIN requests : j # i => requests'[j] = requests[j]
  BY DEF TypeOK

\* Lemma: a request remains one when it is executed, and when its change is sent.
LEMMA RequestSteps ==
    ASSUME NEW r \in Requests, NEW g \in Gateways
    PROVE  /\ [r EXCEPT !.executed = TRUE, !.found = g] \in Requests
           /\ [r EXCEPT !.executed = TRUE] \in Requests
           /\ [r EXCEPT !.step = "change", !.executed = FALSE] \in Requests
  <1>1. [r EXCEPT !.executed = TRUE, !.found = g] \in Requests
    BY DEF Requests
  <1>2. [r EXCEPT !.executed = TRUE] \in Requests
    BY DEF Requests
  <1>3. [r EXCEPT !.step = "change", !.executed = FALSE] \in Requests
    BY DEF Requests
  <1> QED BY <1>1, <1>2, <1>3

\* The gateway a request saves, or removes.
Subject(r) == IF r.op = "delete" THEN r.found ELSE r.gateway

\* Lemma: a request whose command Redis executes is the same, save what is
\* known by then.
LEMMA Executing ==
    ASSUME TypeOK, NEW n \in DOMAIN pipe,
           ExecutesLook(pipe[n]) \/ ExecutesChange(pipe[n])
    PROVE  \E x \in Requests :
             /\ requests' = [requests EXCEPT ![pipe[n]] = x]
             /\ x.executed = TRUE
             /\ x.op = requests[pipe[n]].op /\ x.step = requests[pipe[n]].step
             /\ x.domain = requests[pipe[n]].domain /\ x.gateway = requests[pipe[n]].gateway
  <1> DEFINE i == pipe[n]
             r == requests[i]
  <1>1. r \in Requests
    BY Queued
  <1>2. Found(r) \in Gateways
    <2>1. r.path \in Domains
      BY <1>1 DEF Requests
    <2>2. Absent \in Gateways
      BY DEF Absent, Gateway, Gateways, Kinds, Versions
    <2> QED BY <2>1, <2>2, GivenIsGateway DEF Found
  <1>3. CASE ExecutesLook(i)
    <2> DEFINE x == [r EXCEPT !.executed = TRUE, !.found = Found(r)]
    <2>1. requests' = [requests EXCEPT ![i] = x]
      BY <1>3 DEF ExecutesLook
    <2>2. x \in Requests
      BY <1>1, <1>2, RequestSteps
    <2>3. /\ x.executed = TRUE /\ x.op = r.op /\ x.step = r.step
          /\ x.domain = r.domain /\ x.gateway = r.gateway
      BY <1>1 DEF Requests
    <2> HIDE DEF x, r
    <2> QED BY <2>1, <2>2, <2>3 DEF r
  <1>4. CASE ExecutesChange(i)
    <2> DEFINE x == [r EXCEPT !.executed = TRUE]
    <2>1. requests' = [requests EXCEPT ![i] = x]
      BY <1>4 DEF ExecutesChange
    <2>2. x \in Requests
      BY <1>1, <1>2, RequestSteps
    <2>3. /\ x.executed = TRUE /\ x.op = r.op /\ x.step = r.step
          /\ x.domain = r.domain /\ x.gateway = r.gateway
      BY <1>1 DEF Requests
    <2> HIDE DEF x, r
    <2> QED BY <2>1, <2>2, <2>3 DEF r
  <1> QED BY <1>3, <1>4

\* Lemma: the execution of a command keeps the types.
LEMMA ExecutesTypes ==
    ASSUME TypeOK, Executes
    PROVE  TypeOK'
  <1>1. PICK n \in DOMAIN pipe : ExecutesLook(pipe[n]) \/ ExecutesChange(pipe[n])
    BY DEF Executes
  <1>2. UNCHANGED <<pipe, ready, breaks, buffer, table>>
    BY DEF Executes
  <1> DEFINE i == pipe[n]
             r == requests[i]
             g == Subject(r)
  <1>3. i \in DOMAIN requests /\ r \in Requests
    BY Queued
  <1>4. g \in Gateways /\ r.domain \in Domains
    BY <1>3 DEF Requests, Subject
  <1>5. g.kind \in Kinds /\ g.version \in Versions
    BY <1>4 DEF Gateways
  <1>6. redis' \in [Kinds -> [Domains -> Versions]] /\ doubtful' \subseteq Domains
    <2>1. redis \in [Kinds -> [Domains -> Versions]] /\ doubtful \subseteq Domains
      BY DEF TypeOK
    <2>2. CASE ExecutesLook(i)
      BY <2>1, <2>2 DEF ExecutesLook
    <2>3. CASE ExecutesChange(i)
      <3>1. doubtful' \in {doubtful, doubtful \cup {r.domain}}
        BY <2>3 DEF ExecutesChange
      <3>2. redis' = [redis EXCEPT ![g.kind][r.domain] =
                        IF r.op = "delete" THEN 0 ELSE g.version]
        BY <2>3 DEF ExecutesChange, Subject
      <3>3. (IF r.op = "delete" THEN 0 ELSE g.version) \in Versions
        BY <1>5 DEF Versions
      <3> HIDE DEF g, r
      <3>4. redis' \in [Kinds -> [Domains -> Versions]]
        BY <1>4, <1>5, <2>1, <3>2, <3>3
      <3> QED BY <1>4, <2>1, <3>1, <3>4
    <2> QED BY <1>1, <2>2, <2>3
  <1>7. PICK x \in Requests : requests' = [requests EXCEPT ![i] = x]
    BY <1>1, Executing
  <1>8. /\ requests' \in Seq(Requests \cup {Done}) /\ Len(requests') <= MaxRequests
        /\ DOMAIN requests' = DOMAIN requests
        /\ requests'[i] = x
        /\ \A j \in DOMAIN requests : j # i => requests'[j] = requests[j]
    BY <1>3, <1>7, Replaced
  <1>9. \A m \in DOMAIN pipe' : requests'[pipe'[m]] \in Requests
    BY <1>2, <1>8, Queued
  <1>10. \A m \in DOMAIN pipe' : requests'[pipe'[m]].step # "done"
    BY <1>9 DEF Requests
  <1>11. pipe' \in Seq(DOMAIN requests')
    BY <1>2, <1>8 DEF TypeOK
  <1> QED BY <1>2, <1>6, <1>8, <1>10, <1>11 DEF TypeOK

\* Lemma: a reply keeps the types.
LEMMA RepliesTypes ==
    ASSUME TypeOK, InOrder, Replies
    PROVE  TypeOK'
  <1> DEFINE i == Head(pipe)
             r == requests[i]
  <1>1. pipe # <<>> /\ UNCHANGED <<redis, ready, breaks, buffer>>
    BY DEF Replies
  <1>2. i = pipe[1] /\ 1 \in DOMAIN pipe
    BY <1>1 DEF TypeOK
  <1>3. i \in DOMAIN requests /\ r \in Requests
    BY <1>2, Queued
  <1>4. /\ r.domain \in Domains /\ r.gateway \in Gateways
        /\ Absent \in Gateways /\ After(r) \in Gateways
    BY <1>3 DEF Requests, After, Absent, Gateway, Gateways, Kinds, Versions
  <1>5. doubtful' \in {doubtful, doubtful \cup {r.domain}}
    BY DEF Replies, ReplyToLook, ReplyToChange
  <1>6. CASE requests' = [requests EXCEPT ![i] = Done] /\ pipe' = Tail(pipe)
    <2>1. table' \in [Domains -> Gateways]
      <3>1. table' \in {table, [table EXCEPT ![r.domain] = After(r)]}
        BY DEF Replies, ReplyToLook, ReplyToChange
      <3> QED BY <1>4, <3>1 DEF TypeOK
    <2>2. /\ requests' \in Seq(Requests \cup {Done}) /\ Len(requests') <= MaxRequests
          /\ DOMAIN requests' = DOMAIN requests
          /\ \A j \in DOMAIN requests : j # i => requests'[j] = requests[j]
      BY <1>3, <1>6, Replaced
    <2>3. \A n \in DOMAIN pipe' : n + 1 \in DOMAIN pipe /\ pipe'[n] = pipe[n + 1] /\ n + 1 # 1
      BY <1>1, <1>6, Left
    <2>4. \A n \in DOMAIN pipe' : pipe'[n] # i
      BY <1>2, <2>3 DEF InOrder
    <2>5. \A n \in DOMAIN pipe' : requests'[pipe'[n]].step # "done"
      BY <2>2, <2>3, <2>4, Queued DEF TypeOK
    <2>6. pipe' \in Seq(DOMAIN requests')
      BY <1>1, <1>6, <2>2 DEF TypeOK
    <2> QED BY <1>1, <1>4, <1>5, <2>1, <2>2, <2>5, <2>6 DEF TypeOK
  <1>7. CASE /\ requests' = [requests EXCEPT ![i] = [@ EXCEPT !.step = "change", !.executed = FALSE]]
             /\ pipe' = Append(Tail(pipe), i) /\ table' = table
    <2>1. [r EXCEPT !.step = "change", !.executed = FALSE] \in Requests
      BY <1>3 DEF Requests
    <2>2. requests' = [requests EXCEPT ![i] = [r EXCEPT !.step = "change", !.executed = FALSE]]
      BY <1>7
    <2>3. /\ requests' \in Seq(Requests \cup {Done}) /\ Len(requests') <= MaxRequests
          /\ DOMAIN requests' = DOMAIN requests
          /\ requests'[i] = [r EXCEPT !.step = "change", !.executed = FALSE]
          /\ \A j \in DOMAIN requests : j # i => requests'[j] = requests[j]
      BY <1>3, <2>1, <2>2, Replaced
    <2>4. Tail(pipe) \in Seq(DOMAIN requests) /\ pipe' \in Seq(DOMAIN requests')
      BY <1>1, <1>3, <1>7, <2>3 DEF TypeOK
    <2>5. \A n \in DOMAIN pipe' : pipe'[n] \in DOMAIN requests
      BY <2>3, <2>4
    <2>6. \A n \in DOMAIN pipe' : pipe'[n] = i \/ \E m \in DOMAIN pipe : pipe'[n] = pipe[m]
      BY <1>1, <1>7 DEF TypeOK
    <2>7. \A n \in DOMAIN pipe' : requests'[pipe'[n]] \in Requests
      BY <2>1, <2>3, <2>5, <2>6, Queued
    <2>8. \A n \in DOMAIN pipe' : requests'[pipe'[n]].step # "done"
      BY <2>7 DEF Requests
    <2> QED BY <1>1, <1>4, <1>5, <1>7, <2>3, <2>4, <2>8 DEF TypeOK
  <1> QED BY <1>6, <1>7 DEF Replies, ReplyToLook, ReplyToChange

\* Lemma: a break of the connection keeps the types.
LEMMA BreaksTypes ==
    ASSUME TypeOK, Breaks
    PROVE  TypeOK'
  <1>1. /\ ready' = FALSE /\ breaks' = breaks + 1 /\ breaks < MaxBreaks
        /\ ready /\ pipe' = <<>> /\ UNCHANGED <<redis, buffer>>
        /\ doubtful' \subseteq Domains
    BY DEF Breaks, TypeOK
  <1>2. /\ requests' \in Seq(Requests \cup {Done}) /\ Len(requests') <= MaxRequests
    <2>1. requests \in Seq(Requests \cup {Done}) /\ Len(requests) <= MaxRequests
      BY DEF TypeOK
    <2>2. requests' = [i \in DOMAIN requests |->
                         IF i \in ToSet(pipe) THEN Done ELSE requests[i]]
      BY DEF Breaks
    <2> QED BY <2>1, <2>2
  <1>3. \A d \in Domains : Saving(d) # {} => requests[pipe[Max(Saving(d))]].gateway \in Gateways
    <2> SUFFICES ASSUME NEW d \in Domains, Saving(d) # {}
                 PROVE  requests[pipe[Max(Saving(d))]].gateway \in Gateways
      OBVIOUS
    <2>1. Saving(d) \subseteq DOMAIN pipe /\ DOMAIN pipe = 1..Len(pipe) /\ Len(pipe) \in Nat
      BY Queued DEF Saving
    <2>2. Max(Saving(d)) \in DOMAIN pipe
      BY <2>1, MaxExists
    <2> QED BY <2>2, Queued DEF Requests
  <1>4. table' \in [Domains -> Gateways]
    BY <1>3 DEF Breaks, TypeOK
  <1>5. breaks' \in 0..MaxBreaks
    BY <1>1, RedisAssumption DEF TypeOK
  <1>6. pipe' \in Seq(DOMAIN requests') /\ \A n \in DOMAIN pipe' : requests'[pipe'[n]].step # "done"
    BY <1>1
  <1>7. buffer' \in Seq(Ids) /\ redis' \in [Kinds -> [Domains -> Versions]]
    BY <1>1 DEF TypeOK
  <1> QED BY <1>1, <1>2, <1>4, <1>5, <1>6, <1>7 DEF TypeOK

\* Lemma: a restart keeps the types.
LEMMA RestartsTypes ==
    ASSUME TypeOK, Restarts
    PROVE  TypeOK'
  <1>1. requests' \in Seq(Requests \cup {Done}) /\ Len(requests') <= MaxRequests
    <2>1. requests \in Seq(Requests \cup {Done}) /\ Len(requests) <= MaxRequests
      BY DEF TypeOK
    <2>2. requests' = [i \in DOMAIN requests |-> Done]
      BY DEF Restarts
    <2> QED BY <2>1, <2>2
  <1>2. table' \in [Domains -> Gateways]
    BY GivenIsGateway DEF Restarts
  <1>3. pipe' = <<>> /\ ready' = TRUE /\ buffer' = <<>> /\ UNCHANGED <<redis, breaks>>
    BY DEF Restarts
  <1>4. doubtful' \subseteq Domains
    BY DEF Restarts
  <1> QED BY <1>1, <1>2, <1>3, <1>4 DEF TypeOK

-----------------------------------------------------------------------------
\* Lemma: a request whose command enters the queue keeps the invariant.
LEMMA ArrivesPreserves ==
    ASSUME IInv, NEW op \in {"add", "update", "delete"}, NEW k \in AdminKinds,
           NEW v \in Versions, NEW path \in Domains, NEW d \in Domains,
           Arrives(op, k, v, path, d)
    PROVE  IInv'
  <1> DEFINE r == Request(op, path, d, Gateway(k, v))
             l == Len(pipe) + 1
  <1>1. TypeOK
    BY DEF IInv
  <1>2. TypeOK'
    BY <1>1, ArrivesTypes
  <1>3. r \in Requests
    BY RedisAssumption, NewRequest DEF Gateway, Gateways
  <1>4. r.step = "look" /\ r.executed = FALSE /\ r.op = op /\ (op # "delete" => IsThere(r.gateway))
    <2>1. v # 0
      BY <1>1, Queued, RedisAssumption DEF Arrives
    <2> QED BY <2>1 DEF Request, IsThere, Gateway
  <1>5. /\ Len(requests) < MaxRequests
        /\ requests' = Append(requests, r) /\ pipe' = Append(pipe, Len(requests) + 1)
        /\ UNCHANGED <<redis, table, doubtful>>
    BY DEF Arrives
  <1> HIDE DEF r
  <1>6. /\ DOMAIN pipe' = 1..l
        /\ \A n \in DOMAIN pipe : /\ pipe'[n] = pipe[n]
                                  /\ requests'[pipe'[n]] = requests[pipe[n]]
        /\ pipe'[l] = Len(requests) + 1
        /\ requests'[pipe'[l]] = r
    BY <1>1, <1>3, <1>5, Appended
  <1>7. /\ Len(pipe) \in Nat /\ DOMAIN pipe = 1..Len(pipe)
        /\ \A n \in DOMAIN pipe : pipe[n] \in 1..Len(requests)
    BY <1>1, Queued
  <1>8. InOrder'
    <2>1. \A n \in DOMAIN pipe : pipe'[n] # pipe'[l]
      BY <1>6, <1>7
    <2>2. \A n \in DOMAIN pipe' : n \in DOMAIN pipe \/ n = l
      BY <1>6, <1>7
    <2>3. \A m, n \in DOMAIN pipe' : pipe'[m] = pipe'[n] => m = n
      BY <1>6, <2>1, <2>2 DEF IInv, InOrder
    <2>4. \A n \in DOMAIN pipe : Executed(n)' <=> Executed(n)
      BY <1>6 DEF Executed
    <2>5. requests'[pipe'[l]].executed = FALSE
      BY <1>4, <1>6
    <2>6. ASSUME NEW m \in DOMAIN pipe', NEW n \in DOMAIN pipe', m < n, Executed(n)'
          PROVE  Executed(m)'
      <3>1. n \in DOMAIN pipe
        BY <2>2, <2>5, <2>6 DEF Executed
      <3>2. m \in DOMAIN pipe
        BY <1>7, <2>2, <2>6, <3>1
      <3> QED BY <2>4, <2>6, <3>1, <3>2 DEF IInv, InOrder
    <2> QED BY <2>3, <2>6 DEF InOrder
  <1>9. \A n \in DOMAIN pipe' : WellFormed(requests[pipe[n]])'
    BY <1>4, <1>6, <1>7 DEF IInv, WellFormed, IsThere
  <1>10. ASSUME NEW e \in Domains \ doubtful
         PROVE  Follows(e)'
    <2>1. Follows(e) /\ ById(e)' = ById(e)
      BY <1>5 DEF IInv, ById
    <2>2. \A n \in DOMAIN pipe' : n \in DOMAIN pipe \/ (n = l /\ ~Changes(n, e)')
      BY <1>4, <1>6, <1>7 DEF Changes
    <2>3. \A n \in DOMAIN pipe : /\ Changes(n, e)' <=> Changes(n, e)
                                 /\ IsClone(n)' <=> IsClone(n)
                                 /\ Executed(n)' <=> Executed(n)
                                 /\ requests'[pipe'[n]] = requests[pipe[n]]
      BY <1>6 DEF Changes, IsClone, Executed
    <2>4. \A n \in DOMAIN pipe : n \in DOMAIN pipe' /\ 1..(n - 1) \subseteq DOMAIN pipe
      BY <1>6, <1>7
    <2>5. OneKind(e)'
      BY <1>5, <2>1 DEF OneKind, Follows
    <2>6. ClonesFirst(e)'
      BY <1>5, <2>1, <2>2, <2>3, <2>4 DEF ClonesFirst, Follows
    <2>7. LastExecuted(e)'
      BY <1>5, <2>1, <2>2, <2>3, <2>4 DEF LastExecuted, Follows, After
    <2>8. Agree(e)'
      BY <1>5, <2>1, <2>2, <2>3, <2>4 DEF Agree, Follows
    <2> QED BY <2>5, <2>6, <2>7, <2>8 DEF Follows
  <1> QED BY <1>2, <1>5, <1>8, <1>9, <1>10 DEF IInv

\* Lemma: a clone is put in the table when no change of its domain is under way,
\* which keeps the invariant.
LEMMA ResolvesPreserves ==
    ASSUME IInv, NEW d \in Domains, Resolves(d)
    PROVE  IInv'
  <1> DEFINE i == Len(requests) + 1
             r == Request("clone", d, d, table[Wildcard])
  <1>1. TypeOK
    BY DEF IInv
  <1>2. TypeOK'
    BY <1>1, ResolvesTypes
  <1>3. table[Wildcard] \in Gateways /\ IsThere(table[Wildcard])
    BY <1>1, RedisAssumption DEF TypeOK, Resolves
  <1>4. r \in Requests
    BY <1>3, NewRequest
  <1>5. /\ r.step = "change" /\ r.executed = FALSE /\ r.op = "clone" /\ r.domain = d
        /\ r.gateway = table[Wildcard]
    BY DEF Request
  <1>6. /\ Len(requests) < MaxRequests /\ redis' = redis
        /\ table' = [table EXCEPT ![d] = table[Wildcard]]
    BY DEF Resolves
  <1>7. /\ \A e \in Domains : ById(e)' = ById(e) /\ (e # d => table'[e] = table[e])
        /\ table'[d] = table[Wildcard]
    BY <1>1, <1>6 DEF ById, TypeOK
  <1>8. /\ Len(pipe) \in Nat /\ DOMAIN pipe = 1..Len(pipe)
        /\ \A n \in DOMAIN pipe : pipe[n] \in 1..Len(requests)
    BY <1>1, Queued
  <1>9. CASE ready /\ ~Unsent(r)
    <2>1. /\ requests' = Append(requests, r) /\ pipe' = Append(pipe, i)
          /\ doubtful' = IF Changing(d) THEN doubtful \cup {d} ELSE doubtful
      BY <1>9 DEF Resolves
    <2> HIDE DEF r
    <2>2. /\ DOMAIN pipe' = 1..(Len(pipe) + 1)
          /\ \A n \in DOMAIN pipe : /\ pipe'[n] = pipe[n]
                                    /\ requests'[pipe'[n]] = requests[pipe[n]]
          /\ pipe'[Len(pipe) + 1] = i
          /\ requests'[pipe'[Len(pipe) + 1]] = r
      BY <1>1, <1>4, <1>6, <2>1, Appended
    <2>3. PICK l \in Nat : l = Len(pipe) + 1
      BY <1>8
    <2>4. \A n \in DOMAIN pipe' : n \in DOMAIN pipe \/ n = l
      BY <1>8, <2>2, <2>3
    <2>5. pipe'[l] = i /\ requests'[pipe'[l]] = r /\ l \in DOMAIN pipe'
      BY <1>8, <2>2, <2>3
    <2>6. \A n \in DOMAIN pipe : n < l /\ n \in DOMAIN pipe' /\ pipe'[n] # pipe'[l]
      BY <1>8, <2>2, <2>3, <2>5
    <2>7. InOrder'
      <3>1. \A m, n \in DOMAIN pipe' : pipe'[m] = pipe'[n] => m = n
        BY <2>2, <2>4, <2>6 DEF IInv, InOrder
      <3>2. ASSUME NEW m \in DOMAIN pipe', NEW n \in DOMAIN pipe', m < n, Executed(n)'
            PROVE  Executed(m)'
        <4>1. n \in DOMAIN pipe
          BY <1>5, <2>4, <2>5, <3>2 DEF Executed
        <4>2. m \in DOMAIN pipe
          BY <1>8, <2>2, <3>2, <4>1
        <4> QED BY <2>2, <3>2, <4>1, <4>2 DEF Executed, IInv, InOrder
      <3> QED BY <3>1, <3>2 DEF InOrder
    <2>8. \A n \in DOMAIN pipe' : WellFormed(requests[pipe[n]])'
      BY <1>3, <1>5, <2>2, <2>4, <2>5 DEF IInv, WellFormed, IsThere
    <2>9. \A n \in DOMAIN pipe : \A e \in Domains :
             /\ Changes(n, e)' <=> Changes(n, e)
             /\ IsClone(n)' <=> IsClone(n)
             /\ Executed(n)' <=> Executed(n)
      BY <2>2 DEF Changes, IsClone, Executed
    <2>10. ASSUME NEW e \in Domains \ doubtful'
           PROVE  Follows(e)'
      <3>1. Follows(e)
        BY <2>1, <2>10 DEF IInv
      <3>2. \A n \in DOMAIN pipe : 1..(n - 1) \subseteq DOMAIN pipe
        BY <1>8
      <3>3. OneKind(e)'
        BY <1>6, <3>1 DEF OneKind, Follows
      <3>4. CASE e = d
        <4>1. \A n \in DOMAIN pipe : ~Changes(n, e)
          BY <2>1, <2>10, <3>4 DEF Changing
        <4>2. \A n \in DOMAIN pipe : ~Changes(n, e)'
          BY <2>9, <4>1
        <4>3. /\ requests'[pipe'[l]].step = "change" /\ requests'[pipe'[l]].domain = e
              /\ requests'[pipe'[l]].op = "clone" /\ requests'[pipe'[l]].executed = FALSE
              /\ requests'[pipe'[l]].gateway = table'[e]
          BY <1>5, <1>7, <2>5, <3>4
        <4>4. 1..(l - 1) \subseteq DOMAIN pipe
          BY <1>8, <2>3
        <4>5. ClonesFirst(e)'
          BY <2>4, <4>2, <4>3, <4>4 DEF ClonesFirst
        <4>6. LastExecuted(e)'
          BY <2>4, <4>2, <4>3 DEF LastExecuted, Executed
        <4>7. Changes(l, e)' /\ IsClone(l)'
          BY <4>3 DEF Changes, IsClone
        <4>8. Agree(e)'
          BY <2>5, <4>7 DEF Agree
        <4> QED BY <3>3, <4>5, <4>6, <4>8 DEF Follows
      <3>5. CASE e # d
        <4>1. ~(requests'[pipe'[l]].domain = e)
          BY <1>5, <2>5, <3>5
        <4>2. \A n \in DOMAIN pipe' : Changes(n, e)' => n \in DOMAIN pipe
          BY <2>4, <4>1 DEF Changes
        <4>3. ClonesFirst(e)'
          BY <1>7, <2>2, <2>9, <3>1, <3>2, <3>5, <4>2 DEF ClonesFirst, Follows
        <4>4. LastExecuted(e)'
          BY <1>7, <2>2, <2>6, <2>9, <3>1, <4>2 DEF LastExecuted, Follows, After
        <4>5. Agree(e)'
          BY <1>7, <2>6, <2>9, <3>1, <3>5 DEF Agree, Follows
        <4> QED BY <3>3, <4>3, <4>4, <4>5 DEF Follows
      <3> QED BY <3>4, <3>5
    <2> QED BY <1>2, <2>7, <2>8, <2>10 DEF IInv
  <1>10. CASE ~(ready /\ ~Unsent(r))
    <2>1. /\ requests' = Append(requests, Done) /\ pipe' = pipe
          /\ doubtful' = doubtful \cup {d}
      BY <1>10 DEF Resolves
    <2>2. \A n \in DOMAIN pipe : requests'[pipe[n]] = requests[pipe[n]]
      BY <1>1, <1>8, <2>1 DEF TypeOK
    <2>3. \A n \in DOMAIN pipe : \A e \in Domains :
             /\ Changes(n, e)' <=> Changes(n, e)
             /\ IsClone(n)' <=> IsClone(n)
             /\ Executed(n)' <=> Executed(n)
      BY <2>1, <2>2 DEF Changes, IsClone, Executed
    <2>4. InOrder' /\ \A n \in DOMAIN pipe' : WellFormed(requests[pipe[n]])'
      BY <2>1, <2>2, <2>3 DEF IInv, InOrder, Executed, WellFormed, IsThere
    <2>5. ASSUME NEW e \in Domains \ doubtful'
          PROVE  Follows(e)'
      <3>1. Follows(e) /\ e # d
        BY <2>1, <2>5 DEF IInv
      <3>2. \A n \in DOMAIN pipe : 1..(n - 1) \subseteq DOMAIN pipe
        BY <1>8
      <3>3. OneKind(e)'
        BY <1>6, <3>1 DEF OneKind, Follows
      <3>4. ClonesFirst(e)'
        BY <1>7, <2>1, <2>2, <2>3, <3>1, <3>2 DEF ClonesFirst, Follows
      <3>5. LastExecuted(e)'
        <4> SUFFICES ASSUME NEW n \in DOMAIN pipe, Changes(n, e)', Executed(n)',
                            \A k \in DOMAIN pipe : k > n /\ Changes(k, e)' => ~Executed(k)'
                     PROVE  ById(e)' = After(requests'[pipe'[n]])
          BY <2>1 DEF LastExecuted, After
        <4>1. Changes(n, e) /\ Executed(n)
          BY <2>3
        <4>2. \A k \in DOMAIN pipe : k > n /\ Changes(k, e) => ~Executed(k)
          BY <2>3
        <4>3. ById(e) = After(requests[pipe[n]])
          BY <3>1, <4>1, <4>2 DEF LastExecuted, Follows
        <4> QED BY <1>7, <2>1, <2>2, <4>3
      <3>6. Agree(e)'
        BY <1>7, <2>1, <2>3, <3>1 DEF Agree, Follows
      <3> QED BY <3>3, <3>4, <3>5, <3>6 DEF Follows
    <2> QED BY <1>2, <2>4, <2>5 DEF IInv
  <1> QED BY <1>9, <1>10

\* Lemma: Redis executes the first command not executed yet: what its change
\* leaves in Redis is what it will leave in the table.
LEMMA ExecutesPreserves ==
    ASSUME IInv, Executes
    PROVE  IInv'
  <1>1. TypeOK /\ InOrder
    BY DEF IInv
  <1>2. TypeOK'
    BY <1>1, ExecutesTypes
  <1>3. PICK n \in DOMAIN pipe :
          /\ IsNext(n)
          /\ \/ requests[pipe[n]].step = "look" /\ ExecutesLook(pipe[n])
             \/ requests[pipe[n]].step # "look" /\ ExecutesChange(pipe[n])
    BY DEF Executes
  <1>4. pipe' = pipe /\ table' = table
    BY DEF Executes
  <1> DEFINE r == requests[pipe[n]]
             g == Subject(r)
  <1>5. /\ Len(pipe) \in Nat /\ DOMAIN pipe = 1..Len(pipe) /\ n \in DOMAIN pipe
        /\ \A m \in DOMAIN pipe : /\ pipe[m] \in DOMAIN requests
                                  /\ requests[pipe[m]] \in Requests
    BY <1>1, Queued
  <1>6. \A m \in DOMAIN pipe : m # n => pipe[m] # pipe[n]
    BY <1>1, <1>5 DEF InOrder
  <1>0. PICK x \in Requests :
          /\ requests' = [requests EXCEPT ![pipe[n]] = x]
          /\ x.executed = TRUE /\ x.op = r.op /\ x.step = r.step
          /\ x.domain = r.domain /\ x.gateway = r.gateway
    BY <1>1, <1>3, Executing
  <1>7. \A m \in DOMAIN pipe : m # n => requests'[pipe[m]] = requests[pipe[m]]
    BY <1>5, <1>6, <1>0
  <1>8. /\ requests'[pipe[n]].executed = TRUE
        /\ requests'[pipe[n]].op = r.op /\ requests'[pipe[n]].step = r.step
        /\ requests'[pipe[n]].domain = r.domain /\ requests'[pipe[n]].gateway = r.gateway
    BY <1>5, <1>0
  <1>9. ~Executed(n) /\ Executed(n)' /\ (\A m \in 1..(n - 1) : Executed(m))
    BY <1>3, <1>4, <1>8 DEF Executed, IsNext
  <1>10. \A m \in DOMAIN pipe : m > n => ~Executed(m)
    BY <1>1, <1>5, <1>9 DEF InOrder
  <1>11. \A m \in DOMAIN pipe :
           /\ m # n => (Executed(m)' <=> Executed(m))
           /\ IsClone(m)' <=> IsClone(m)
           /\ \A e \in Domains : Changes(m, e)' <=> Changes(m, e)
           /\ After(requests'[pipe[m]]) = After(requests[pipe[m]])
           /\ requests'[pipe[m]].gateway = requests[pipe[m]].gateway
    BY <1>4, <1>7, <1>8 DEF Executed, IsClone, Changes, After
  <1>12. InOrder'
    <2>1. ASSUME NEW k \in DOMAIN pipe, NEW m \in DOMAIN pipe, k < m, Executed(m)'
          PROVE  Executed(k)'
      <3>1. CASE k = n
        BY <1>9, <3>1
      <3>2. CASE k # n /\ m = n
        BY <1>5, <1>9, <1>11, <2>1, <3>2
      <3>3. CASE k # n /\ m # n
        BY <1>1, <1>11, <2>1, <3>3 DEF InOrder
      <3> QED BY <3>1, <3>2, <3>3
    <2> QED BY <1>1, <1>4, <2>1 DEF InOrder
  <1>13. \A m \in DOMAIN pipe' : WellFormed(requests[pipe[m]])'
    BY <1>4, <1>5, <1>7, <1>8 DEF IInv, WellFormed, IsThere
  <1>14. ASSUME NEW e \in Domains \ doubtful'
         PROVE  Follows(e)'
    <2>1. Follows(e)
      BY <1>3, <1>14 DEF IInv, ExecutesLook, ExecutesChange
    <2>2. \A m \in DOMAIN pipe : 1..(m - 1) \subseteq DOMAIN pipe
      BY <1>5
    <2>3. ClonesFirst(e)'
      BY <1>4, <1>11, <2>1, <2>2 DEF ClonesFirst, Follows
    <2>4. CASE ~Changes(n, e)
      <3>1. \A k \in Kinds : redis'[k][e] = redis[k][e]
        <4>1. CASE r.step = "look"
          BY <1>3, <4>1 DEF ExecutesLook
        <4>2. CASE r.step # "look"
          <5>1. r.step = "change" /\ r.domain # e /\ r.domain \in Domains
            BY <1>5, <2>4, <4>2 DEF Changes, Requests
          <5>2. \E j, v : redis' = [redis EXCEPT ![j][r.domain] = v]
            BY <1>3, <4>2 DEF ExecutesChange
          <5>3. redis \in [Kinds -> [Domains -> Versions]]
            BY <1>1 DEF TypeOK
          <5> QED BY <5>1, <5>2, <5>3
        <4> QED BY <4>1, <4>2
      <3>2. ById(e)' = ById(e) /\ OneKind(e)'
        BY <2>1, <3>1 DEF ById, OneKind, Follows, Kinds
      <3>3. LastExecuted(e)'
        BY <1>4, <1>11, <2>1, <2>4, <3>2 DEF LastExecuted, Follows
      <3>4. Agree(e)'
        BY <1>4, <1>11, <2>1, <2>4, <3>2 DEF Agree, Follows
      <3> QED BY <2>3, <3>2, <3>3, <3>4 DEF Follows
    <2>5. CASE Changes(n, e)
      <3>1. r.step = "change" /\ r.domain = e
        BY <2>5 DEF Changes
      <3>2. /\ redis' = [redis EXCEPT ![g.kind][e] = IF r.op = "delete" THEN 0 ELSE g.version]
            /\ doubtful' = IF \E k \in Kinds \ {g.kind} : redis[k][e] # 0
                             THEN doubtful \cup {e} ELSE doubtful
        BY <1>3, <3>1 DEF ExecutesChange, Subject
      <3>3. g \in Gateways /\ (r.op # "delete" => g = r.gateway /\ IsThere(g))
        BY <1>5 DEF IInv, Requests, WellFormed, Subject
      <3>4. g.kind \in Kinds
        BY <3>3 DEF Gateways
      <3>5. \A k \in Kinds \ {g.kind} : redis[k][e] = 0
        BY <1>14, <3>2
      <3>6. \A k \in Kinds \ {g.kind} : redis'[k][e] = 0
        BY <1>1, <3>2, <3>4, <3>5 DEF TypeOK
      <3>7. redis'[g.kind][e] = IF r.op = "delete" THEN 0 ELSE g.version
        BY <1>1, <1>14, <3>2, <3>4 DEF TypeOK
      <3> HIDE DEF g
      <3>8. OneKind(e)'
        BY <3>6 DEF OneKind, Kinds
      <3>9. ById(e)' = After(r)
        <4>1. CASE r.op = "delete"
          BY <3>6, <3>7, <4>1 DEF ById, After, Kinds
        <4>2. CASE r.op # "delete"
          <5>1. ById(e)' = Gateway(g.kind, g.version)
            BY <3>3, <3>4, <3>6, <3>7, <4>2 DEF ById, Kinds, IsThere
          <5> QED BY <3>3, <4>2, <5>1 DEF After, Gateway, Gateways
        <4> QED BY <4>1, <4>2
      <3>10. LastExecuted(e)'
        <4> SUFFICES ASSUME NEW m \in DOMAIN pipe, Changes(m, e)', Executed(m)',
                            \A k \in DOMAIN pipe : k > m /\ Changes(k, e)' => ~Executed(k)'
                     PROVE  ById(e)' = After(requests'[pipe'[m]])
          BY <1>4 DEF LastExecuted, After
        <4>1. ~(n > m)
          BY <1>5, <1>9, <1>11, <2>5
        <4>2. ~(m > n)
          BY <1>5, <1>10, <1>11
        <4>3. m = n
          BY <1>5, <4>1, <4>2
        <4> QED BY <1>4, <1>11, <3>9, <4>3
      <3>11. Agree(e)'
        BY <1>4, <1>5, <1>9, <1>11, <2>5 DEF Agree
      <3> QED BY <2>3, <3>8, <3>10, <3>11 DEF Follows
    <2> QED BY <2>4, <2>5
  <1> QED BY <1>2, <1>12, <1>13, <1>14 DEF IInv

-----------------------------------------------------------------------------
\* Lemma: a reply ends the first request of the queue, or puts its change at the
\* end.
LEMMA ReplyCases ==
    ASSUME Replies
    PROVE  \/ requests' = [requests EXCEPT ![Head(pipe)] = Done] /\ pipe' = Tail(pipe)
           \/ /\ requests[Head(pipe)].step = "look"
              /\ requests' = [requests EXCEPT ![Head(pipe)] =
                                [@ EXCEPT !.step = "change", !.executed = FALSE]]
              /\ pipe' = Append(Tail(pipe), Head(pipe)) /\ UNCHANGED <<table, doubtful>>
  <1>1. CASE requests[Head(pipe)].step = "look"
    <2>1. ReplyToLook(Head(pipe))
      BY <1>1 DEF Replies
    <2> QED BY <1>1, <2>1 DEF ReplyToLook, ReplyToChange
  <1>2. CASE requests[Head(pipe)].step # "look"
    <2>1. ReplyToChange(Head(pipe))
      BY <1>2 DEF Replies
    <2> QED BY <2>1 DEF ReplyToChange
  <1> QED BY <1>1, <1>2

\* Lemma: a reply makes the table what Redis was when the change was executed.
LEMMA RepliesPreserves ==
    ASSUME IInv, Replies
    PROVE  IInv'
  <1> DEFINE i == Head(pipe)
             r == requests[i]
  <1>1. TypeOK /\ InOrder
    BY DEF IInv
  <1>2. TypeOK'
    BY <1>1, RepliesTypes
  <1>3. pipe # <<>> /\ r.executed /\ redis' = redis
    BY DEF Replies
  <1>4. /\ Len(pipe) \in Nat /\ DOMAIN pipe = 1..Len(pipe) /\ 1 \in DOMAIN pipe
        /\ i = pipe[1] /\ i \in DOMAIN requests /\ r \in Requests
        /\ \A n \in DOMAIN pipe : /\ pipe[n] \in DOMAIN requests
                                  /\ requests[pipe[n]] \in Requests
    <2>1. 1 \in DOMAIN pipe /\ Head(pipe) = pipe[1]
      BY <1>1, <1>3 DEF TypeOK
    <2> QED BY <1>1, <2>1, Queued
  <1>5. \A e \in Domains : ById(e)' = ById(e) /\ OneKind(e)' = OneKind(e)
    BY <1>3 DEF ById, OneKind
  <1>6. \A n \in DOMAIN pipe : n # 1 => n > 1 /\ pipe[n] # i
    BY <1>1, <1>4 DEF InOrder
  <1>7. CASE requests' = [requests EXCEPT ![i] = Done] /\ pipe' = Tail(pipe)
    <2>1. /\ DOMAIN pipe' = 1..(Len(pipe) - 1)
          /\ \A n \in DOMAIN pipe' : n + 1 \in DOMAIN pipe /\ pipe'[n] = pipe[n + 1]
      BY <1>1, <1>3, <1>7, Left
    <2>2. \A n \in DOMAIN pipe' : n \in Nat /\ n >= 1 /\ requests'[pipe'[n]] = requests[pipe[n + 1]]
      BY <1>4, <1>6, <1>7, <2>1
    <2>3. \A n \in DOMAIN pipe : n # 1 => n - 1 \in DOMAIN pipe' /\ n = (n - 1) + 1
      BY <1>4, <2>1
    <2>4. \A n \in DOMAIN pipe' : \A e \in Domains :
            /\ Executed(n)' <=> Executed(n + 1)
            /\ IsClone(n)' <=> IsClone(n + 1)
            /\ Changes(n, e)' <=> Changes(n + 1, e)
      BY <2>2 DEF Executed, IsClone, Changes
    <2>5. InOrder'
      <3>1. \A m, n \in DOMAIN pipe' : pipe'[m] = pipe'[n] => m = n
        BY <1>1, <2>1, <2>2 DEF InOrder
      <3>2. ASSUME NEW m \in DOMAIN pipe', NEW n \in DOMAIN pipe', m < n, Executed(n)'
            PROVE  Executed(m)'
        <4>1. m + 1 < n + 1 /\ m + 1 \in DOMAIN pipe /\ n + 1 \in DOMAIN pipe
          BY <2>1, <2>2, <3>2
        <4>2. Executed(n + 1)
          BY <2>2, <3>2 DEF Executed
        <4>3. Executed(m + 1)
          BY <1>1, <4>1, <4>2 DEF InOrder
        <4> QED BY <2>2, <4>3 DEF Executed
      <3> QED BY <3>1, <3>2 DEF InOrder
    <2>6. \A n \in DOMAIN pipe' : WellFormed(requests[pipe[n]])'
      BY <2>1, <2>2 DEF IInv, WellFormed, IsThere
    <2>7. ASSUME NEW e \in Domains \ doubtful', ~Changes(1, e), table'[e] = table[e],
                 doubtful \subseteq doubtful'
          PROVE  Follows(e)'
      <3>1. Follows(e)
        BY <2>7 DEF IInv
      <3>2. ClonesFirst(e)'
        <4> SUFFICES ASSUME NEW n \in DOMAIN pipe', Changes(n, e)', IsClone(n)'
                     PROVE  /\ table'[e] = requests'[pipe'[n]].gateway
                            /\ \A m \in 1..(n - 1) : ~Changes(m, e)'
          BY DEF ClonesFirst
        <4>1. /\ table[e] = requests[pipe[n + 1]].gateway
              /\ \A m \in 1..n : ~Changes(m, e)
          BY <2>1, <2>2, <2>4, <3>1 DEF ClonesFirst, Follows
        <4>2. \A m \in 1..(n - 1) : m \in DOMAIN pipe' /\ m + 1 \in 1..n
          BY <1>4, <2>1
        <4> QED BY <2>2, <2>4, <2>7, <4>1, <4>2
      <3>3. LastExecuted(e)'
        <4> SUFFICES ASSUME NEW n \in DOMAIN pipe', Changes(n, e)', Executed(n)',
                            \A k \in DOMAIN pipe' : k > n /\ Changes(k, e)' => ~Executed(k)'
                     PROVE  ById(e)' = After(requests'[pipe'[n]])
          BY DEF LastExecuted, After
        <4>1. Changes(n + 1, e) /\ Executed(n + 1) /\ n + 1 \in DOMAIN pipe
          BY <2>1, <2>4
        <4>2. ASSUME NEW k \in DOMAIN pipe, k > n + 1, Changes(k, e)
              PROVE  ~Executed(k)
          <5>1. k - 1 \in DOMAIN pipe' /\ k - 1 > n /\ k = (k - 1) + 1
            BY <1>4, <2>2, <2>3, <4>2
          <5> QED BY <2>4, <4>2, <5>1
        <4>3. ById(e) = After(requests[pipe[n + 1]])
          BY <3>1, <4>1, <4>2 DEF LastExecuted, Follows
        <4> QED BY <1>5, <2>2, <4>3
      <3>4. Agree(e)'
        <4> SUFFICES ASSUME \A n \in DOMAIN pipe' : Changes(n, e)' => ~Executed(n)' /\ ~IsClone(n)'
                     PROVE  table'[e] = ById(e)'
          BY DEF Agree
        <4>1. \A n \in DOMAIN pipe : Changes(n, e) => ~Executed(n) /\ ~IsClone(n)
          BY <2>3, <2>4, <2>7
        <4> QED BY <1>5, <2>7, <3>1, <4>1 DEF Agree, Follows
      <3> QED BY <1>5, <3>1, <3>2, <3>3, <3>4 DEF Follows
    <2>8. ASSUME NEW e \in Domains \ doubtful', Changes(1, e), doubtful' = doubtful,
                 table' = IF r.op = "clone" THEN table
                          ELSE [table EXCEPT ![r.domain] = After(r)]
          PROVE  Follows(e)'
      <3>1. Follows(e)
        BY <2>8 DEF IInv
      <3>2. r.domain = e /\ r.step = "change" /\ Executed(1)
        BY <1>3, <1>4, <2>8 DEF Changes, Executed
      <3>3. r.op = "clone" => table[e] = r.gateway
        BY <1>4, <2>8, <3>1 DEF ClonesFirst, IsClone, Follows
      <3>4. table'[e] = After(r)
        BY <1>1, <2>8, <3>2, <3>3 DEF After, TypeOK
      <3>5. \A n \in DOMAIN pipe : n # 1 /\ Changes(n, e) => ~IsClone(n)
        <4> SUFFICES ASSUME NEW n \in DOMAIN pipe, n # 1, Changes(n, e), IsClone(n)
                     PROVE  FALSE
          OBVIOUS
        <4>1. 1 \in 1..(n - 1)
          BY <1>4
        <4> QED BY <2>8, <3>1, <4>1 DEF ClonesFirst, Follows
      <3>6. ClonesFirst(e)'
        BY <1>4, <2>1, <2>2, <2>4, <3>5 DEF ClonesFirst
      <3>7. LastExecuted(e)'
        <4> SUFFICES ASSUME NEW n \in DOMAIN pipe', Changes(n, e)', Executed(n)',
                            \A k \in DOMAIN pipe' : k > n /\ Changes(k, e)' => ~Executed(k)'
                     PROVE  ById(e)' = After(requests'[pipe'[n]])
          BY DEF LastExecuted, After
        <4>1. Changes(n + 1, e) /\ Executed(n + 1) /\ n + 1 \in DOMAIN pipe
          BY <2>1, <2>4
        <4>2. ASSUME NEW k \in DOMAIN pipe, k > n + 1, Changes(k, e)
              PROVE  ~Executed(k)
          <5>1. k - 1 \in DOMAIN pipe' /\ k - 1 > n /\ k = (k - 1) + 1
            BY <1>4, <2>2, <2>3, <4>2
          <5> QED BY <2>4, <4>2, <5>1
        <4>3. ById(e) = After(requests[pipe[n + 1]])
          BY <3>1, <4>1, <4>2 DEF LastExecuted, Follows
        <4> QED BY <1>5, <2>2, <4>3
      <3>8. Agree(e)'
        <4> SUFFICES ASSUME \A n \in DOMAIN pipe' : Changes(n, e)' => ~Executed(n)' /\ ~IsClone(n)'
                     PROVE  table'[e] = ById(e)'
          BY DEF Agree
        <4>1. \A n \in DOMAIN pipe : n > 1 /\ Changes(n, e) => ~Executed(n)
          BY <1>4, <2>3, <2>4
        <4>2. ById(e) = After(r)
          BY <1>4, <2>8, <3>1, <3>2, <4>1 DEF LastExecuted, Follows
        <4> QED BY <1>5, <3>4, <4>2
      <3> QED BY <1>5, <3>1, <3>6, <3>7, <3>8 DEF Follows
    <2>9. ASSUME NEW e \in Domains \ doubtful'
          PROVE  Follows(e)'
      <3>1. CASE r.step = "look" /\ table' = table /\ doubtful' = doubtful
        <4>1. ~Changes(1, e)
          BY <1>4, <3>1 DEF Changes
        <4> QED BY <2>7, <3>1, <4>1
      <3>2. CASE r.step = "look" /\ ReplyToChange(i) /\ doubtful' = doubtful \cup {r.domain}
        <4>1. ~Changes(1, e) /\ e # r.domain
          BY <1>4, <2>9, <3>2 DEF Changes
        <4>2. table'[e] = table[e]
          BY <1>1, <3>2, <4>1 DEF ReplyToChange, TypeOK
        <4> QED BY <2>7, <3>2, <4>1, <4>2
      <3>3. CASE r.step # "look" /\ ReplyToChange(i) /\ doubtful' = doubtful
        <4>1. table' = IF r.op = "clone" THEN table
                       ELSE [table EXCEPT ![r.domain] = After(r)]
          BY <3>3 DEF ReplyToChange
        <4>2. CASE Changes(1, e)
          BY <2>8, <3>3, <4>1, <4>2
        <4>3. CASE ~Changes(1, e)
          <5>1. r.step = "change" /\ r.domain # e
            BY <1>4, <3>3, <4>3 DEF Changes, Requests
          <5>2. table'[e] = table[e]
            BY <1>1, <4>1, <5>1 DEF TypeOK
          <5> QED BY <2>7, <3>3, <4>3, <5>2
        <4> QED BY <4>2, <4>3
      <3>4. ~(pipe' = Append(Tail(pipe), i))
        <4>1. Tail(pipe) \in Seq(DOMAIN requests)
          BY <1>1, <1>3 DEF TypeOK
        <4>2. Len(Append(Tail(pipe), i)) = Len(Tail(pipe)) + 1 /\ Len(Tail(pipe)) \in Nat
          BY <1>4, <4>1
        <4> QED BY <1>7, <4>2
      <3> QED BY <3>1, <3>2, <3>3, <3>4 DEF Replies, ReplyToLook
    <2> QED BY <1>2, <2>5, <2>6, <2>9 DEF IInv
  <1>8. CASE /\ r.step = "look"
             /\ requests' = [requests EXCEPT ![i] = [@ EXCEPT !.step = "change", !.executed = FALSE]]
             /\ pipe' = Append(Tail(pipe), i) /\ UNCHANGED <<table, doubtful>>
    <2>1. PICK l \in Nat : l = Len(pipe)
      BY <1>4
    <2>2. Tail(pipe) \in Seq(DOMAIN requests) /\ Len(Tail(pipe)) = l - 1
      BY <1>1, <1>3, <2>1 DEF TypeOK
    <2>3. /\ DOMAIN pipe' = 1..l /\ pipe'[l] = i /\ l \in DOMAIN pipe'
          /\ \A n \in 1..(l - 1) : pipe'[n] = Tail(pipe)[n]
      BY <1>4, <1>8, <2>1, <2>2
    <2>4. \A n \in 1..(l - 1) : n + 1 \in DOMAIN pipe /\ n + 1 # 1 /\ pipe'[n] = pipe[n + 1]
      BY <1>1, <1>3, <1>4, <2>1, <2>3 DEF TypeOK
    <2>5. \A n \in 1..(l - 1) : requests'[pipe'[n]] = requests[pipe[n + 1]]
      BY <1>4, <1>6, <1>8, <2>4
    <2>6. /\ requests'[pipe'[l]].step = "change" /\ requests'[pipe'[l]].executed = FALSE
          /\ requests'[pipe'[l]].op = r.op /\ requests'[pipe'[l]].gateway = r.gateway
      BY <1>4, <1>8, <2>3 DEF Requests
    <2>7. r.op # "clone" /\ (r.op # "delete" => IsThere(r.gateway))
      BY <1>4, <1>8 DEF IInv, WellFormed
    <2>8. \A n \in DOMAIN pipe' : n \in Nat /\ n >= 1 /\ (n \in 1..(l - 1) \/ n = l)
      BY <2>1, <2>3
    <2>9. \A n \in DOMAIN pipe : n # 1 => n - 1 \in 1..(l - 1) /\ n = (n - 1) + 1
      BY <1>4, <2>1
    <2>10. \A n \in 1..(l - 1) : \A e \in Domains :
            /\ Executed(n)' <=> Executed(n + 1)
            /\ IsClone(n)' <=> IsClone(n + 1)
            /\ Changes(n, e)' <=> Changes(n + 1, e)
      BY <2>5 DEF Executed, IsClone, Changes
    <2>11. InOrder'
      <3>1. \A n \in 1..(l - 1) : pipe'[n] # pipe'[l]
        BY <1>6, <2>3, <2>4
      <3>2. \A m, n \in 1..(l - 1) : pipe'[m] = pipe'[n] => m = n
        BY <1>1, <2>4 DEF InOrder
      <3>3. \A m, n \in DOMAIN pipe' : pipe'[m] = pipe'[n] => m = n
        BY <2>8, <3>1, <3>2
      <3>4. ASSUME NEW m \in DOMAIN pipe', NEW n \in DOMAIN pipe', m < n, Executed(n)'
            PROVE  Executed(m)'
        <4>1. n # l
          BY <2>6, <3>4 DEF Executed
        <4>2. n \in 1..(l - 1) /\ m \in 1..(l - 1) /\ m + 1 < n + 1
          BY <2>8, <3>4, <4>1
        <4>3. Executed(n + 1)
          BY <2>5, <3>4, <4>2 DEF Executed
        <4>4. Executed(m + 1)
          BY <1>1, <2>4, <4>2, <4>3 DEF InOrder
        <4> QED BY <2>5, <4>2, <4>4 DEF Executed
      <3> QED BY <3>3, <3>4 DEF InOrder
    <2>12. \A n \in DOMAIN pipe' : WellFormed(requests[pipe[n]])'
      BY <2>4, <2>5, <2>6, <2>7, <2>8 DEF IInv, WellFormed, IsThere
    <2>13. ASSUME NEW e \in Domains \ doubtful'
           PROVE  Follows(e)'
      <3>1. Follows(e)
        BY <1>8, <2>13 DEF IInv
      <3>2. ~Changes(1, e)
        BY <1>4, <1>8 DEF Changes
      <3>3. ClonesFirst(e)'
        <4> SUFFICES ASSUME NEW n \in DOMAIN pipe', Changes(n, e)', IsClone(n)'
                     PROVE  /\ table'[e] = requests'[pipe'[n]].gateway
                            /\ \A m \in 1..(n - 1) : ~Changes(m, e)'
          BY DEF ClonesFirst
        <4>1. n # l
          BY <2>6, <2>7 DEF IsClone
        <4>2. n \in 1..(l - 1)
          BY <2>8, <4>1
        <4>3. /\ table[e] = requests[pipe[n + 1]].gateway
              /\ \A m \in 1..n : ~Changes(m, e)
          BY <2>4, <2>10, <3>1, <4>2 DEF ClonesFirst, Follows
        <4>4. \A m \in 1..(n - 1) : m \in 1..(l - 1) /\ m + 1 \in 1..n
          BY <4>2
        <4> QED BY <1>8, <2>5, <2>10, <4>2, <4>3, <4>4
      <3>4. LastExecuted(e)'
        <4> SUFFICES ASSUME NEW n \in DOMAIN pipe', Changes(n, e)', Executed(n)',
                            \A k \in DOMAIN pipe' : k > n /\ Changes(k, e)' => ~Executed(k)'
                     PROVE  ById(e)' = After(requests'[pipe'[n]])
          BY DEF LastExecuted, After
        <4>1. n # l
          BY <2>6 DEF Executed
        <4>2. n \in 1..(l - 1)
          BY <2>8, <4>1
        <4>3. Changes(n + 1, e) /\ Executed(n + 1) /\ n + 1 \in DOMAIN pipe
          BY <2>4, <2>10, <4>2
        <4>4. ASSUME NEW k \in DOMAIN pipe, k > n + 1, Changes(k, e)
              PROVE  ~Executed(k)
          <5>1. k - 1 \in 1..(l - 1) /\ k - 1 \in DOMAIN pipe' /\ k - 1 > n /\ k = (k - 1) + 1
            BY <1>4, <2>3, <2>9, <4>2, <4>4
          <5> QED BY <2>10, <4>4, <5>1
        <4>5. ById(e) = After(requests[pipe[n + 1]])
          BY <3>1, <4>3, <4>4 DEF LastExecuted, Follows
        <4> QED BY <1>5, <2>5, <4>2, <4>5
      <3>5. Agree(e)'
        <4> SUFFICES ASSUME \A n \in DOMAIN pipe' : Changes(n, e)' => ~Executed(n)' /\ ~IsClone(n)'
                     PROVE  table'[e] = ById(e)'
          BY DEF Agree
        <4>1. \A n \in DOMAIN pipe : Changes(n, e) => ~Executed(n) /\ ~IsClone(n)
          <5> SUFFICES ASSUME NEW n \in DOMAIN pipe, Changes(n, e)
                       PROVE  ~Executed(n) /\ ~IsClone(n)
            OBVIOUS
          <5>1. n - 1 \in 1..(l - 1) /\ n - 1 \in DOMAIN pipe' /\ n = (n - 1) + 1
            BY <2>3, <2>9, <3>2
          <5> QED BY <2>10, <5>1
        <4>2. table[e] = ById(e)
          BY <3>1, <4>1 DEF Agree, Follows
        <4> QED BY <1>5, <1>8, <4>2
      <3> QED BY <1>5, <3>1, <3>3, <3>4, <3>5 DEF Follows
    <2> QED BY <1>2, <2>11, <2>12, <2>13 DEF IInv
  <1> QED BY <1>7, <1>8, ReplyCases

\* Lemma: a break makes the domains that are being changed doubtful, no other.
LEMMA BreaksPreserves ==
    ASSUME IInv, Breaks
    PROVE  IInv'
  <1>1. TypeOK /\ TypeOK'
    BY BreaksTypes DEF IInv
  <1>2. /\ pipe' = <<>> /\ redis' = redis
        /\ doubtful' = doubtful \cup {d \in Domains : Changing(d)}
        /\ table' = [d \in Domains |-> IF Saving(d) = {} THEN table[d]
                                       ELSE requests[pipe[Max(Saving(d))]].gateway]
    BY DEF Breaks
  <1>3. DOMAIN pipe' = {}
    BY <1>2
  <1>4. ASSUME NEW e \in Domains \ doubtful'
        PROVE  Follows(e)'
    <2>1. Follows(e) /\ \A n \in DOMAIN pipe : ~Changes(n, e)
      BY <1>2, <1>4 DEF IInv, Changing
    <2>2. table'[e] = table[e]
      BY <1>2, <2>1 DEF Saving
    <2>3. table[e] = ById(e)
      BY <2>1 DEF Follows, Agree
    <2>4. ById(e)' = ById(e) /\ OneKind(e)' = OneKind(e)
      BY <1>2 DEF ById, OneKind
    <2> QED BY <1>3, <2>1, <2>2, <2>3, <2>4 DEF Follows, ClonesFirst, LastExecuted, Agree
  <1> QED BY <1>1, <1>3, <1>4 DEF IInv, InOrder

\* Lemma: a restart loads the table from Redis.
LEMMA RestartsPreserves ==
    ASSUME IInv, Restarts
    PROVE  IInv'
  <1>1. TypeOK /\ TypeOK'
    BY RestartsTypes DEF IInv
  <1>2. /\ pipe' = <<>> /\ redis' = redis
        /\ doubtful' = {d \in Domains : Given(d) # ById(d) \/ \A k \in Kinds : redis[k][d] # 0}
        /\ table' = [d \in Domains |-> Given(d)]
    BY DEF Restarts
  <1>3. DOMAIN pipe' = {}
    BY <1>2
  <1>4. ASSUME NEW e \in Domains \ doubtful'
        PROVE  Follows(e)'
    <2>1. OneKind(e) /\ table'[e] = ById(e)
      BY <1>2, <1>4 DEF OneKind
    <2>2. ById(e)' = ById(e) /\ OneKind(e)' = OneKind(e)
      BY <1>2 DEF ById, OneKind
    <2> QED BY <1>3, <2>1, <2>2 DEF Follows, ClonesFirst, LastExecuted, Agree
  <1> QED BY <1>1, <1>3, <1>4 DEF IInv, InOrder

\* Lemma: a reconnection changes neither Redis nor the table.
LEMMA ReconnectsPreserves ==
    ASSUME IInv, Reconnects \/ UNCHANGED vars
    PROVE  IInv'
  <1>1. UNCHANGED <<redis, requests, pipe, breaks, table, doubtful>>
    BY DEF Reconnects, vars
  <1>2. CASE UNCHANGED vars
    <2>1. TypeOK'
      BY <1>1, <1>2 DEF IInv, TypeOK, vars
    <2> QED BY <1>1, <2>1 DEF IInv, InOrder, Executed, WellFormed, Follows, OneKind, ClonesFirst,
                              LastExecuted, Agree, Changes, IsClone, ById, After
  <1>3. CASE Reconnects
    <2>1. TypeOK'
      BY <1>1, <1>3 DEF IInv, TypeOK, Reconnects
    <2> QED BY <1>1, <2>1 DEF IInv, InOrder, Executed, WellFormed, Follows, OneKind, ClonesFirst,
                              LastExecuted, Agree, Changes, IsClone, ById, After
  <1> QED BY <1>2, <1>3

-----------------------------------------------------------------------------
\* Lemma: initially nothing is under way and the table is what Redis has.
LEMMA InitEstablishes == Init => IInv
  <1> SUFFICES ASSUME Init PROVE IInv
    OBVIOUS
  <1>1. TypeOK
    BY InitTypes
  <1>2. DOMAIN pipe = {}
    BY DEF Init
  <1>3. \A d \in Domains : OneKind(d) /\ table[d] = ById(d)
    BY DEF Init, OneKind, ById, Kinds
  <1> QED BY <1>1, <1>2, <1>3 DEF IInv, InOrder, Follows, ClonesFirst, LastExecuted, Agree

\* Lemma: every step preserves the invariant.
LEMMA NextPreserves == IInv /\ [Next]_vars => IInv'
  <1> SUFFICES ASSUME IInv, [Next]_vars PROVE IInv'
    OBVIOUS
  <1>1. CASE \E op \in {"add", "update", "delete"}, k \in AdminKinds, path, d \in Domains :
               \E v \in Versions : Arrives(op, k, v, path, d)
    BY <1>1, ArrivesPreserves
  <1>2. CASE \E d \in Domains : Resolves(d)
    BY <1>2, ResolvesPreserves
  <1>3. CASE Executes
    BY <1>3, ExecutesPreserves
  <1>4. CASE Replies
    BY <1>4, RepliesPreserves
  <1>5. CASE Breaks
    BY <1>5, BreaksPreserves
  <1>6. CASE Restarts
    BY <1>6, RestartsPreserves
  <1>7. CASE Reconnects \/ UNCHANGED vars
    BY <1>7, ReconnectsPreserves
  <1> QED BY <1>1, <1>2, <1>3, <1>4, <1>5, <1>6, <1>7 DEF Next

\* Lemma: the invariant holds in every reachable state.
LEMMA Invariance == Spec => []IInv
  BY InitEstablishes, NextPreserves, PTL DEF Spec

\* Theorem: for any number of requests, of breaks and of domains, the requests,
\* the queue, Redis and the table keep their types; above all the queue holds no
\* request that is done.
THEOREM TypeCorrect == Spec => []TypeOK
  <1>1. IInv => TypeOK
    BY DEF IInv
  <1> QED BY Invariance, <1>1, PTL

\* Theorem: for any number of requests, of breaks and of domains, in whatever
\* order the replies meet new requests: once the changes of a domain were all
\* replied to, the table has of it what Redis has, unless it is doubtful.
THEOREM TableIsRedis == Spec => []TableFollowsRedis
  <1>1. IInv => TableFollowsRedis
    BY DEF IInv, Follows, Agree, Changing, TableFollowsRedis
  <1> QED BY Invariance, <1>1, PTL

-----------------------------------------------------------------------------
(* Lemmas about arrays of gateways, one of a domain at most.               *)

\* Lemma: a set of numbers that is not empty has its minimum.
LEMMA MinExists ==
    ASSUME NEW S, S \subseteq Nat, S # {}
    PROVE  Min(S) \in S /\ \A n \in S : Min(S) <= n
  <1>1. PICK x \in S : \A y \in S : ~(<<y, x>> \in OpToRel(<, Nat))
    BY NatLessThanWellFounded, WFMin
  <1>2. \A y \in S : ~(y < x)
    BY <1>1 DEF OpToRel
  <1>3. \A y \in S : x <= y
    BY <1>2
  <1> QED BY <1>3 DEF Min

\* Lemma: what remains of a sequence from which one element is removed.
LEMMA RemovedAt ==
    ASSUME NEW S, NEW s \in Seq(S), NEW p \in 1..Len(s)
    PROVE  /\ RemoveAt(s, p) \in Seq(S) /\ Len(RemoveAt(s, p)) = Len(s) - 1
           /\ \A i \in 1..(Len(s) - 1) :
                RemoveAt(s, p)[i] = IF i < p THEN s[i] ELSE s[i + 1]
  <1> DEFINE b == SubSeq(s, 1, p - 1)
             c == SubSeq(s, p + 1, Len(s))
  <1>1. Len(s) \in Nat /\ p - 1 \in Nat /\ Len(s) - p \in Nat /\ \A i \in 1..Len(s) : s[i] \in S
    OBVIOUS
  <1>2. b \in Seq(S) /\ Len(b) = p - 1 /\ \A i \in 1..(p - 1) : b[i] = s[i]
    <2>1. /\ SubSeq(s, 1, p - 1) \in Seq(S)
          /\ Len(SubSeq(s, 1, p - 1)) = IF 1 <= p - 1 THEN p - 1 - 1 + 1 ELSE 0
          /\ \A i \in 1..(p - 1 - 1 + 1) : SubSeq(s, 1, p - 1)[i] = s[1 + i - 1]
      <3>1. 1 \in Int /\ p - 1 \in Int /\ \A i \in 1..(p - 1) : s[i] \in S
        BY <1>1
      <3> QED BY <3>1, SubSeqProperties
    <2>2. \A i \in 1..(p - 1) : 1 + i - 1 = i /\ i \in 1..(p - 1 - 1 + 1)
      BY <1>1
    <2> QED BY <1>1, <2>1, <2>2
  <1>3. c \in Seq(S) /\ Len(c) = Len(s) - p /\ \A i \in 1..(Len(s) - p) : c[i] = s[i + p]
    <2>1. /\ SubSeq(s, p + 1, Len(s)) \in Seq(S)
          /\ Len(SubSeq(s, p + 1, Len(s))) =
               IF p + 1 <= Len(s) THEN Len(s) - (p + 1) + 1 ELSE 0
          /\ \A i \in 1..(Len(s) - (p + 1) + 1) :
               SubSeq(s, p + 1, Len(s))[i] = s[(p + 1) + i - 1]
      <3>1. p + 1 \in Int /\ Len(s) \in Int /\ \A i \in (p + 1)..Len(s) : s[i] \in S
        BY <1>1
      <3> QED BY <3>1, SubSeqProperties
    <2>2. \A i \in 1..(Len(s) - p) : (p + 1) + i - 1 = i + p /\ i \in 1..(Len(s) - (p + 1) + 1)
      BY <1>1
    <2> QED BY <1>1, <2>1, <2>2
  <1>4. RemoveAt(s, p) = b \o c
    BY DEF RemoveAt
  <1> HIDE DEF b, c
  <1>5. /\ b \o c \in Seq(S) /\ Len(b \o c) = Len(b) + Len(c)
        /\ \A i \in 1..(Len(b) + Len(c)) :
             (b \o c)[i] = IF i <= Len(b) THEN b[i] ELSE c[i - Len(b)]
    BY <1>2, <1>3, ConcatProperties
  <1>6. ASSUME NEW i \in 1..(Len(s) - 1)
        PROVE  (b \o c)[i] = IF i < p THEN s[i] ELSE s[i + 1]
    <2>1. CASE i < p
      <3>1. i <= Len(b) /\ i \in 1..(Len(b) + Len(c)) /\ i \in 1..(p - 1)
        BY <1>1, <1>2, <1>3, <2>1
      <3> QED BY <1>2, <1>5, <2>1, <3>1
    <2>2. CASE ~(i < p)
      <3>1. /\ ~(i <= Len(b)) /\ i \in 1..(Len(b) + Len(c))
            /\ i - Len(b) \in 1..(Len(s) - p) /\ (i - Len(b)) + p = i + 1
        BY <1>1, <1>2, <1>3, <2>2
      <3> QED BY <1>3, <1>5, <2>2, <3>1
    <2> QED BY <2>1, <2>2
  <1> QED BY <1>1, <1>2, <1>3, <1>4, <1>5, <1>6

-----------------------------------------------------------------------------
(* An array of wildcard gateways, as the table it stands for.              *)

\* The arrays of wildcard gateways.
Arrays == Seq([domain : Wild, version : HostVersions \ {0}])

\* No two gateways of an array have one domain.
OneEach(s) == \A i, j \in DOMAIN s : s[i].domain = s[j].domain => i = j

\* The gateway an array has of a domain, 0 for none.
HeldIn(s, w) ==
    IF \E i \in DOMAIN s : s[i].domain = w
      THEN LET i == CHOOSE j \in DOMAIN s : s[j].domain = w IN s[i].version
      ELSE 0

\* The pairs of domains in the order of an array.
BeforeIn(s) ==
    {<<s[p[1]].domain, s[p[2]].domain>> : p \in {q \in (DOMAIN s) \X (DOMAIN s) : q[1] < q[2]}}

\* Lemma: the elements of the array are gateways of wildcard domains.
LEMMA ArrayTypes ==
    ASSUME NEW s \in Arrays
    PROVE  /\ Len(s) \in Nat /\ DOMAIN s = 1..Len(s)
           /\ \A i \in DOMAIN s : /\ s[i] \in [domain : Wild, version : HostVersions \ {0}]
                                  /\ s[i].domain \in Wild /\ s[i].version \in HostVersions \ {0}
  <1> DEFINE G == [domain : Wild, version : HostVersions \ {0}]
  <1>1. \A g \in G : g.domain \in Wild /\ g.version \in HostVersions \ {0}
    OBVIOUS
  <1>2. s \in Seq(G)
    BY DEF Arrays
  <1> HIDE DEF G
  <1>3. Len(s) \in Nat /\ DOMAIN s = 1..Len(s) /\ \A i \in DOMAIN s : s[i] \in G
    BY <1>2
  <1> QED BY <1>1, <1>3 DEF G

\* Lemma: the gateway held of a domain is the only one in the array.
LEMMA HeldIs ==
    ASSUME NEW s \in Arrays, OneEach(s), NEW w
    PROVE  /\ \A i \in DOMAIN s : s[i].domain = w => HeldIn(s, w) = s[i].version
           /\ (\A i \in DOMAIN s : s[i].domain # w) => HeldIn(s, w) = 0
           /\ HeldIn(s, w) # 0 <=> \E i \in DOMAIN s : s[i].domain = w
           /\ HeldIn(s, w) \in HostVersions
  <1>1. ASSUME NEW i \in DOMAIN s, s[i].domain = w
        PROVE  HeldIn(s, w) = s[i].version
    <2>1. (CHOOSE j \in DOMAIN s : s[j].domain = w) = i
      BY <1>1 DEF OneEach
    <2> QED BY <1>1, <2>1 DEF HeldIn
  <1>2. (\A i \in DOMAIN s : s[i].domain # w) => HeldIn(s, w) = 0
    BY DEF HeldIn
  <1>3. 0 \in HostVersions
    BY HostsAssumption DEF HostVersions
  <1> QED BY <1>1, <1>2, <1>3, ArrayTypes

\* Lemma: the pairs of domains in the order of the array.
LEMMA InBefore ==
    ASSUME NEW s \in Arrays
    PROVE  /\ BeforeIn(s) \subseteq Wild \X Wild
           /\ \A a, b : <<a, b>> \in BeforeIn(s) <=>
                \E i, j \in DOMAIN s : i < j /\ s[i].domain = a /\ s[j].domain = b
  <1>1. ASSUME NEW i \in DOMAIN s, NEW j \in DOMAIN s, i < j
        PROVE  <<s[i].domain, s[j].domain>> \in BeforeIn(s)
    <2>1. <<i, j>> \in {q \in (DOMAIN s) \X (DOMAIN s) : q[1] < q[2]}
      BY <1>1
    <2> QED BY <2>1 DEF BeforeIn
  <1>2. ASSUME NEW x \in BeforeIn(s)
        PROVE  \E i, j \in DOMAIN s : i < j /\ x = <<s[i].domain, s[j].domain>>
    BY DEF BeforeIn
  <1>3. BeforeIn(s) \subseteq Wild \X Wild
    BY <1>2, ArrayTypes
  <1> QED BY <1>1, <1>2, <1>3

\* Lemma: splicing leaves the gateways of the other domains, in their order.
LEMMA Splices ==
    ASSUME regexBasedHosts \in Arrays, OneEach(regexBasedHosts), NEW w
    PROVE  /\ Spliced(w) \in Arrays
           /\ \A i \in DOMAIN Spliced(w) : Spliced(w)[i].domain # w
           /\ \E f \in [DOMAIN Spliced(w) -> DOMAIN regexBasedHosts] :
                /\ \A i, j \in DOMAIN Spliced(w) : i < j => f[i] < f[j]
                /\ \A i \in DOMAIN Spliced(w) : Spliced(w)[i] = regexBasedHosts[f[i]]
                /\ \A k \in DOMAIN regexBasedHosts : regexBasedHosts[k].domain # w =>
                     \E i \in DOMAIN Spliced(w) : f[i] = k
  <1> DEFINE R == regexBasedHosts
             T == Spliced(w)
  <1>1. R \in Arrays /\ Len(R) \in Nat /\ DOMAIN R = 1..Len(R)
    BY ArrayTypes
  <1>2. CASE \A i \in DOMAIN R : R[i].domain # w
    <2>1. T = R
      BY <1>2 DEF Spliced, ToSet
    <2> DEFINE f == [i \in DOMAIN R |-> i]
    <2>2. f \in [DOMAIN R -> DOMAIN R] /\ \A i \in DOMAIN R : f[i] = i
      OBVIOUS
    <2> HIDE DEF f
    <2> QED BY <1>1, <1>2, <2>1, <2>2
  <1>3. ASSUME NEW p \in DOMAIN R, R[p].domain = w
        PROVE  /\ T \in Arrays
               /\ \A i \in DOMAIN T : T[i].domain # w
               /\ \E f \in [DOMAIN T -> DOMAIN R] :
                    /\ \A i, j \in DOMAIN T : i < j => f[i] < f[j]
                    /\ \A i \in DOMAIN T : T[i] = R[f[i]]
                    /\ \A k \in DOMAIN R : R[k].domain # w => \E i \in DOMAIN T : f[i] = k
    <2> DEFINE I == {i \in 1..Len(R) : R[i].domain = w}
    <2>1. I = {p}
      BY <1>1, <1>3 DEF OneEach
    <2>2. Min(I) = p
      <3>1. I \subseteq Nat /\ I # {}
        BY <1>1, <2>1
      <3> HIDE DEF I
      <3>2. Min(I) \in I
        BY <3>1, MinExists
      <3> QED BY <2>1, <3>2
    <2>3. \E g \in ToSet(R) : g.domain = w
      BY <1>3 DEF ToSet
    <2>4. SelectInSeq(R, LAMBDA g : g.domain = w) = p
      BY <2>1, <2>2 DEF SelectInSeq
    <2>5. T = RemoveAt(R, p) /\ p \in 1..Len(R)
      BY Zenon, <1>1, <2>3, <2>4 DEF Spliced
    <2> HIDE DEF R, T
    <2>6. /\ T \in Arrays /\ Len(T) = Len(R) - 1
          /\ \A i \in 1..(Len(R) - 1) : T[i] = IF i < p THEN R[i] ELSE R[i + 1]
      BY <1>1, <2>5, RemovedAt DEF Arrays
    <2>7. DOMAIN T = 1..(Len(R) - 1)
      BY <2>6, ArrayTypes
    <2> DEFINE f == [i \in DOMAIN T |-> IF i < p THEN i ELSE i + 1]
    <2>8. \A i \in DOMAIN T : /\ f[i] = IF i < p THEN i ELSE i + 1
                              /\ f[i] \in DOMAIN R /\ f[i] # p
      BY <1>1, <2>5, <2>7
    <2>9. f \in [DOMAIN T -> DOMAIN R]
      BY <2>8
    <2> HIDE DEF f
    <2>10. \A i, j \in DOMAIN T : i < j => f[i] < f[j]
      BY <1>1, <2>5, <2>7, <2>8
    <2>11. \A i \in DOMAIN T : T[i] = R[f[i]]
      BY <2>6, <2>7, <2>8
    <2>12. \A i \in DOMAIN T : T[i].domain # w
      <3>1. OneEach(R)
        BY DEF R
      <3> QED BY <1>3, <2>8, <2>11, <3>1 DEF OneEach
    <2>13. ASSUME NEW k \in DOMAIN R, R[k].domain # w
           PROVE  \E i \in DOMAIN T : f[i] = k
      <3>1. k # p
        BY <1>3, <2>13
      <3>2. CASE k < p
        <4>1. k \in DOMAIN T /\ f[k] = k
          BY <1>1, <2>5, <2>7, <2>8, <3>2
        <4> QED BY <4>1
      <3>3. CASE k > p
        <4>1. k - 1 \in DOMAIN T /\ f[k - 1] = k
          BY <1>1, <2>5, <2>7, <2>8, <3>3
        <4> QED BY <4>1
      <3> QED BY <1>1, <2>5, <3>1, <3>2, <3>3
    <2> QED BY <2>6, <2>9, <2>10, <2>11, <2>12, <2>13
  <1> QED BY <1>2, <1>3

\* Lemma: what splicing does to the table an array stands for.
LEMMA SplicedTable ==
    ASSUME regexBasedHosts \in Arrays, OneEach(regexBasedHosts), NEW w
    PROVE  /\ OneEach(Spliced(w))
           /\ HeldIn(Spliced(w), w) = 0
           /\ \A x : x # w => HeldIn(Spliced(w), x) = HeldIn(regexBasedHosts, x)
           /\ BeforeIn(Spliced(w)) = {p \in BeforeIn(regexBasedHosts) : w \notin {p[1], p[2]}}
  <1> DEFINE R == regexBasedHosts
             T == Spliced(w)
  <1>1. T \in Arrays /\ \A i \in DOMAIN T : T[i].domain # w
    BY Splices
  <1>2. PICK f \in [DOMAIN T -> DOMAIN R] :
          /\ \A i, j \in DOMAIN T : i < j => f[i] < f[j]
          /\ \A i \in DOMAIN T : T[i] = R[f[i]]
          /\ \A k \in DOMAIN R : R[k].domain # w => \E i \in DOMAIN T : f[i] = k
    BY Splices
  <1>3. R \in Arrays /\ OneEach(R)
    OBVIOUS
  <1> HIDE DEF R, T
  <1>4. DOMAIN T \subseteq Nat /\ DOMAIN R \subseteq Nat
    BY <1>1, <1>3, ArrayTypes
  <1>5. \A i, j \in DOMAIN T : f[i] < f[j] => i < j
    <2> SUFFICES ASSUME NEW i \in DOMAIN T, NEW j \in DOMAIN T, f[i] < f[j]
                 PROVE  i < j
      OBVIOUS
    <2>1. f[i] \in Nat /\ f[j] \in Nat /\ i \in Nat /\ j \in Nat
      BY <1>4
    <2>2. ~(j < i)
      BY <1>2, <2>1
    <2>3. i # j
      BY <2>1
    <2> QED BY <2>1, <2>2, <2>3
  <1>6. OneEach(T)
    <2> SUFFICES ASSUME NEW i \in DOMAIN T, NEW j \in DOMAIN T, T[i].domain = T[j].domain
                 PROVE  i = j
      BY DEF OneEach
    <2>1. f[i] = f[j]
      BY <1>2, <1>3 DEF OneEach
    <2>2. i \in Nat /\ j \in Nat /\ f[i] \in Nat /\ ~(f[i] < f[j]) /\ ~(f[j] < f[i])
      BY <1>4, <2>1
    <2> QED BY <1>2, <2>2
  <1>7. HeldIn(T, w) = 0
    BY <1>1, <1>6, HeldIs
  <1>8. ASSUME NEW x, x # w
        PROVE  HeldIn(T, x) = HeldIn(R, x)
    <2>1. CASE \E k \in DOMAIN R : R[k].domain = x
      <3>1. PICK k \in DOMAIN R : R[k].domain = x
        BY <2>1
      <3>2. PICK i \in DOMAIN T : f[i] = k
        BY <1>2, <1>8, <3>1
      <3>3. T[i].domain = x /\ T[i].version = R[k].version
        BY <1>2, <3>1, <3>2
      <3> QED BY <1>1, <1>3, <1>6, <3>1, <3>3, HeldIs
    <2>2. CASE \A k \in DOMAIN R : R[k].domain # x
      <3>1. \A i \in DOMAIN T : T[i].domain # x
        BY <1>2, <2>2
      <3> QED BY <1>1, <1>3, <1>6, <2>2, <3>1, HeldIs
    <2> QED BY <2>1, <2>2
  <1>9. ASSUME NEW a, NEW b
        PROVE  <<a, b>> \in BeforeIn(T) <=> <<a, b>> \in BeforeIn(R) /\ a # w /\ b # w
    <2>1. ASSUME <<a, b>> \in BeforeIn(T)
          PROVE  <<a, b>> \in BeforeIn(R) /\ a # w /\ b # w
      <3>1. PICK i \in DOMAIN T, j \in DOMAIN T : i < j /\ T[i].domain = a /\ T[j].domain = b
        BY <1>1, <2>1, InBefore
      <3>2. f[i] < f[j] /\ R[f[i]].domain = a /\ R[f[j]].domain = b
        BY <1>2, <3>1
      <3> QED BY <1>1, <1>2, <1>3, <3>1, <3>2, InBefore
    <2>2. ASSUME <<a, b>> \in BeforeIn(R), a # w, b # w
          PROVE  <<a, b>> \in BeforeIn(T)
      <3>1. PICK k \in DOMAIN R, l \in DOMAIN R : k < l /\ R[k].domain = a /\ R[l].domain = b
        BY <1>3, <2>2, InBefore
      <3>2. PICK i \in DOMAIN T : f[i] = k
        BY <1>2, <2>2, <3>1
      <3>3. PICK j \in DOMAIN T : f[j] = l
        BY <1>2, <2>2, <3>1
      <3>4. i < j /\ T[i].domain = a /\ T[j].domain = b
        BY <1>2, <1>5, <3>1, <3>2, <3>3
      <3> QED BY <1>1, <3>4, InBefore
    <2> QED BY <2>1, <2>2
  <1>10. BeforeIn(T) = {p \in BeforeIn(R) : w \notin {p[1], p[2]}}
    <2>1. BeforeIn(T) \subseteq Wild \X Wild /\ BeforeIn(R) \subseteq Wild \X Wild
      BY <1>1, <1>3, InBefore
    <2>2. ASSUME NEW p
          PROVE  p \in BeforeIn(T) <=> p \in BeforeIn(R) /\ w \notin {p[1], p[2]}
      <3>1. CASE p \in Wild \X Wild
        <4>1. p = <<p[1], p[2]>>
          BY <3>1
        <4> QED BY <1>9, <4>1
      <3>2. CASE p \notin Wild \X Wild
        BY <2>1, <3>2
      <3> QED BY <3>1, <3>2
    <2> QED BY <2>2
  <1> QED BY <1>6, <1>7, <1>8, <1>10 DEF R, T

\* Lemma: what adding a gateway at the end does to it.
LEMMA AppendedTable ==
    ASSUME NEW s \in Arrays, OneEach(s), NEW w \in Wild, HeldIn(s, w) = 0,
           NEW v \in HostVersions, v # 0
    PROVE  LET t == Append(s, [domain |-> w, version |-> v]) IN
           /\ t \in Arrays /\ OneEach(t)
           /\ HeldIn(t, w) = v
           /\ \A x : x # w => HeldIn(t, x) = HeldIn(s, x)
           /\ BeforeIn(t) = BeforeIn(s) \cup {<<x, w>> : x \in {y \in Wild \ {w} : HeldIn(s, y) # 0}}
  <1> DEFINE g == [domain |-> w, version |-> v]
             t == Append(s, g)
             G == [domain : Wild, version : HostVersions \ {0}]
  <1>1. g \in G /\ s \in Seq(G)
    BY DEF Arrays
  <1>2. PICK l \in Nat : l = Len(s) + 1
    BY ArrayTypes
  <1>3. DOMAIN s = 1..(l - 1) /\ \A i \in DOMAIN s : s[i].domain \in Wild
    BY <1>2, ArrayTypes
  <1>4. g.domain = w /\ g.version = v
    OBVIOUS
  <1> HIDE DEF g, G, t
  <1>5. t \in Seq(G) /\ DOMAIN t = 1..l /\ t[l] = g /\ \A i \in DOMAIN s : t[i] = s[i]
    BY <1>1, <1>2 DEF t
  <1>6. t \in Arrays
    BY <1>5 DEF Arrays, G
  <1>7. /\ \A i \in DOMAIN t : i \in DOMAIN s \/ i = l
        /\ l \in DOMAIN t /\ \A i \in DOMAIN s : i \in DOMAIN t /\ i < l /\ i \in Nat
    BY <1>2, <1>3, <1>5
  <1>8. \A i \in DOMAIN s : s[i].domain # w
    BY HeldIs
  <1>9. OneEach(t)
    BY <1>4, <1>5, <1>7, <1>8 DEF OneEach
  <1>10. HeldIn(t, w) = v
    BY <1>4, <1>5, <1>6, <1>7, <1>9, HeldIs
  <1>11. ASSUME NEW x, x # w
         PROVE  HeldIn(t, x) = HeldIn(s, x)
    <2>1. CASE \E k \in DOMAIN s : s[k].domain = x
      <3>1. PICK k \in DOMAIN s : s[k].domain = x
        BY <2>1
      <3>2. k \in DOMAIN t /\ t[k] = s[k]
        BY <1>5, <1>7
      <3> QED BY <1>6, <1>9, <3>1, <3>2, HeldIs
    <2>2. CASE \A k \in DOMAIN s : s[k].domain # x
      <3>1. \A i \in DOMAIN t : t[i].domain # x
        BY <1>4, <1>5, <1>7, <1>11, <2>2
      <3> QED BY <1>6, <1>9, <2>2, <3>1, HeldIs
    <2> QED BY <2>1, <2>2
  <1> DEFINE new == {<<x, w>> : x \in {y \in Wild \ {w} : HeldIn(s, y) # 0}}
  <1>12. ASSUME NEW a, NEW b
         PROVE  <<a, b>> \in BeforeIn(t) <=> <<a, b>> \in BeforeIn(s) \/ <<a, b>> \in new
    <2>1. <<a, b>> \in new <=> b = w /\ a \in Wild /\ a # w /\ HeldIn(s, a) # 0
      OBVIOUS
    <2>2. ASSUME <<a, b>> \in BeforeIn(t)
          PROVE  <<a, b>> \in BeforeIn(s) \/ <<a, b>> \in new
      <3>1. PICK i \in DOMAIN t, j \in DOMAIN t : i < j /\ t[i].domain = a /\ t[j].domain = b
        BY <1>6, <2>2, InBefore
      <3>2. i \in DOMAIN s /\ s[i].domain = a
        BY <1>3, <1>5, <1>7, <3>1
      <3>3. CASE j \in DOMAIN s
        <4>1. s[j].domain = b
          BY <1>5, <3>1, <3>3
        <4> QED BY <3>1, <3>2, <3>3, <4>1, InBefore
      <3>4. CASE j = l
        <4>1. b = w /\ a # w /\ a \in Wild /\ HeldIn(s, a) # 0
          BY <1>3, <1>4, <1>5, <1>8, <3>1, <3>2, <3>4, HeldIs
        <4> QED BY <2>1, <4>1
      <3> QED BY <1>7, <3>3, <3>4
    <2>3. ASSUME <<a, b>> \in BeforeIn(s)
          PROVE  <<a, b>> \in BeforeIn(t)
      <3>1. PICK i \in DOMAIN s, j \in DOMAIN s : i < j /\ s[i].domain = a /\ s[j].domain = b
        BY <2>3, InBefore
      <3>2. i \in DOMAIN t /\ j \in DOMAIN t /\ t[i].domain = a /\ t[j].domain = b
        BY <1>5, <1>7, <3>1
      <3> QED BY <1>6, <3>1, <3>2, InBefore
    <2>4. ASSUME <<a, b>> \in new
          PROVE  <<a, b>> \in BeforeIn(t)
      <3>1. PICK i \in DOMAIN s : s[i].domain = a
        BY <2>1, <2>4, HeldIs
      <3>2. i \in DOMAIN t /\ i < l /\ t[i].domain = a /\ t[l].domain = b
        BY <1>4, <1>5, <1>7, <2>1, <2>4, <3>1
      <3> QED BY <1>6, <1>7, <3>2, InBefore
    <2> QED BY <2>2, <2>3, <2>4
  <1>13. BeforeIn(t) = BeforeIn(s) \cup new
    <2>1. /\ BeforeIn(t) \subseteq Wild \X Wild /\ BeforeIn(s) \subseteq Wild \X Wild
          /\ new \subseteq Wild \X Wild
      BY <1>6, InBefore
    <2> HIDE DEF new
    <2>2. ASSUME NEW p \in Wild \X Wild
          PROVE  p \in BeforeIn(t) <=> p \in BeforeIn(s) \/ p \in new
      <3>1. p = <<p[1], p[2]>>
        OBVIOUS
      <3> QED BY <1>12, <3>1
    <2> QED BY <2>1, <2>2
  <1> QED BY <1>6, <1>9, <1>10, <1>11, <1>13 DEF t, g

-----------------------------------------------------------------------------
(* The steps of the service.                                               *)

\* The inductive invariant behind KeepsTable.
HostsInv == HostsTypeOK /\ OneEach(regexBasedHosts)

\* Lemma: the service starts with an empty array.
LEMMA HostsInitEstablishes == HostsInit => HostsInv
  <1> SUFFICES ASSUME HostsInit PROVE HostsInv
    OBVIOUS
  <1>1. 0 \in HostVersions
    BY HostsAssumption DEF HostVersions
  <1>2. regexBasedHosts = <<>>
    BY DEF HostsInit
  <1>3. regexBasedHosts \in Seq([domain : Wild, version : HostVersions \ {0}])
    BY <1>2
  <1>4. OneEach(regexBasedHosts)
    BY <1>2 DEF OneEach
  <1> QED BY <1>1, <1>3, <1>4 DEF HostsInit, HostsInv, HostsTypeOK

\* Lemma: the gateway a request gets, if no gateway is held of its domain, is
\* the first one in the array that matches.
LEMMA FirstMatches ==
    ASSUME regexBasedHosts \in Arrays, NEW d
    PROVE  /\ FirstMatch(d) # 0 =>
                /\ FirstMatch(d) \in DOMAIN regexBasedHosts
                /\ Match(regexBasedHosts[FirstMatch(d)], d)
                /\ \A j \in DOMAIN regexBasedHosts : Match(regexBasedHosts[j], d) => FirstMatch(d) <= j
           /\ FirstMatch(d) = 0 => \A j \in DOMAIN regexBasedHosts : ~Match(regexBasedHosts[j], d)
  <1> DEFINE s == regexBasedHosts
             I == {i \in 1..Len(s) : Match(s[i], d)}
             first == FirstMatch(d)
  <1>1. first = IF I # {} THEN Min(I) ELSE 0
    BY DEF FirstMatch, SelectInSeq
  <1>2. DOMAIN s = 1..Len(s) /\ Len(s) \in Nat
    BY ArrayTypes
  <1>3. I \subseteq Nat /\ \A i : i \in I <=> i \in DOMAIN s /\ Match(s[i], d)
    BY <1>2
  <1>4. 0 \notin I
    BY <1>2
  <1> HIDE DEF I, first
  <1>5. CASE I = {}
    <2>1. first = 0
      BY <1>1, <1>5
    <2> QED BY <1>3, <1>5, <2>1 DEF first
  <1>6. CASE I # {}
    <2>1. Min(I) \in I /\ \A n \in I : Min(I) <= n
      BY <1>3, <1>6, MinExists
    <2>2. first \in I /\ first # 0 /\ \A n \in I : first <= n
      BY <1>1, <1>4, <1>6, <2>1
    <2> QED BY <1>3, <2>2 DEF first
  <1> QED BY <1>5, <1>6

\* Lemma: every step keeps the types, and one gateway per domain in the array.
LEMMA HostsNextPreserves == HostsInv /\ [HostsNext]_hostsVars => HostsInv'
  <1> SUFFICES ASSUME HostsInv, [HostsNext]_hostsVars PROVE HostsInv'
    OBVIOUS
  <1>1. regexBasedHosts \in Arrays /\ OneEach(regexBasedHosts)
    BY DEF HostsInv, HostsTypeOK, Arrays
  <1>2. 0 \in HostVersions /\ (changes < MaxChanges => changes + 1 \in HostVersions \ {0})
    BY HostsAssumption DEF HostsInv, HostsTypeOK, HostVersions
  <1>3. CASE \E w \in Wild : AddWildcard(w)
    <2>1. PICK w \in Wild : AddWildcard(w)
      BY <1>3
    <2>2. Spliced(w) \in Arrays /\ OneEach(Spliced(w)) /\ HeldIn(Spliced(w), w) = 0
      BY <1>1, Splices, SplicedTable
    <2>3. regexBasedHosts' \in Arrays /\ OneEach(regexBasedHosts')
      BY <1>2, <2>1, <2>2, AppendedTable DEF AddWildcard
    <2> QED BY <1>2, <2>1, <2>3 DEF AddWildcard, HostsInv, HostsTypeOK, Arrays, HostVersions
  <1>4. CASE \E d \in Saved : AddExact(d)
    BY <1>2, <1>4, HostsAssumption DEF AddExact, HostsInv, HostsTypeOK, HostVersions
  <1>5. CASE RemoveByKey
    <2>1. CASE \E w \in Wild : regexBasedHosts' = Spliced(w) /\ UNCHANGED wellDefinedHosts
      <3>1. regexBasedHosts' \in Arrays /\ OneEach(regexBasedHosts')
        BY <1>1, <2>1, Splices, SplicedTable
      <3> QED BY <1>5, <2>1, <3>1 DEF RemoveByKey, HostsInv, HostsTypeOK, Arrays, HostVersions
    <2>2. CASE \E d \in Exact : /\ wellDefinedHosts' = [wellDefinedHosts EXCEPT ![d] = 0]
                                /\ UNCHANGED regexBasedHosts
      BY <1>2, <1>5, <2>2 DEF RemoveByKey, HostsInv, HostsTypeOK, HostVersions
    <2> QED BY <1>5, <2>1, <2>2 DEF RemoveByKey
  <1>6. CASE \E header \in Headers : ResolveGateway(header)
    <2>1. PICK header \in Headers : ResolveGateway(header)
      BY <1>6
    <2> DEFINE d == LookedUp(header)
               first == FirstMatch(d)
    <2>2. d \in Exact
      BY DEF LookedUp, Domain, Exact, Headers
    <2>3. first # 0 => first \in DOMAIN regexBasedHosts
      BY <1>1, FirstMatches
    <2>4. first # 0 => regexBasedHosts[first].version \in HostVersions
      BY <1>1, <2>3, ArrayTypes
    <2>5. answer' \in HostVersions /\ wellDefinedHosts' \in [Exact -> HostVersions]
      BY <1>2, <2>1, <2>2, <2>4 DEF ResolveGateway, HostsInv, HostsTypeOK
    <2> QED BY <2>1, <2>5 DEF ResolveGateway, HostsInv, HostsTypeOK, HostVersions
  <1>7. CASE UNCHANGED hostsVars
    BY <1>7 DEF hostsVars, HostsInv, HostsTypeOK, HostVersions
  <1> QED BY <1>3, <1>4, <1>5, <1>6, <1>7 DEF HostsNext

\* Theorem: for any domains and any number of changes, the Map, the array and
\* the answer keep their types: splices and insertions leave no hole in the array.
THEOREM HostsTypeCorrect == HostsSpec => []HostsTypeOK
  <1>1. HostsInv => HostsTypeOK
    BY DEF HostsInv
  <1> QED BY HostsInitEstablishes, HostsNextPreserves, <1>1, PTL DEF HostsSpec

-----------------------------------------------------------------------------
(* Each step is a step of the table.                                       *)

\* The table of the refinement mapping.
HeldMap == [d \in Exact \cup Wild |-> Held(d)]

\* The refinement mapping, in terms of the array.
IsMapped ==
    /\ Before = BeforeIn(regexBasedHosts)
    /\ \A w \in Wild : HeldMap[w] = HeldIn(regexBasedHosts, w)
    /\ \A d \in Exact : HeldMap[d] = wellDefinedHosts[d]
    /\ DOMAIN HeldMap = Exact \cup Wild

\* Lemma: the state of the table, in terms of the array and the Map.
LEMMA Mapping == IsMapped
  <1>1. Before = BeforeIn(regexBasedHosts)
    BY DEF Before, BeforeIn, Positions
  <1>2. \A w \in Wild : HeldMap[w] = HeldIn(regexBasedHosts, w)
    <2> SUFFICES ASSUME NEW w \in Wild PROVE HeldMap[w] = HeldIn(regexBasedHosts, w)
      OBVIOUS
    <2>1. w \notin Exact
      BY HostsAssumption
    <2>2. Held(w) = HeldIn(regexBasedHosts, w)
      BY <2>1 DEF Held, HeldIn, Positions
    <2> QED BY <2>2 DEF HeldMap
  <1>3. \A d \in Exact : HeldMap[d] = wellDefinedHosts[d]
    BY DEF HeldMap, Held
  <1> QED BY <1>1, <1>2, <1>3 DEF HeldMap, IsMapped

\* Lemma: the same after a step.
LEMMA MappingAfter == IsMapped'
  BY Mapping, PTL

\* Theorem: the Map and the array keep the table.  A step that adds or removes a
\* gateway, or finds one for a request, does so in the table.
THEOREM HostsKeepTable == HostsSpec => KeepsTable
  <1>1. ASSUME HostsInit
        PROVE  Table!Init
    <2>1. regexBasedHosts = <<>> /\ wellDefinedHosts = [d \in Exact |-> 0] /\ answer = 0
      BY <1>1 DEF HostsInit
    <2>2. Before = {}
      BY <2>1 DEF Before, Positions
    <2>3. \A d \in Exact \cup Wild : Held(d) = 0
      BY <2>1 DEF Held, Positions
    <2> QED BY <2>1, <2>2, <2>3 DEF Table!Init
  <1>2. ASSUME HostsInv, [HostsNext]_hostsVars
        PROVE  [Table!Next]_(Table!vars)
    <2>1. regexBasedHosts \in Arrays /\ OneEach(regexBasedHosts)
      BY <1>2 DEF HostsInv, HostsTypeOK, Arrays
    <2>2. /\ Before = BeforeIn(regexBasedHosts)
          /\ \A w \in Wild : HeldMap[w] = HeldIn(regexBasedHosts, w)
          /\ \A d \in Exact : HeldMap[d] = wellDefinedHosts[d]
          /\ HeldMap \in [Exact \cup Wild -> HostVersions]
      <3>1. \A w \in Wild : HeldIn(regexBasedHosts, w) \in HostVersions
        BY <2>1, HeldIs
      <3>2. \A d \in Exact : wellDefinedHosts[d] \in HostVersions
        BY <1>2 DEF HostsInv, HostsTypeOK
      <3>3. \A d \in Exact \cup Wild : HeldMap[d] \in HostVersions
        BY <3>1, <3>2, Mapping DEF IsMapped
      <3> QED BY <3>3, Mapping DEF IsMapped, HeldMap
    <2>3. /\ Before' = BeforeIn(regexBasedHosts')
          /\ \A w \in Wild : HeldMap'[w] = HeldIn(regexBasedHosts', w)
          /\ \A d \in Exact : HeldMap'[d] = wellDefinedHosts'[d]
          /\ HeldMap' = [d \in Exact \cup Wild |-> HeldMap'[d]]
      BY MappingAfter DEF IsMapped, HeldMap
    <2>4. Wild \cap Exact = {} /\ Saved \subseteq Exact
      BY HostsAssumption
    <2>5. Before \subseteq Wild \X Wild
      BY <2>1, <2>2, InBefore
    <2>6. changes < MaxChanges => changes + 1 \in HostVersions /\ changes + 1 # 0
      BY <1>2, HostsAssumption DEF HostsInv, HostsTypeOK, HostVersions
    <2>7. ASSUME NEW w \in Wild, AddWildcard(w)
          PROVE  Table!Add(w, changes + 1)
      <3>1. /\ Spliced(w) \in Arrays /\ OneEach(Spliced(w))
            /\ HeldIn(Spliced(w), w) = 0
            /\ \A x : x # w => HeldIn(Spliced(w), x) = HeldIn(regexBasedHosts, x)
            /\ BeforeIn(Spliced(w)) = {p \in BeforeIn(regexBasedHosts) : w \notin {p[1], p[2]}}
        BY <2>1, Splices, SplicedTable
      <3>2. /\ HeldIn(regexBasedHosts', w) = changes + 1
            /\ \A x : x # w => HeldIn(regexBasedHosts', x) = HeldIn(Spliced(w), x)
            /\ BeforeIn(regexBasedHosts') =
                 BeforeIn(Spliced(w))
                   \cup {<<x, w>> : x \in {y \in Wild \ {w} : HeldIn(Spliced(w), y) # 0}}
        BY <2>6, <2>7, <3>1, AppendedTable DEF AddWildcard
      <3>3. HeldMap' = [HeldMap EXCEPT ![w] = changes + 1]
        BY <2>2, <2>3, <2>4, <2>7, <3>1, <3>2 DEF AddWildcard
      <3>4. {y \in Wild \ {w} : HeldIn(Spliced(w), y) # 0} = {x \in Wild \ {w} : HeldMap[x] # 0}
        BY <2>2, <3>1
      <3>5. Before' = {p \in Before : w \notin {p[1], p[2]}}
                        \cup {<<x, w>> : x \in {x \in Wild \ {w} : HeldMap[x] # 0}}
        BY <2>2, <2>3, <3>1, <3>2, <3>4
      <3> QED BY <2>4, <2>6, <2>7, <3>3, <3>5 DEF AddWildcard, Table!Add, Table!Without, HeldMap
    <2>8. ASSUME NEW d \in Saved, AddExact(d)
          PROVE  Table!Add(d, changes + 1)
      <3>1. d \in Exact /\ changes < MaxChanges /\ UNCHANGED <<regexBasedHosts, answer>>
        BY <2>4, <2>8 DEF AddExact
      <3>2. \A x \in Exact : wellDefinedHosts'[x] = IF x = d THEN changes + 1 ELSE wellDefinedHosts[x]
        BY <1>2, <2>8, <3>1 DEF AddExact, HostsInv, HostsTypeOK
      <3>3. HeldMap' = [HeldMap EXCEPT ![d] = changes + 1]
        BY <2>2, <2>3, <2>4, <3>1, <3>2
      <3>4. Before' = Before
        BY <2>2, <2>3, <3>1
      <3> QED BY <2>6, <3>1, <3>3, <3>4 DEF Table!Add, HeldMap
    <2>9. ASSUME NEW w \in Wild, regexBasedHosts' = Spliced(w),
                 UNCHANGED <<wellDefinedHosts, answer>>
          PROVE  Table!Remove(w)
      <3>1. /\ HeldIn(Spliced(w), w) = 0
            /\ \A x : x # w => HeldIn(Spliced(w), x) = HeldIn(regexBasedHosts, x)
            /\ BeforeIn(Spliced(w)) = {p \in BeforeIn(regexBasedHosts) : w \notin {p[1], p[2]}}
        BY <2>1, SplicedTable
      <3>2. HeldMap' = [HeldMap EXCEPT ![w] = 0]
        BY <2>2, <2>3, <2>4, <2>9, <3>1
      <3>3. Before' = {p \in Before : w \notin {p[1], p[2]}}
        BY <2>2, <2>3, <2>9, <3>1
      <3> QED BY <2>9, <3>2, <3>3 DEF Table!Remove, Table!Without, HeldMap
    <2>10. ASSUME NEW d \in Exact, wellDefinedHosts' = [wellDefinedHosts EXCEPT ![d] = 0],
                  UNCHANGED <<regexBasedHosts, answer>>
           PROVE  Table!Remove(d)
      <3>1. \A x \in Exact : wellDefinedHosts'[x] = IF x = d THEN 0 ELSE wellDefinedHosts[x]
        BY <1>2, <2>10 DEF HostsInv, HostsTypeOK
      <3>2. HeldMap' = [HeldMap EXCEPT ![d] = 0]
        BY <2>2, <2>3, <2>4, <2>10, <3>1
      <3>3. Before' = {p \in Before : d \notin {p[1], p[2]}}
        <4>1. \A p \in Before : d \notin {p[1], p[2]}
          BY <2>4, <2>5
        <4>2. Before' = Before
          BY <2>2, <2>3, <2>10
        <4> QED BY <4>1, <4>2
      <3> QED BY <2>10, <3>2, <3>3 DEF Table!Remove, Table!Without, HeldMap
    <2>11. ASSUME RemoveByKey
           PROVE  \E d \in Exact \cup Wild : Table!Remove(d)
      BY <2>9, <2>10, <2>11 DEF RemoveByKey
    <2>12. ASSUME NEW header \in Headers, ResolveGateway(header)
           PROVE  \E d \in Exact : Table!Resolve(d)
      <3> DEFINE d == LookedUp(header)
                 first == FirstMatch(d)
                 w == regexBasedHosts[first].domain
      <3>1. d \in Exact
        BY DEF LookedUp, Domain, Exact, Headers
      <3>2. UNCHANGED regexBasedHosts
        BY <2>12 DEF ResolveGateway
      <3>3. \/ /\ wellDefinedHosts[d] # 0
               /\ answer' = wellDefinedHosts[d] /\ UNCHANGED wellDefinedHosts
            \/ /\ wellDefinedHosts[d] = 0 /\ first # 0
               /\ answer' = regexBasedHosts[first].version
               /\ wellDefinedHosts' =
                    [wellDefinedHosts EXCEPT ![d] = regexBasedHosts[first].version]
            \/ /\ wellDefinedHosts[d] = 0 /\ first = 0
               /\ answer' = 0 /\ UNCHANGED wellDefinedHosts
        BY <2>12 DEF ResolveGateway
      <3>4. /\ first # 0 => /\ first \in DOMAIN regexBasedHosts
                            /\ Match(regexBasedHosts[first], d)
                            /\ \A j \in DOMAIN regexBasedHosts :
                                 Match(regexBasedHosts[j], d) => first <= j
            /\ first = 0 => \A j \in DOMAIN regexBasedHosts : ~Match(regexBasedHosts[j], d)
        BY <2>1, FirstMatches
      <3> HIDE DEF d, first
      <3>5. Before' = Before
        BY <2>2, <2>3, <3>2
      <3>6. \A x : x \in Table!Candidates(d) <=>
                     x \in Wild /\ \E j \in DOMAIN regexBasedHosts :
                                     regexBasedHosts[j].domain = x /\ Match(regexBasedHosts[j], d)
        <4>1. \A x \in Wild :
                HeldMap[x] # 0 <=> \E j \in DOMAIN regexBasedHosts : regexBasedHosts[j].domain = x
          BY <2>1, <2>2, HeldIs
        <4>2. \A x : x \in Table!Candidates(d) <=>
                       x \in Wild /\ HeldMap[x] # 0 /\ <<x, d.name>> \in MatchesName
          BY <3>1 DEF Table!Candidates, HeldMap
        <4> QED BY <4>1, <4>2 DEF Match
      <3>7. CASE wellDefinedHosts[d] # 0 /\ answer' = wellDefinedHosts[d] /\ UNCHANGED wellDefinedHosts
        <4>1. HeldMap' = HeldMap /\ HeldMap[d] # 0 /\ answer' = HeldMap[d]
          BY <2>2, <2>3, <3>1, <3>2, <3>7
        <4> QED BY <3>1, <3>5, <4>1 DEF Table!Resolve, HeldMap
      <3>8. CASE wellDefinedHosts[d] = 0 /\ first = 0 /\ answer' = 0 /\ UNCHANGED wellDefinedHosts
        <4>1. HeldMap' = HeldMap /\ HeldMap[d] = 0
          BY <2>2, <2>3, <3>1, <3>2, <3>8
        <4>2. Table!Candidates(d) = {}
          BY <3>4, <3>6, <3>8
        <4> QED BY <3>1, <3>5, <3>8, <4>1, <4>2 DEF Table!Resolve, HeldMap
      <3>9. CASE /\ wellDefinedHosts[d] = 0 /\ first # 0
                 /\ answer' = regexBasedHosts[first].version
                 /\ wellDefinedHosts' =
                      [wellDefinedHosts EXCEPT ![d] = regexBasedHosts[first].version]
        <4>1. w \in Wild /\ HeldMap[w] = regexBasedHosts[first].version
          BY <2>1, <2>2, <3>4, <3>9, ArrayTypes, HeldIs
        <4>2. w \in Table!Candidates(d)
          BY <3>4, <3>6, <3>9, <4>1
        <4>3. \A x \in Table!Candidates(d) \ {w} : <<w, x>> \in Before
          <5> SUFFICES ASSUME NEW x \in Table!Candidates(d), x # w
                       PROVE  <<w, x>> \in Before
            OBVIOUS
          <5>1. PICK j \in DOMAIN regexBasedHosts :
                  regexBasedHosts[j].domain = x /\ Match(regexBasedHosts[j], d)
            BY <3>6
          <5>2. first \in Nat /\ j \in Nat /\ first <= j /\ first # j
            BY <2>1, <3>4, <3>9, <5>1, ArrayTypes
          <5>3. first < j
            BY <5>2
          <5> QED BY <2>1, <2>2, <3>4, <3>9, <5>1, <5>3, InBefore
        <4>4. HeldMap' = [HeldMap EXCEPT ![d] = HeldMap[w]]
          <5>1. \A x \in Exact : wellDefinedHosts'[x] =
                  IF x = d THEN regexBasedHosts[first].version ELSE wellDefinedHosts[x]
            BY <1>2, <3>1, <3>9 DEF HostsInv, HostsTypeOK
          <5> QED BY <2>2, <2>3, <2>4, <3>1, <3>2, <4>1, <5>1
        <4>5. HeldMap[d] = 0 /\ answer' = HeldMap[w]
          BY <2>2, <3>1, <3>9, <4>1
        <4> HIDE DEF w
        <4> QED BY <3>1, <3>5, <4>2, <4>3, <4>4, <4>5 DEF Table!Resolve, HeldMap
      <3> QED BY <3>3, <3>7, <3>8, <3>9
    <2>13. ASSUME UNCHANGED hostsVars
           PROVE  UNCHANGED Table!vars
      BY <2>2, <2>3, <2>13 DEF hostsVars, Table!vars, HeldMap
    <2>14. ASSUME NEW d \in Exact \cup Wild, Table!Add(d, changes + 1), changes < MaxChanges
           PROVE  Table!Next
      BY <2>6, <2>14 DEF Table!Next
    <2>15. CASE \E w \in Wild : AddWildcard(w)
      BY <2>7, <2>14, <2>15 DEF AddWildcard
    <2>16. CASE \E d \in Saved : AddExact(d)
      BY <2>4, <2>8, <2>14, <2>16 DEF AddExact
    <2>17. CASE RemoveByKey
      BY <2>11, <2>17 DEF Table!Next
    <2>18. CASE \E header \in Headers : ResolveGateway(header)
      BY <2>12, <2>18 DEF Table!Next
    <2> QED BY <1>2, <2>13, <2>15, <2>16, <2>17, <2>18 DEF HostsNext
  <1> QED BY <1>1, <1>2, HostsInitEstablishes, HostsNextPreserves, PTL
          DEF HostsSpec, KeepsTable, Table!Spec
=============================================================================
