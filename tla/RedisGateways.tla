---------------------------- MODULE RedisGateways ----------------------------
(***************************************************************************)
(* The admin requests and the clones of one process over the Redis         *)
(* repository.  Each admin request is two round trips: it looks for the    *)
(* gateway, and then changes it.  The client sends commands over one       *)
(* connection; Redis executes them and replies in that order; requests     *)
(* interleave between round trips.  When the connection breaks, what was   *)
(* sent and not replied to is rejected, executed or not; what comes while  *)
(* it is away waits in the client and is sent when it is back.  The        *)
(* process may be stopped or crash at any time, and starts from Redis.     *)
(***************************************************************************)
EXTENDS Integers, Sequences, FiniteSetsExt, SequencesExt

CONSTANTS
    Domains,        \* the domains of gateways
    Wildcard,       \* the one with a "*" that matches every other one
    AdminKinds,     \* the kinds of gateway the administrator saves
    Unreadable,     \* contents whose JSON no gateway is built from
    Unwritable,     \* contents that have no JSON: toJSON throws
    MaxRequests,    \* bound on the admin requests and clones
    MaxBreaks       \* bound on how often the connection breaks

Kinds == {"virtualHost", "apiGateway"}

ASSUME RedisAssumption ==
    /\ Wildcard \in Domains
    /\ AdminKinds \subseteq Kinds
    /\ 0 \notin Unreadable \cup Unwritable
    /\ MaxRequests \in Nat /\ MaxBreaks \in Nat

\* A version stands for the content of a gateway: the number of the request that
\* brought it, or one of those that fail (as in FileRepository); 0 is no gateway.
Ids == 1..MaxRequests
Versions == {0} \cup Ids \cup Unreadable \cup Unwritable
Gateways == [kind : Kinds, version : Versions]
Gateway(k, v) == [kind |-> k, version |-> v]
Absent == Gateway("virtualHost", 0)
IsThere(g) == g.version # 0

\* A request: the gateway it saves (or finds, to remove it), and how far it is.
\* A "clone" was saved by 'resolved' and answers to nobody.
Requests ==
    [op : {"add", "update", "delete", "clone"}, path : Domains, domain : Domains,
     gateway : Gateways,
     step : {"look", "change"},             \* the command it awaits
     executed : BOOLEAN,                    \* Redis has executed that command
     found : Gateways]                      \* what the look found

\* Nothing is kept of a request that is done.
Done == [step |-> "done"]

VARIABLES
    redis,          \* the hashes 'hosts' and 'apis'
    requests,       \* the requests made so far
    pipe,           \* those whose command is sent, or waits for the connection
    ready,          \* _client.isReady
    breaks,         \* how often the connection broke
    buffer,         \* _buffer
    table,          \* GatewayHostService, as the events leave it
    doubtful        \* history: see TableFollowsRedis

vars == <<redis, requests, pipe, ready, breaks, buffer, table, doubtful>>

TypeOK ==
    /\ redis \in [Kinds -> [Domains -> Versions]]
    /\ requests \in Seq(Requests \cup {Done}) /\ Len(requests) <= MaxRequests
    /\ pipe \in Seq(DOMAIN requests)
    /\ \A n \in DOMAIN pipe : requests[pipe[n]].step # "done"
    /\ ready \in BOOLEAN
    /\ breaks \in 0..MaxBreaks
    /\ buffer \in Seq(Ids) /\ (ready => buffer = <<>>)
    /\ table \in [Domains -> Gateways]
    /\ doubtful \subseteq Domains

Init ==
    /\ redis = [k \in Kinds |-> [d \in Domains |-> 0]]
    /\ requests = <<>>
    /\ pipe = <<>>
    /\ ready = TRUE
    /\ breaks = 0
    /\ buffer = <<>>
    /\ table = [d \in Domains |-> Absent]
    /\ doubtful = {}

-----------------------------------------------------------------------------
\* getGatewayById looks at the API gateways first.
ById(d) ==
    IF redis["apiGateway"][d] # 0 THEN Gateway("apiGateway", redis["apiGateway"][d])
    ELSE IF redis["virtualHost"][d] # 0 THEN Gateway("virtualHost", redis["virtualHost"][d])
    ELSE Absent

Readable(g) == g.version \notin Unreadable

\* updateAPIGateway and deleteGateway need the gateway, and look with
\* getGatewayById; the others ask existsGateway, which parses nothing.
Found(r) ==
    LET g == ById(r.path) IN
    IF ~Readable(g) /\ (r.op = "delete" \/
                        (r.op = "update" /\ r.gateway.kind = "apiGateway"))
      THEN Absent ELSE g

Request(op, path, d, g) ==
    [op |-> op, path |-> path, domain |-> d, gateway |-> g,
     step |-> IF op = "clone" THEN "change" ELSE "look",
     executed |-> FALSE, found |-> Absent]

\* An admin request arrives: POST, PUT (whose body may name another domain than
\* its path) or DELETE.
Arrives(op, k, v, path, d) ==
    /\ Len(requests) < MaxRequests
    /\ op \in {"add", "update", "delete"} /\ (op # "update" => path = d)
    /\ v \in {Len(requests) + 1} \cup Unreadable \cup Unwritable
    /\ op = "delete" => /\ k = CHOOSE kind \in AdminKinds : TRUE
                        /\ v = Len(requests) + 1
    /\ requests' = Append(requests, Request(op, path, d, Gateway(k, v)))
    /\ pipe' = Append(pipe, Len(requests) + 1)
    /\ UNCHANGED <<redis, ready, breaks, buffer, table, doubtful>>

\* The command at a place of the queue changes the gateway of a domain.
Changes(n, d) == requests[pipe[n]].step = "change" /\ requests[pipe[n]].domain = d

Changing(d) == \E n \in DOMAIN pipe : Changes(n, d)

\* toJSON throws within the try of saveVirtualHost and saveApiGateway: no command
\* is sent, and they resolve to true.
Unsent(r) == r.op # "delete" /\ r.gateway.version \in Unwritable

\* In the single process a wildcard gateway is cloned: 'resolved' saves the
\* clone, or buffers it while Redis is away.
Resolves(d) ==
    /\ Len(requests) < MaxRequests
    /\ d # Wildcard /\ ~IsThere(table[d]) /\ IsThere(table[Wildcard])
    /\ table' = [table EXCEPT ![d] = table[Wildcard]]
    /\ LET i == Len(requests) + 1
           r == Request("clone", d, d, table[Wildcard]) IN
       IF ready /\ ~Unsent(r)
         THEN /\ requests' = Append(requests, r)
              /\ pipe' = Append(pipe, i)
              /\ doubtful' = IF Changing(d) THEN doubtful \cup {d} ELSE doubtful
              /\ UNCHANGED buffer
         ELSE /\ requests' = Append(requests, Done)
              /\ buffer' = IF ready THEN buffer ELSE Append(buffer, i)
              /\ doubtful' = doubtful \cup {d}
              /\ UNCHANGED pipe
    /\ UNCHANGED <<redis, ready, breaks>>

\* The command at a place of the queue is the next one Redis executes.
IsNext(n) == ~requests[pipe[n]].executed /\ \A m \in 1..(n - 1) : requests[pipe[m]].executed

\* hExists or hGet of both hashes.
ExecutesLook(i) ==
    /\ requests' = [requests EXCEPT ![i] =
                      [@ EXCEPT !.executed = TRUE, !.found = Found(requests[i])]]
    /\ UNCHANGED <<redis, doubtful>>

\* hSet, or hDel of the hash where the look found the gateway, which is not asked
\* whether it removed anything.
ExecutesChange(i) ==
    LET r == requests[i]
        g == IF r.op = "delete" THEN r.found ELSE r.gateway IN
    /\ requests' = [requests EXCEPT ![i] = [@ EXCEPT !.executed = TRUE]]
    /\ redis' = [redis EXCEPT ![g.kind][r.domain] =
                   IF r.op = "delete" THEN 0 ELSE g.version]
    /\ doubtful' = IF \E k \in Kinds \ {g.kind} : redis[k][r.domain] # 0
                     THEN doubtful \cup {r.domain} ELSE doubtful

\* Redis executes the next command.
Executes ==
    /\ ready
    /\ \E n \in DOMAIN pipe :
         /\ IsNext(n)
         /\ IF requests[pipe[n]].step = "look" THEN ExecutesLook(pipe[n])
                                               ELSE ExecutesChange(pipe[n])
    /\ UNCHANGED <<pipe, ready, breaks, buffer, table>>

\* What 'gateway' and 'removed' leave in the table.
After(r) == IF r.op = "delete" THEN Absent ELSE r.gateway

\* A look refuses an addition of what is there (409), and a change of what is
\* not (404).
Refused(r) == IsThere(r.found) <=> r.op = "add"

\* Mutant of ReplyToChange: the event is emitted for additions only.
ReplyToChangeSilent(i) ==
    /\ requests' = [requests EXCEPT ![i] = Done]
    /\ table' = IF requests[i].op # "add" THEN table
                ELSE [table EXCEPT ![requests[i].domain] = After(requests[i])]
    /\ pipe' = Tail(pipe)

\* The reply to hSet or hDel: 200, and the event that changes the table.
ReplyToChange(i) ==
    /\ requests' = [requests EXCEPT ![i] = Done]
    /\ table' = IF requests[i].op = "clone" THEN table
                ELSE [table EXCEPT ![requests[i].domain] = After(requests[i])]
    /\ pipe' = Tail(pipe)

\* The reply to a look: the request is refused, or its change is sent, or is
\* taken for saved at once.
ReplyToLook(i) ==
    LET r == requests[i] IN
    \/ /\ Refused(r)
       /\ requests' = [requests EXCEPT ![i] = Done]
       /\ pipe' = Tail(pipe)
       /\ UNCHANGED <<table, doubtful>>
    \/ /\ ~Refused(r) /\ ~Unsent(r)
       /\ requests' = [requests EXCEPT ![i] = [@ EXCEPT !.step = "change", !.executed = FALSE]]
       /\ pipe' = Append(Tail(pipe), i)
       /\ UNCHANGED <<table, doubtful>>
    \/ /\ ~Refused(r) /\ Unsent(r)
       /\ ReplyToChange(i)
       /\ doubtful' = doubtful \cup {r.domain}

\* A reply arrives; its handler runs to the next round trip.
Replies ==
    /\ ready /\ pipe # <<>> /\ requests[Head(pipe)].executed
    /\ IF requests[Head(pipe)].step = "look"
         THEN ReplyToLook(Head(pipe))
         ELSE ReplyToChange(Head(pipe)) /\ UNCHANGED doubtful
    /\ UNCHANGED <<redis, ready, breaks, buffer>>

\* The places in the queue of the requests that save a gateway of a domain.
Saving(d) == {n \in DOMAIN pipe : Changes(n, d) /\ requests[pipe[n]].op \in {"add", "update"}}

\* The connection breaks: all commands that were sent are rejected, in order.
\* A look or a removal ends its request; saveVirtualHost and saveApiGateway catch
\* the rejection and resolve to true, so the gateway comes into the table.
Breaks ==
    /\ ready /\ breaks < MaxBreaks
    /\ ready' = FALSE
    /\ breaks' = breaks + 1
    /\ pipe' = <<>>
    /\ requests' = [i \in DOMAIN requests |->
                      IF i \in ToSet(pipe) THEN Done ELSE requests[i]]
    /\ table' = [d \in Domains |-> IF Saving(d) = {} THEN table[d]
                                   ELSE requests[pipe[Max(Saving(d))]].gateway]
    /\ doubtful' = doubtful \cup {d \in Domains : Changing(d)}
    /\ UNCHANGED <<redis, buffer>>

\* Mutant of Reconnects: the buffer is not emptied.
ReconnectsKeepsBuffer ==
    /\ ~ready
    /\ ready' = TRUE
    /\ UNCHANGED <<redis, requests, pipe, breaks, buffer, table, doubtful>>

\* 'ready': flushBuffer.  No gateway has the method key() it calls, so each of
\* the buffered ones is logged as an error and dropped.
Reconnects ==
    /\ ~ready
    /\ ready' = TRUE
    /\ buffer' = <<>>
    /\ UNCHANGED <<redis, requests, pipe, breaks, table, doubtful>>

\* What loadGateways leaves of a domain in a table: it gives the API gateways
\* first, so a virtual host of the same domain replaces one.
Given(d) ==
    LET held(k) == Gateway(k, redis[k][d])
        loaded(k) == IsThere(held(k)) /\ Readable(held(k)) IN
    IF loaded("virtualHost") THEN held("virtualHost")
    ELSE IF loaded("apiGateway") THEN held("apiGateway") ELSE Absent

\* The process ends, and its commands that are not executed with it; a new one
\* connects and loads both hashes before it serves anybody.
Restarts ==
    /\ requests' = [i \in DOMAIN requests |-> Done]
    /\ pipe' = <<>>
    /\ ready' = TRUE
    /\ buffer' = <<>>
    /\ table' = [d \in Domains |-> Given(d)]
    /\ doubtful' = {d \in Domains : Given(d) # ById(d) \/ \A k \in Kinds : redis[k][d] # 0}
    /\ UNCHANGED <<redis, breaks>>

Next ==
    \/ \E op \in {"add", "update", "delete"}, k \in AdminKinds, path, d \in Domains :
         \E v \in Versions : Arrives(op, k, v, path, d)
    \/ \E d \in Domains : Resolves(d)
    \/ Executes \/ Replies
    \/ Breaks \/ Reconnects \/ Restarts

Spec == Init /\ [][Next]_vars

-----------------------------------------------------------------------------
\* However many admin requests are between their round trips, the table (and
\* the workers, who get the same events) follows Redis for each domain whose
\* changes were all replied to: events come in the order of execution.  Out of
\* this are the domains of a change that was rejected or dropped, or had no JSON,
\* that left a gateway of the other kind in Redis, or of a clone that met a change
\* under way, until a restart; then those of which the load leaves another gateway
\* than the look finds, or none it can build.
TableFollowsRedis ==
    \A d \in Domains \ doubtful : ~Changing(d) => table[d] = ById(d)
=============================================================================
