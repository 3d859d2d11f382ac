---------------------------- MODULE Middlewares ----------------------------
(***************************************************************************)
(* The middlewares of the requests of one gateway: MiddlewareProcessor and *)
(* what each middleware of the registry does.  A processor is made for     *)
(* every request, from the proxy's list, and the gateway appends its own   *)
(* list when the request reaches it.  Four chains run over it: one of      *)
(* onProxyRequest in two parts, one of preUpstreamRequest, and, when the   *)
(* upstream responds, one of postUpstreamResponse and one of               *)
(* onProxyResponse.  A middleware calls next, or ends the response.        *)
(*                                                                         *)
(* The chains are synchronous: running is the request whose handler is     *)
(* under way.  Others come in only while it waits for its upstream, and so *)
(* does an update that replaces the gateway.  Requests whose host finds no *)
(* gateway, or whose gateway finds no upstream, are those of ProxyRequest. *)
(***************************************************************************)
EXTENDS Integers, FiniteSets, Sequences, SequencesExt

CONSTANTS
    Requests,
    NoRequest,
    GlobalLists,    \* the lists a configuration may give the proxy
    OwnLists,       \* the lists a gateway may have
    MaxLength,      \* no list is longer
    Clients,        \* what a client may ask for
    MaxUpdates      \* bound on the replacements of the gateway

\* MiddlewareRegistry; build returns undefined for another type, which a gateway
\* keeps when the repository does not write it down (type "memory").
Known == {"AccessLogging", "ContentEncoding", "ForwardHeaders",
          "GatewayInMaintenance", "GatewayStatsCollector", "CorrelationId",
          "Redirect", "SpamFilter"}

Encodings == {"gzip", "br", "deflate"}
Identity == "identity"

Positions == 1..(2 * MaxLength)

\* What a client asks for; correlated: it has sent the header, or got it.
Asked == [accepts : SUBSET Encodings, correlated : BOOLEAN, path : STRING,
          method : STRING, pathnameEnds : SUBSET STRING, pathEnds : SUBSET STRING,
          pathContains : SUBSET STRING]

Statuses == {"200", "303", "503"}        \* strings, to be told from the answers below
Listed == UNION {ToSet(l) : l \in GlobalLists \cup OwnLists}

ASSUME MiddlewaresAssumption ==
    /\ NoRequest \notin Requests
    /\ MaxLength \in Nat
    /\ \A l \in GlobalLists \cup OwnLists : l \in Seq(Listed) /\ Len(l) <= MaxLength
    /\ \A l \in GlobalLists : \A i \in DOMAIN l : l[i].type \in Known
    /\ \A m \in Listed : m.type = "GatewayInMaintenance" => m.status \in Statuses
    /\ Clients \subseteq Asked
    /\ MaxUpdates \in Nat

VARIABLES
    globals,        \* ProxyService._middlewares
    own,            \* Gateway._middlewares of the gateway as it is now
    updates,        \* how many times it was replaced
    running,        \* the request whose handler is under way
    client,         \* of a request: what it asks for
    chain,          \* its processor's list
    stage,          \* the chain under way, or what it waits for
    at,             \* the next position, middlewareIdx
    sent,           \* what of it goes upstream: headers put there, "request" itself
    accepts,        \* EncodingMiddleware._accepts, of every instance
    transformer,    \* EncodingMiddleware._transformer, of every instance
    response,       \* headers and transforms of the response
    reply,          \* what the client is answered
    ran             \* history: the hooks called

lists == <<globals, own, updates>>
encoders == <<accepts, transformer>>
vars == <<lists, running, client, chain, stage, at, sent, encoders, response, reply,
          ran>>

Chains == {"global", "own", "preProxy", "postProxy", "post"}
Answers == Statuses \cup {"none", "upstream"}

HookNames == {"onProxyRequest", "preUpstreamRequest", "postUpstreamResponse",
              "onProxyResponse"}

Responses ==
    [upstream : Encodings \cup {Identity}, encoding : Encodings \cup {Identity},
     length : BOOLEAN, transforms : Seq(Encodings)]

TypeOK ==
    /\ globals \in GlobalLists /\ own \in OwnLists
    /\ updates \in 0..MaxUpdates
    /\ running \in Requests \cup {NoRequest}
    /\ client \in [Requests -> Asked]
    /\ chain \in [Requests -> Seq(Listed)]
    /\ stage \in [Requests -> Chains \cup {"new", "awaiting", "ended"}]
    /\ at \in [Requests -> Nat \ {0}]
    /\ sent \in [Requests -> SUBSET {"correlation", "forwarded", "request"}]
    /\ accepts \in [Requests \X Positions -> SUBSET Encodings]
    /\ transformer \in [Requests \X Positions -> Encodings \cup {Identity}]
    /\ response \in [Requests -> Responses]
    /\ reply \in [Requests -> Answers]
    /\ ran \in [Requests -> Seq(HookNames \X Nat)]
    /\ \A r \in Requests :
         /\ stage[r] \in Chains <=> running = r
         /\ at[r] <= Len(chain[r]) + 1
         /\ Len(chain[r]) <= IF stage[r] \in {"new", "global"} THEN MaxLength
                                                               ELSE 2 * MaxLength
         /\ reply[r] # "none" <=> stage[r] = "ended"

Init ==
    /\ globals \in GlobalLists
    /\ own \in OwnLists
    /\ updates = 0
    /\ running = NoRequest
    /\ client \in [Requests -> Clients]
    /\ chain = [r \in Requests |-> <<>>]
    /\ stage = [r \in Requests |-> "new"]
    /\ at = [r \in Requests |-> 1]
    /\ sent = [r \in Requests |-> {}]
    /\ accepts = [i \in Requests \X Positions |-> {}]
    /\ transformer = [i \in Requests \X Positions |-> Identity]
    /\ response = [r \in Requests |->
         [upstream |-> Identity, encoding |-> Identity, length |-> TRUE,
          transforms |-> <<>>]]
    /\ reply = [r \in Requests |-> "none"]
    /\ ran = [r \in Requests |-> <<>>]

-----------------------------------------------------------------------------
(* The processor.                                                          *)

Hook == [global |-> "onProxyRequest", own |-> "onProxyRequest",
         preProxy |-> "preUpstreamRequest", postProxy |-> "postUpstreamResponse",
         post |-> "onProxyResponse"]

\* Mutant of Instance: the list is pushed as it is, for all requests.
InstanceShared(r, i) == <<CHOOSE q \in Requests : TRUE, i>>

\* append builds what has state anew for every request: an EncodingMiddleware,
\* and the collector, which notes its start.
Instance(r, i) == <<r, i>>

Current(r) == chain[r][at[r]]

\* A position that holds no middleware ends the chain, be it behind the last one
\* or that of an unknown type.
Holds(r) == at[r] \in DOMAIN chain[r] /\ Current(r).type \in Known

\* next() finds a middleware and calls the hook of the chain c.
Calls(r, c) ==
    /\ running = r /\ stage[r] = c /\ Holds(r)
    /\ ran' = [ran EXCEPT ![r] = Append(@, <<Hook[c], at[r]>>)]

\* next() finds none: the next stage begins.
Through(r, c) == running = r /\ stage[r] = c /\ ~Holds(r)

GoesOn(r) ==
    /\ at' = [at EXCEPT ![r] = @ + 1]
    /\ UNCHANGED <<stage, running>>

Starts(r, c, position) ==
    /\ stage' = [stage EXCEPT ![r] = c]
    /\ at' = [at EXCEPT ![r] = position]
    /\ running' = r

\* endWithStatus, or send: nothing of the request is called any more.
Answered(r, answer) ==
    /\ reply' = [reply EXCEPT ![r] = answer]
    /\ stage' = [stage EXCEPT ![r] = "ended"]
    /\ running' = NoRequest
    /\ UNCHANGED at

-----------------------------------------------------------------------------
(* The middlewares.                                                        *)

\* isValid of the filter's strategy.  EndsWith looks at the path without its query;
\* ContainsString looks for one value at the end only.
Valid(filter, c) ==
    CASE filter.strategy = "EndsWith" -> filter.values \cap c.pathnameEnds = {}
      [] filter.strategy = "ContainsString" /\ Cardinality(filter.values) = 1 ->
           filter.values \cap c.pathEnds = {}
      [] filter.strategy = "ContainsString" -> filter.values \cap c.pathContains = {}
      [] filter.strategy = "Method" -> c.method \notin filter.values
      [] OTHER -> TRUE

\* A redirection without a path is one of every request.
Redirects(m, c) == m.type = "Redirect" /\ m.path \in {"", c.path}

\* The status a middleware ends the response with, or "none": it calls next.
Status(m, c) ==
    CASE m.type = "GatewayInMaintenance" -> m.status
      [] Redirects(m, c) -> "303"
      [] m.type = "SpamFilter" /\ ~Valid(m, c) -> "200"
      [] OTHER -> "none"

\* The header is kept when the client has sent it.
Correlated(m, c) == c.correlated \/ m.type = "CorrelationId"

\* Mutant of OnProxyRequest: the filter calls next when it has answered.
OnProxyRequestGoesOn(r, c) ==
    /\ c \in {"global", "own"} /\ Calls(r, c)
    /\ LET m == Current(r) IN
         /\ IF Status(m, client[r]) = "none" \/ m.type = "SpamFilter"
              THEN GoesOn(r) /\ reply' = [reply EXCEPT ![r] = Status(m, client[r])]
              ELSE Answered(r, Status(m, client[r]))
         /\ client' = [client EXCEPT ![r].correlated = Correlated(m, client[r])]
         /\ accepts' = [accepts EXCEPT ![Instance(r, at[r])] =
                          IF m.type = "ContentEncoding" THEN client[r].accepts ELSE @]
    /\ UNCHANGED <<globals, own, updates, chain, sent, transformer, response>>

OnProxyRequest(r, c) ==
    /\ c \in {"global", "own"} /\ Calls(r, c)
    /\ LET m == Current(r) IN
         /\ IF Status(m, client[r]) = "none"
              THEN GoesOn(r) /\ UNCHANGED reply ELSE Answered(r, Status(m, client[r]))
         /\ client' = [client EXCEPT ![r].correlated = Correlated(m, client[r])]
         /\ accepts' = [accepts EXCEPT ![Instance(r, at[r])] =
                          IF m.type = "ContentEncoding" THEN client[r].accepts ELSE @]
    /\ UNCHANGED <<globals, own, updates, chain, sent, transformer, response>>

PreUpstreamRequest(r) ==
    /\ Calls(r, "preProxy")
    /\ GoesOn(r)
    /\ sent' = [sent EXCEPT ![r] = IF Current(r).type = "ForwardHeaders"
                                     THEN @ \cup {"forwarded"} ELSE @]
    /\ UNCHANGED <<lists, client, chain, encoders, response, reply>>

\* The first of the three encodings the client accepts.
Chosen(accepted) ==
    IF "gzip" \in accepted THEN "gzip"
    ELSE IF "br" \in accepted THEN "br"
    ELSE IF "deflate" \in accepted THEN "deflate" ELSE Identity

PostUpstreamResponse(r) ==
    /\ Calls(r, "postProxy")
    /\ GoesOn(r)
    /\ LET i == Instance(r, at[r]) IN
         IF /\ Current(r).type = "ContentEncoding"
            /\ response[r].upstream = Identity
            /\ Chosen(accepts[i]) # Identity
           THEN /\ transformer' = [transformer EXCEPT ![i] = Chosen(accepts[i])]
                /\ response' = [response EXCEPT ![r].encoding = Chosen(accepts[i])]
           ELSE UNCHANGED <<transformer, response>>
    /\ UNCHANGED <<lists, client, chain, sent, accepts, reply>>

\* Mutant of OnProxyResponse: there may be no transformer.
OnProxyResponseUnasked(r) ==
    /\ Calls(r, "post")
    /\ GoesOn(r)
    /\ LET t == transformer[Instance(r, at[r])] IN
         response' = IF Current(r).type = "ContentEncoding"
           THEN [response EXCEPT ![r].length = FALSE, ![r].transforms = Append(@, t)]
           ELSE response
    /\ UNCHANGED <<lists, client, chain, sent, encoders, reply>>

OnProxyResponse(r) ==
    /\ Calls(r, "post")
    /\ GoesOn(r)
    /\ LET t == transformer[Instance(r, at[r])] IN
         response' = IF Current(r).type = "ContentEncoding" /\ t # Identity
           THEN [response EXCEPT ![r].length = FALSE, ![r].transforms = Append(@, t)]
           ELSE response
    /\ UNCHANGED <<lists, client, chain, sent, encoders, reply>>

-----------------------------------------------------------------------------
(* The stages.                                                             *)

Arrives(r) ==
    /\ running = NoRequest /\ stage[r] = "new"
    /\ chain' = [chain EXCEPT ![r] = globals]
    /\ Starts(r, "global", 1)
    /\ UNCHANGED <<lists, client, sent, encoders, response, reply, ran>>

\* Mutant of EntersGateway: the chain is run from its first position.
EntersGatewayAnew(r) ==
    /\ Through(r, "global")
    /\ chain' = [chain EXCEPT ![r] = @ \o own]
    /\ Starts(r, "own", 1)
    /\ UNCHANGED <<lists, client, sent, encoders, response, reply, ran>>

\* Gateway.request: its list is appended, and run from where it begins.
EntersGateway(r) ==
    /\ Through(r, "global")
    /\ chain' = [chain EXCEPT ![r] = @ \o own]
    /\ Starts(r, "own", Len(chain[r]) + 1)
    /\ UNCHANGED <<lists, client, sent, encoders, response, reply, ran>>

\* The options of the upstream request are made of the client's headers.
ResolvesUpstream(r) ==
    /\ Through(r, "own")
    /\ Starts(r, "preProxy", 1)
    /\ sent' = [sent EXCEPT ![r] = IF client[r].correlated THEN {"correlation"} ELSE {}]
    /\ UNCHANGED <<lists, client, chain, encoders, response, reply, ran>>

Sends(r) ==
    /\ Through(r, "preProxy")
    /\ sent' = [sent EXCEPT ![r] = @ \cup {"request"}]
    /\ stage' = [stage EXCEPT ![r] = "awaiting"]
    /\ running' = NoRequest
    /\ UNCHANGED <<lists, client, chain, at, encoders, response, reply, ran>>

\* The upstream may have encoded its body already.
UpstreamResponds(r, encoding) ==
    /\ running = NoRequest /\ stage[r] = "awaiting"
    /\ Starts(r, "postProxy", 1)
    /\ response' = [response EXCEPT ![r].upstream = encoding, ![r].encoding = encoding]
    /\ UNCHANGED <<lists, client, chain, sent, encoders, reply, ran>>

\* An error of the upstream request: no middleware hears of it.
UpstreamFails(r) ==
    /\ running = NoRequest /\ stage[r] = "awaiting"
    /\ Answered(r, "503")
    /\ UNCHANGED <<lists, client, chain, sent, encoders, response, ran>>

PostBegins(r) ==
    /\ Through(r, "postProxy")
    /\ Starts(r, "post", 1)
    /\ UNCHANGED <<lists, client, chain, sent, encoders, response, reply, ran>>

SendsResponse(r) ==
    /\ Through(r, "post")
    /\ Answered(r, "upstream")
    /\ UNCHANGED <<lists, client, chain, sent, encoders, response, ran>>

\* The table gets another gateway of the domain; its hosts are those of before.
Updates(list) ==
    /\ running = NoRequest
    /\ updates < MaxUpdates
    /\ updates' = updates + 1
    /\ own' = list
    /\ UNCHANGED <<globals, running, client, chain, stage, at, sent, encoders,
                   response, reply, ran>>

Next ==
    \/ \E r \in Requests :
         \/ Arrives(r) \/ EntersGateway(r) \/ ResolvesUpstream(r) \/ Sends(r)
         \/ \E c \in Chains : OnProxyRequest(r, c)
         \/ PreUpstreamRequest(r) \/ PostUpstreamResponse(r) \/ OnProxyResponse(r)
         \/ \E e \in {Identity} \cup Encodings : UpstreamResponds(r, e)
         \/ UpstreamFails(r) \/ PostBegins(r) \/ SendsResponse(r)
    \/ \E list \in OwnLists : Updates(list)

Spec == Init /\ [][Next]_vars

-----------------------------------------------------------------------------
\* The middlewares of a chain that take part: those before an unknown one.
Members(r) ==
    {i \in DOMAIN chain[r] : \A j \in 1..i : chain[r][j].type \in Known}

Hooks == <<"onProxyRequest", "preUpstreamRequest", "postUpstreamResponse",
           "onProxyResponse">>

Schedule(n) == [k \in 1..(4 * n) |-> <<Hooks[((k - 1) \div n) + 1], ((k - 1) % n) + 1>>]

\* Every middleware of both lists is called once at each of its four hooks, in the
\* order of the lists, up to the answer: none twice though the second part of the
\* chain begins in the middle, none left out though the gateway is replaced.
HooksInTurn ==
    \A r \in Requests :
        LET n == Cardinality(Members(r)) IN
        /\ IsPrefix(ran[r], Schedule(n))
        /\ reply[r] = "upstream" => Len(ran[r]) = 4 * n

Interceptors(r) == {i \in Members(r) : Status(chain[r][i], client[r]) # "none"}

\* A request that a middleware of the chain answers gets the answer of the first
\* one, and nothing of it reaches the upstream; any other request goes there with
\* the headers its chain is there to add.
InterceptedNeverForwarded ==
    \A r \in Requests :
        /\ Interceptors(r) # {} /\ stage[r] = "ended" =>
             reply[r] = Status(chain[r][Min(Interceptors(r))], client[r])
        /\ Interceptors(r) # {} => "request" \notin sent[r]
        /\ "request" \in sent[r] => \A i \in Members(r) :
             /\ chain[r][i].type = "CorrelationId" => "correlation" \in sent[r]
             /\ chain[r][i].type = "ForwardHeaders" => "forwarded" \in sent[r]

Encoders(r) == {i \in Members(r) : chain[r][i].type = "ContentEncoding"}

\* The body is encoded as its header says, in an encoding this client accepts, and
\* its length is left out, however the requests of several clients interleave.  Two
\* encoders in one chain, the proxy's and the gateway's, encode twice.
EncodedAsAnnounced ==
    \A r \in Requests :
        reply[r] = "upstream" /\ Cardinality(Encoders(r)) <= 1 =>
            IF response[r].upstream # Identity
              THEN response[r].transforms = <<>>
              ELSE LET e == response[r].encoding IN
                   /\ response[r].transforms = IF e = Identity THEN <<>> ELSE <<e>>
                   /\ e # Identity => e \in client[r].accepts /\ ~response[r].length
                   /\ Encoders(r) # {} /\ client[r].accepts # {} => e # Identity

-----------------------------------------------------------------------------
(* Why they hold: what is true of one request, wherever it is.             *)

\* How many hooks of every middleware came before the chain.
Row == [new |-> 0, global |-> 0, own |-> 0, preProxy |-> 1, awaiting |-> 1,
        postProxy |-> 2, post |-> 3, ended |-> 3]

\* It was not answered by a middleware, nor given up.
Underway(r) == stage[r] = "ended" => reply[r] = "upstream"

InTurn(r) ==
    LET n == Cardinality(Members(r)) IN
    /\ IsPrefix(ran[r], Schedule(n))
    /\ Underway(r) => /\ at[r] <= n + 1
                      /\ Len(ran[r]) = Row[stage[r]] * n + at[r] - 1
                      /\ stage[r] \in {"awaiting", "ended"} => at[r] = n + 1
    /\ stage[r] = "new" => chain[r] = <<>>
    /\ stage[r] = "global" => Members(r) = DOMAIN chain[r]

Begins == {"new", "global", "own"}

Spared(r) ==
    /\ stage[r] \in Begins => sent[r] = {} /\ \A i \in 1..(at[r] - 1) :
         /\ Status(chain[r][i], client[r]) = "none"
         /\ chain[r][i].type = "CorrelationId" => client[r].correlated
    /\ stage[r] \notin Begins /\ Underway(r) => Interceptors(r) = {}
    /\ ~Underway(r) => \/ Interceptors(r) = {}
                       \/ /\ reply[r] = Status(chain[r][Min(Interceptors(r))], client[r])
                          /\ sent[r] = {}
    /\ \A i \in Members(r) :
         /\ chain[r][i].type = "CorrelationId" =>
              ("request" \in sent[r] \/ stage[r] = "preProxy" => "correlation" \in sent[r])
         /\ chain[r][i].type = "ForwardHeaders" =>
              ("request" \in sent[r] \/ (stage[r] = "preProxy" /\ i < at[r])
                 => "forwarded" \in sent[r])
    /\ stage[r] = "preProxy" => "request" \notin sent[r]

\* The encoding its encoders apply.
Applied(r) == IF response[r].upstream = Identity THEN Chosen(client[r].accepts) ELSE Identity

\* The encoders whose hook of the chain c was called.
Called(r, c) ==
    {i \in Encoders(r) : Row[stage[r]] > Row[c] \/ (Row[stage[r]] = Row[c] /\ i < at[r])}

Announced(r) ==
    /\ \A i \in Called(r, "global") : accepts[<<r, i>>] = client[r].accepts
    /\ \A i \in Positions : transformer[<<r, i>>] =
         IF i \in Called(r, "postProxy") THEN Applied(r) ELSE Identity
    /\ response[r].encoding =
         IF Called(r, "postProxy") # {} /\ Applied(r) # Identity
           THEN Applied(r) ELSE response[r].upstream
    /\ Row[stage[r]] < 2 => response[r].upstream = Identity
    /\ Called(r, "post") = {} => response[r].transforms = <<>> /\ response[r].length
    /\ Cardinality(Encoders(r)) <= 1 =>
         /\ response[r].transforms = IF Called(r, "post") = {} \/ Applied(r) = Identity
                                       THEN <<>> ELSE <<Applied(r)>>
         /\ response[r].length <=> response[r].transforms = <<>>

Sound(r) == InTurn(r) /\ Spared(r) /\ (Underway(r) => Announced(r))

\* The inductive invariant.
IInv == TypeOK /\ \A r \in Requests : Sound(r)
=============================================================================
