---------------------------- MODULE ProxyRequest ----------------------------
(***************************************************************************)
(* One request on its way through the proxy, from baseHandler to the last  *)
(* event of its upstream leg.  Node runs each handler to its end, so each  *)
(* action is one macrotask with the promise continuations it settles; what *)
(* interleaves are the events of four parties: the proxy itself, the       *)
(* client, the upstream host and the idle timer of the upstream socket.    *)
(*                                                                         *)
(* The middlewares call next() synchronously or end the response, so a     *)
(* whole chain is part of the handler that starts it.                      *)
(***************************************************************************)
CONSTANTS
    Confs           \* the kinds of request considered

\* What decides the course of a request before anything is awaited:
\*   host         the Host header: missing or repeated, of no gateway, of one;
\*   interceptor  where a maintenance, redirect or spam-filter middleware ends
\*                the response: nowhere, among the global ones, in the gateway;
\*   gatewayMiddleware  the gateway has middlewares of its own;
\*   collector    a stats collector is among the middlewares;
\*   upstream     resolveUpstream gives a host, gives none, or throws;
\*   clientProtocol, upstreamProtocol   "http2" is a native stream, "http1"
\*                includes the server's HTTP/1 compatible mode.
AllConfs ==
    {c \in [host : {"invalid", "unknown", "known"},
            interceptor : {"none", "global", "gateway"},
            gatewayMiddleware : BOOLEAN,
            collector : BOOLEAN,
            upstream : {"found", "notFound", "throws"},
            clientProtocol : {"http1", "http2"},
            upstreamProtocol : {"http1", "http2"}] :
       c.interceptor = "gateway" => c.gatewayMiddleware}

ASSUME ConfsAssumption == Confs \subseteq AllConfs

VARIABLES
    conf,       \* the kind of this request
    handled,    \* baseHandler has run
    client,     \* the client's connection: "present" or "gone"
    uploading,  \* the request body has not ended
    reply,      \* the status the response was committed to
    body,       \* the response body: "none", "flowing", "complete", "broken"
    leg,        \* the upstream request
    stat        \* the status the stats collector reported

vars == <<conf, handled, client, uploading, reply, body, leg, stat>>

None == "none"
Upstream == "upstream"          \* whatever status the upstream answered with
Intercepted == "intercepted"    \* the status of the intercepting middleware
Status == {"200", "400", "408", "500", "503", Upstream, Intercepted}

\* The upstream leg: "connecting" awaits the HTTP/2 session; an "unread" leg
\* has answered, and nothing will ever read its body; a "destroying" one was
\* destroyed by the timeout handler and its 'error' event is still to come; an
\* "ended" one was read to the end of its body, a "closed" one was not.
Legs == {"none", "connecting", "sent", "streaming", "unread", "destroying",
         "ended", "closed"}

Over == {"ended", "closed"}

TypeOK ==
    /\ conf \in Confs
    /\ handled \in BOOLEAN
    /\ client \in {"present", "gone"}
    /\ uploading \in BOOLEAN
    /\ reply \in Status \cup {None}
    /\ body \in {"none", "flowing", "complete", "broken"}
    /\ leg \in Legs
    /\ stat \in {None, Upstream}

-----------------------------------------------------------------------------
Init ==
    /\ conf \in Confs
    /\ handled = FALSE
    /\ client = "present"
    /\ uploading \in BOOLEAN
    /\ reply = None
    /\ body = "none"
    /\ leg = "none"
    /\ stat = None

\* When Node throws out of writeHead and respond: the headers are sent, or the
\* stream of a native HTTP/2 client is closed.  (In compatible mode writeHead on
\* a closed stream does nothing, which comes to the same.)
Throws(receiver) == reply # None \/ (receiver = "gone" /\ conf.clientProtocol = "http2")

\* Mutant of EndWithStatus: when the headers are sent it ends the response all
\* the same, whatever there is of its body.
EndWithStatusEnds(s, receiver) ==
    /\ reply' = IF reply = None THEN s ELSE reply
    /\ body' = IF receiver = "gone" \/ body = "broken" THEN "broken" ELSE "complete"

\* endWithStatus: the headers, then the end, which an exception leaves out.  The
\* process only logs the exception.
EndWithStatus(s, receiver) ==
    IF Throws(receiver)
      THEN UNCHANGED <<reply, body>>
      ELSE reply' = s /\ body' = IF receiver = "gone" THEN "broken" ELSE "complete"

\* The upstream request goes out: at once over HTTP/1, over HTTP/2 after
\* getOrCreateConnection.
SendUpstream ==
    /\ leg' = IF conf.upstreamProtocol = "http2" THEN "connecting" ELSE "sent"
    /\ UNCHANGED <<reply, body>>

\* No upstream host: an exception thrown in the last stage of the chain.  With
\* no middleware in the gateway it reaches the catch of gatewayRequest; else
\* the try around the last middleware swallows it, and nobody answers.
NoUpstream ==
    /\ IF conf.gatewayMiddleware THEN UNCHANGED <<reply, body>>
                                 ELSE EndWithStatus("500", client)
    /\ UNCHANGED leg

\* baseHandler: the global middlewares, resolveGateway, the gateway's own
\* middlewares, resolveUpstream.
Handle ==
    /\ ~handled
    /\ handled' = TRUE
    /\ \/ /\ conf.interceptor = "global"
          /\ EndWithStatus(Intercepted, client) /\ UNCHANGED leg
       \/ /\ conf.interceptor # "global" /\ conf.host = "invalid"
          /\ EndWithStatus("400", client) /\ UNCHANGED leg
       \/ /\ conf.interceptor # "global" /\ conf.host = "unknown"
          /\ EndWithStatus("200", client) /\ UNCHANGED leg
       \/ /\ conf.interceptor = "gateway" /\ conf.host = "known"
          /\ EndWithStatus(Intercepted, client) /\ UNCHANGED leg
       \/ /\ conf.interceptor = "none" /\ conf.host = "known"
          /\ IF conf.upstream = "found" THEN SendUpstream ELSE NoUpstream
    /\ UNCHANGED <<conf, client, uploading, stat>>

\* The HTTP/2 session connects, or was there already.
Connect ==
    /\ leg = "connecting"
    /\ leg' = "sent"
    /\ UNCHANGED <<conf, handled, client, uploading, reply, body, stat>>

\* The session fails, or request() on it throws: the catch of Gateway.request.
ConnectFails ==
    /\ leg = "connecting"
    /\ leg' = "closed"
    /\ EndWithStatus("503", client)
    /\ UNCHANGED <<conf, handled, client, uploading, stat>>

\* finally: the headers, then the pipeline, which destroys the upstream's stream
\* when the client is not there.  An exception comes before the pipeline, and a
\* status without a body (skipPipeline) has none: the stream stays unread.
Finally(hasBody) ==
    IF Throws(client)
      THEN leg' = "unread" /\ UNCHANGED <<reply, body>>
      ELSE /\ reply' = Upstream
           /\ body' = IF client = "gone" THEN "broken"
                      ELSE IF hasBody THEN "flowing" ELSE "complete"
           /\ leg' = IF ~hasBody THEN "unread"
                     ELSE IF client = "gone" THEN "closed" ELSE "streaming"

\* Mutant of UpstreamResponds: the collector reports after send, and what the
\* client was sent.
UpstreamRespondsReportsReply(hasBody) ==
    /\ leg = "sent"
    /\ Finally(hasBody)
    /\ stat' = IF conf.collector THEN reply' ELSE stat
    /\ UNCHANGED <<conf, handled, client, uploading>>

\* The upstream's headers arrive: postProxy, post, send.  The collector reports
\* before send.
UpstreamResponds(hasBody) ==
    /\ leg = "sent"
    /\ stat' = IF conf.collector THEN Upstream ELSE stat
    /\ Finally(hasBody)
    /\ UNCHANGED <<conf, handled, client, uploading>>

\* The end of the upstream's body; a reset of an HTTP/2 stream with NO_ERROR
\* ends it like any other.
UpstreamBodyEnds ==
    /\ leg = "streaming"
    /\ leg' = "ended"
    /\ body' = IF body = "flowing" THEN "complete" ELSE body
    /\ UNCHANGED <<conf, handled, client, uploading, reply, stat>>

\* The pipeline learns that its source is lost, and destroys the response.
Cut ==
    /\ body' = IF body = "flowing" THEN "broken" ELSE body
    /\ UNCHANGED reply

\* The 'error' event of the upstream request, whose handler ends the response
\* with s whatever was sent.  While the body flows the handler throws, and Node
\* may then not emit the 'close' the pipeline waits for; or the connection just
\* closes, which only the pipeline is told.
UpstreamErrs(s) ==
    \/ EndWithStatus(s, client)
    \/ body = "flowing" /\ Cut

\* The connection to the upstream breaks.
UpstreamFails ==
    /\ leg \in {"sent", "streaming", "unread"}
    /\ leg' = "closed"
    /\ UpstreamErrs("503")
    /\ UNCHANGED <<conf, handled, client, uploading, stat>>

\* An HTTP/2 upstream resets the stream with CANCEL, or with NO_ERROR before it
\* is read: no 'error' event.
UpstreamCancels ==
    /\ conf.upstreamProtocol = "http2"
    /\ leg \in {"sent", "streaming", "unread"}
    /\ leg' = "closed"
    /\ Cut
    /\ UNCHANGED <<conf, handled, client, uploading, stat>>

\* Only an HTTP/1 upstream request gets the gateway's requestTimeout, and not
\* the one Http2Request.proxyOptionsFor builds for a native HTTP/2 client.
Timed(c) == c.upstreamProtocol = "http1" /\ c.clientProtocol # "http2"

\* Mutant of UpstreamTimeout: the handler answers 408 and destroys nothing.
UpstreamTimeoutAnswers ==
    /\ Timed(conf)
    /\ leg \in {"sent", "streaming", "unread"}
    /\ EndWithStatus("408", client)
    /\ UNCHANGED <<conf, handled, client, uploading, leg, stat>>

\* Mutant of UpstreamTimeout: the timer is dropped once the upstream answered.
UpstreamTimeoutBeforeAnswer ==
    /\ Timed(conf)
    /\ leg = "sent"
    /\ leg' = "destroying"
    /\ UNCHANGED <<conf, handled, client, uploading, reply, body, stat>>

\* The upstream socket was idle for requestTimeout, before or after the answer.
UpstreamTimeout ==
    /\ Timed(conf)
    /\ leg \in {"sent", "streaming", "unread"}
    /\ leg' = "destroying"
    /\ UNCHANGED <<conf, handled, client, uploading, reply, body, stat>>

\* Mutant of UpstreamDestroyed: the error of a destroyed request is ignored.
UpstreamDestroyedQuietly ==
    /\ leg = "destroying"
    /\ leg' = "closed"
    /\ Cut
    /\ UNCHANGED <<conf, handled, client, uploading, stat>>

\* The 'error' event of the destroyed request, carrying the timeout exception.
UpstreamDestroyed ==
    /\ leg = "destroying"
    /\ leg' = "closed"
    /\ UpstreamErrs("408")
    /\ UNCHANGED <<conf, handled, client, uploading, stat>>

UploadEnds ==
    /\ uploading /\ client = "present"
    /\ uploading' = FALSE
    /\ UNCHANGED <<conf, handled, client, reply, body, leg, stat>>

\* The client's connection closes while its response is pending or flowing, and
\* the pipeline, when there is one, destroys the upstream's stream.  The request
\* stream emits 'error' while the upload is incomplete, a native HTTP/2 stream at
\* any time; its handler (503) exists once the upstream request was issued.  On a
\* native stream, the one the pipeline writes to, the handler throws, so that the
\* pipeline may not be told.  Leaving an HTTP/2 stream with CANCEL, or an
\* ABORT_ERR, runs no handler at all.
ClientLeaves(emitsError) ==
    /\ client = "present" /\ body \in {"none", "flowing"}
    /\ client' = "gone"
    /\ uploading' = FALSE
    /\ emitsError => leg # "none" /\ (uploading \/ conf.clientProtocol = "http2")
    /\ IF emitsError /\ body = "none"
         THEN EndWithStatus("503", "gone")
         ELSE Cut
    /\ \/ leg' = IF leg = "streaming" THEN "closed" ELSE leg
       \/ emitsError /\ conf.clientProtocol = "http2" /\ UNCHANGED leg
    /\ UNCHANGED <<conf, handled, stat>>

Next ==
    \/ Handle
    \/ Connect \/ ConnectFails
    \/ \E hasBody \in BOOLEAN : UpstreamResponds(hasBody)
    \/ UpstreamBodyEnds \/ UpstreamFails \/ UpstreamCancels
    \/ UpstreamTimeout \/ UpstreamDestroyed
    \/ UploadEnds
    \/ \E emitsError \in BOOLEAN : ClientLeaves(emitsError)

Safety == Init /\ [][Next]_vars

\* The event loop runs what is due: the handler, the outcome of a connection
\* attempt, the event of a destroyed request, and the idle timer of the upstream
\* socket, unless bytes of an upload or of a body that is read may reset it.
\* Nothing is asked of the client or of the upstream.
Spec ==
    /\ Safety
    /\ WF_vars(Handle)
    /\ WF_vars(Connect \/ ConnectFails)
    /\ WF_vars(~uploading /\ leg # "streaming" /\ UpstreamTimeout)
    /\ WF_vars(UpstreamDestroyed)

-----------------------------------------------------------------------------
\* What the collector reports is what the client was sent, unless the client
\* has left: a late answer of the upstream is never counted for a client that
\* was told something else.
StatMatchesReply == stat # None /\ stat # reply => client = "gone"

\* The status of a failure (408, 503, 500) goes to a present client only when
\* the upstream leg is over, so no answer can still come for it.
FailureIsFinal ==
    reply \in {"408", "500", "503"} /\ client = "present" => leg \in {"none", "closed"}

\* "The handler function is responsible for processing the request and
\* generating the appropriate response" (proxy.ts): a client that stays gets one.
EveryRequestAnswered == <>(reply # None \/ client = "gone")

\* Requests the code answers whatever happens: the upstream request, if any,
\* has a timeout, and no exception meets a middleware of the gateway.
Bounded == Timed(conf) /\ (conf.gatewayMiddleware => conf.upstream = "found")

\* A client that stays gets an answer to a bounded request whose upload is over,
\* though the upstream stays silent, its connection breaks, or it is destroyed by
\* the timeout.
BoundedRequestsAnswered == Bounded /\ ~uploading ~> reply # None \/ client = "gone"

\* An upstream request with a timeout does not outlive the exchange for ever,
\* whoever answered first and whether or not the body is read: once the upload is
\* over, it comes to its end or its body is flowing.
UpstreamReleased ==
    Timed(conf) /\ ~uploading /\ leg # "none" ~> leg \in Over \cup {"streaming"}

\* How the reply, the body, the leg and the client fit together: the inductive
\* invariant behind the properties above.
Coherence ==
    /\ ~handled => reply = None /\ leg = "none" /\ stat = None
    /\ body = "none" <=> reply = None
    /\ body = "flowing" => /\ reply = Upstream /\ client = "present"
                           /\ leg \in {"streaming", "destroying", "closed"}
    /\ leg = "streaming" => body = "flowing" \/ client = "gone"
    /\ client = "gone" => body \in {"none", "broken"}
    /\ leg \in {"connecting", "sent"} => stat = None /\ (reply = None \/ client = "gone")
    /\ leg = "unread" => reply = Upstream \/ client = "gone"
    /\ leg = "destroying" => reply \in {None, Upstream} \/ client = "gone"
    /\ stat # None => reply # None \/ client = "gone"

IInv == TypeOK /\ Coherence /\ StatMatchesReply /\ FailureIsFinal

\* A request implements the promise of Exchange: it fails when its upstream is
\* lost and not before, and what it relays is whole only if the upstream's was.
Phase ==
    CASE client = "gone" -> "gone"
      [] client = "present" /\ reply = None -> "open"
      [] client = "present" /\ reply # None /\ body = "flowing" -> "answered"
      [] OTHER -> body

Source ==
    CASE leg \in {"none", "connecting"} -> leg
      [] leg \in {"sent", "streaming", "unread", "destroying"} -> "pending"
      [] leg = "ended" -> "whole"
      [] leg = "closed" -> "lost"

Promise == INSTANCE Exchange
    WITH Refusals <- {"200", "400", "500", Intercepted},
         Failures <- {"408", "503"},
         Relayed <- Upstream,
         phase <- Phase,
         status <- IF client = "gone" THEN None ELSE reply,
         source <- Source,
         quiet <- conf.upstreamProtocol = "http2"

KeepsPromise == Promise!Safety
=============================================================================
