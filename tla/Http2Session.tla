---------------------------- MODULE Http2Session ----------------------------
(***************************************************************************)
(* The HTTP/2 session of an UpstreamHost: getOrCreateConnection and clean, *)
(* with the requests that use the session and the ProxyService.stop that   *)
(* cleans it.  A session is Node's ClientHttp2Session; what it does is     *)
(* external to the proxy.  Its 'error' event comes some time after it is   *)
(* destroyed, when its socket has closed.                                  *)
(***************************************************************************)
EXTENDS Integers, FiniteSets

CONSTANTS
    Requests,       \* requests to the host
    MaxSessions,    \* bound on the sessions that are created
    Holders         \* how many gateways hold the host (a wildcard and its clones)

ASSUME SessionAssumption == MaxSessions \in Nat /\ Holders \in Nat \ {0}

Sessions == 1..MaxSessions
None == 0
Never == -1         \* a callback that nothing will call

VARIABLES
    connection,     \* _connection
    session,        \* "new", "connecting", "open", "closing", "failed",
                    \* "destroyed"; a failed one owes its 'error' event
    request,        \* "new", "waiting", "streaming", "done", "failed"
    on,             \* the session a request waits for or streams on
    stop,           \* ProxyService.stop: "no", "cleaning", "closing"
    cleaned,        \* the calls of clean() that settled
    awaits,         \* the session whose 'close' the pending clean() awaits
    forgotten       \* history: sessions lost to the error of another one

vars == <<connection, session, request, on, stop, cleaned, awaits, forgotten>>

TypeOK ==
    /\ connection \in {None} \cup Sessions
    /\ session \in [Sessions -> {"new", "connecting", "open", "closing", "failed", "destroyed"}]
    /\ request \in [Requests -> {"new", "waiting", "streaming", "done", "failed"}]
    /\ on \in [Requests -> {None} \cup Sessions]
    /\ stop \in {"no", "cleaning", "closing"}
    /\ cleaned \in 0..Holders
    /\ awaits \in {None, Never} \cup Sessions
    /\ forgotten \subseteq Sessions

Init ==
    /\ connection = None
    /\ session = [s \in Sessions |-> "new"]
    /\ request = [r \in Requests |-> "new"]
    /\ on = [r \in Requests |-> None]
    /\ stop = "no"
    /\ cleaned = 0
    /\ awaits = None
    /\ forgotten = {}

-----------------------------------------------------------------------------
\* session.destroyed; session.closed holds of these and of closing sessions.
Destroyed(s) == session[s] \in {"failed", "destroyed"}
Live(s) == session[s] \in {"connecting", "open", "closing"}

HasConnection == connection # None /\ ~Destroyed(connection)

On(s, at) == {r \in Requests : on[r] = s /\ request[r] = at}

Turn(rs, to) == request' = [r \in Requests |-> IF r \in rs THEN to ELSE request[r]]

\* The 'close' event of a session calls back the clean() that awaits it.
CloseEvent(s) ==
    IF awaits = s THEN awaits' = None /\ cleaned' = cleaned + 1
                  ELSE UNCHANGED <<awaits, cleaned>>

\* Mutant of CreatesSession: a session that is being made is not shared.
CreatesSessionAlways(r) ==
    /\ request[r] = "new"
    /\ ~(connection # None /\ session[connection] = "open")
    /\ \E s \in Sessions :
         /\ session[s] = "new" /\ \A t \in Sessions : t < s => session[t] # "new"
         /\ session' = [session EXCEPT ![s] = "connecting"]
         /\ connection' = s
         /\ on' = [on EXCEPT ![r] = s]
    /\ Turn({r}, "waiting")
    /\ UNCHANGED <<stop, cleaned, awaits, forgotten>>

\* getOrCreateConnection without a session, or with a destroyed one.
CreatesSession(r) ==
    /\ request[r] = "new"
    /\ ~HasConnection
    /\ \E s \in Sessions :
         /\ session[s] = "new" /\ \A t \in Sessions : t < s => session[t] # "new"
         /\ session' = [session EXCEPT ![s] = "connecting"]
         /\ connection' = s
         /\ on' = [on EXCEPT ![r] = s]
    /\ Turn({r}, "waiting")
    /\ UNCHANGED <<stop, cleaned, awaits, forgotten>>

\* With a session: request() on a closing one throws, on one that is still
\* connecting the stream is queued.
UsesSession(r) ==
    /\ request[r] = "new"
    /\ HasConnection
    /\ on' = [on EXCEPT ![r] = connection]
    /\ Turn({r}, IF session[connection] = "closing" THEN "failed" ELSE "streaming")
    /\ UNCHANGED <<connection, session, stop, cleaned, awaits, forgotten>>

\* The listener of http2.connect resolves the promise.
Connects(s) ==
    /\ session[s] = "connecting"
    /\ session' = [session EXCEPT ![s] = "open"]
    /\ Turn(On(s, "waiting"), "streaming")
    /\ UNCHANGED <<connection, on, stop, cleaned, awaits, forgotten>>

\* The host refuses, or the connection breaks: the session is destroyed, and
\* its streams with it.
SessionBreaks(s) ==
    /\ Live(s)
    /\ session' = [session EXCEPT ![s] = "failed"]
    /\ Turn(On(s, "streaming"), "failed")
    /\ UNCHANGED <<connection, on, stop, cleaned, awaits, forgotten>>

\* _connection is cleared on an error of s, whichever session it holds.
Forget(s) ==
    /\ connection' = None
    /\ forgotten' = IF HasConnection /\ connection # s THEN forgotten \cup {connection}
                                                     ELSE forgotten

\* Mutant of ErrorEvent: the promise is left pending.
ErrorEventOnlyLogs(s) ==
    /\ session[s] = "failed"
    /\ session' = [session EXCEPT ![s] = "destroyed"]
    /\ Forget(s)
    /\ CloseEvent(s)
    /\ UNCHANGED <<request, on, stop>>

\* The 'error' handler forgets the connection, whichever it is by now, and
\* rejects the promise; 'close' follows.
ErrorEvent(s) ==
    /\ session[s] = "failed"
    /\ session' = [session EXCEPT ![s] = "destroyed"]
    /\ Forget(s)
    /\ Turn(On(s, "waiting"), "failed")
    /\ CloseEvent(s)
    /\ UNCHANGED <<on, stop>>

\* The host says it is going away: the session closes when its streams end.
GoAway(s) ==
    /\ session[s] = "open"
    /\ session' = [session EXCEPT ![s] = "closing"]
    /\ UNCHANGED <<connection, request, on, stop, cleaned, awaits, forgotten>>

\* A closing session ends with its last stream; who waits for it to connect
\* gets it destroyed, and request() throws.  _connection stays.
SessionEnds(s) ==
    /\ session[s] = "closing" /\ On(s, "streaming") = {}
    /\ session' = [session EXCEPT ![s] = "destroyed"]
    /\ Turn(On(s, "waiting"), "failed")
    /\ CloseEvent(s)
    /\ UNCHANGED <<connection, on, stop, forgotten>>

\* The socket connects only after clean() closed the session: request() throws.
ConnectsTooLate(s) ==
    /\ session[s] = "closing" /\ On(s, "waiting") # {}
    /\ Turn(On(s, "waiting"), "failed")
    /\ UNCHANGED <<connection, session, on, stop, cleaned, awaits, forgotten>>

\* The host's end of the socket closes without an error: no 'error' event, and
\* _connection stays.
HostCloses(s) ==
    /\ session[s] \in {"open", "closing"} /\ On(s, "waiting") = {}
    /\ session' = [session EXCEPT ![s] = "destroyed"]
    /\ Turn(On(s, "streaming"), "failed")
    /\ CloseEvent(s)
    /\ UNCHANGED <<connection, on, stop, forgotten>>

StreamEnds(r) ==
    /\ request[r] = "streaming" /\ session[on[r]] # "connecting"
    /\ Turn({r}, "done")
    /\ UNCHANGED <<connection, session, on, stop, cleaned, awaits, forgotten>>

-----------------------------------------------------------------------------
Stops ==
    /\ stop = "no"
    /\ stop' = "cleaning"
    /\ UNCHANGED <<connection, session, request, on, cleaned, awaits, forgotten>>

\* Mutant of Cleans: close() is not given the callback.
CleansForgetsCallback ==
    /\ stop = "cleaning" /\ awaits = None /\ cleaned < Holders
    /\ \/ /\ connection = None
          /\ cleaned' = cleaned + 1
          /\ UNCHANGED <<awaits, session>>
       \/ /\ connection # None /\ session[connection] \in {"connecting", "open"}
          /\ awaits' = Never
          /\ session' = [session EXCEPT ![connection] = "closing"]
          /\ UNCHANGED cleaned
       \/ /\ connection # None /\ session[connection] \notin {"connecting", "open"}
          /\ awaits' = Never
          /\ UNCHANGED <<session, cleaned>>
    /\ UNCHANGED <<connection, request, on, stop, forgotten>>

\* Mutant of Cleans: one call too many.
CleansOnceMore ==
    /\ stop = "cleaning" /\ awaits = None /\ cleaned <= Holders
    /\ \/ /\ connection = None
          /\ cleaned' = cleaned + 1
          /\ UNCHANGED <<awaits, session>>
       \/ /\ connection # None /\ session[connection] \in {"connecting", "open"}
          /\ awaits' = connection
          /\ session' = [session EXCEPT ![connection] = "closing"]
          /\ UNCHANGED cleaned
    /\ UNCHANGED <<connection, request, on, stop, forgotten>>

\* clean() of the next gateway that holds the host: close() of a session that
\* is closed already returns without a word, and never calls back.
Cleans ==
    /\ stop = "cleaning" /\ awaits = None /\ cleaned < Holders
    /\ \/ /\ connection = None
          /\ cleaned' = cleaned + 1
          /\ UNCHANGED <<awaits, session>>
       \/ /\ connection # None /\ session[connection] \in {"connecting", "open"}
          /\ awaits' = connection
          /\ session' = [session EXCEPT ![connection] = "closing"]
          /\ UNCHANGED cleaned
       \/ /\ connection # None /\ session[connection] \notin {"connecting", "open"}
          /\ awaits' = Never
          /\ UNCHANGED <<session, cleaned>>
    /\ UNCHANGED <<connection, request, on, stop, forgotten>>

\* All gateways are clean: stop() goes on to close the proxies.
ClosesProxies ==
    /\ stop = "cleaning" /\ cleaned = Holders
    /\ stop' = "closing"
    /\ UNCHANGED <<connection, session, request, on, cleaned, awaits, forgotten>>

\* The rest of stop() up to its next await is part of the handler it runs in,
\* so nothing comes before it.
Stopping == Cleans \/ ClosesProxies
Awaiting == stop = "cleaning" => awaits # None

SessionMoves(s) ==
    Connects(s) \/ ConnectsTooLate(s) \/ SessionBreaks(s) \/ ErrorEvent(s) \/ SessionEnds(s)

\* A connection attempt has an outcome.
AttemptEnds(s) ==
    \/ Connects(s) \/ ConnectsTooLate(s)
    \/ session[s] = "connecting" /\ SessionBreaks(s)

Next ==
    \/ Stopping
    \/ /\ Awaiting
       /\ \/ \E r \in Requests : CreatesSession(r) \/ UsesSession(r) \/ StreamEnds(r)
          \/ \E s \in Sessions : SessionMoves(s) \/ GoAway(s) \/ HostCloses(s)
          \/ Stops

\* A connection attempt ends, a destroyed socket closes, a closing
\* session without streams ends; stop() goes on when it can.  Upstreams need
\* not end a stream, nor clients come.
Spec ==
    /\ Init /\ [][Next]_vars
    /\ WF_vars(Stopping)
    /\ \A s \in Sessions :
         /\ WF_vars(Awaiting /\ AttemptEnds(s))
         /\ WF_vars(Awaiting /\ ErrorEvent(s))
         /\ WF_vars(Awaiting /\ SessionEnds(s))

-----------------------------------------------------------------------------
\* A request streams on a session that is not destroyed, waits for one that
\* will call it back, and a clean() that waits for 'close' will have it: no
\* handler of an old session settles what belongs to a new one.
CallbacksAreOwed ==
    /\ \A r \in Requests :
         /\ request[r] = "streaming" => Live(on[r])
         /\ request[r] = "waiting" => session[on[r]] \in {"connecting", "closing", "failed"}
    /\ awaits \in Sessions => session[awaits] \in {"closing", "failed"}

\* The requests share one session: a session that is not over is the current
\* one, unless the late error of an older session made the host forget it.
OneSession == \A s \in Sessions \ forgotten : Live(s) => s = connection

\* Sessions that are in use have been created, and a clean() that awaits one
\* is not yet counted.
Created ==
    /\ awaits # None => cleaned < Holders
    /\ connection # None => session[connection] # "new"
    /\ \A r \in Requests : request[r] \in {"waiting", "streaming"} => on[r] # None

IInv == TypeOK /\ Created /\ CallbacksAreOwed /\ OneSession

\* Whoever waits for a connection is told, one way or the other.
WaitersSettle ==
    \A r \in Requests : request[r] = "waiting" ~> request[r] # "waiting"

\* A clean() that finds a live session, or none, settles, as long as the upstream
\* ends its streams, and whatever befalls the session meanwhile.
StreamsEnd == \A r \in Requests : WF_vars(Awaiting /\ StreamEnds(r))
CleanSettles ==
    StreamsEnd =>
      \A n \in 0..(Holders - 1) :
        /\ stop = "cleaning" /\ awaits = None /\ cleaned = n
        /\ connection # None => session[connection] \in {"connecting", "open"}
        ~> cleaned = n + 1
=============================================================================
