------------------------- MODULE Http2SessionProofs -------------------------
(***************************************************************************)
(* The callbacks and the sharing of the HTTP/2 session, for any number of  *)
(* requests, sessions and gateways.  IInv adds to the two properties that  *)
(* what is in use was created, and is inductive: each action moves one     *)
(* session, and takes along the requests and the clean() that depend on it.*)
(***************************************************************************)
EXTENDS Http2Session, TLAPS

\* The numbers that stand for no session are none.
LEMMA NoneIsNoSession == None \notin Sessions /\ Never \notin Sessions /\ None # Never
BY SMT DEF None, Never, Sessions

\* The initial state has no session, and so satisfies IInv.
LEMMA InitEstablishes == Init => IInv
BY NoneIsNoSession, SessionAssumption, SMT
   DEF Init, IInv, TypeOK, Created, CallbacksAreOwed, OneSession, Live, None, Never

\* Actions on requests.
LEMMA RequestsPreserve ==
    ASSUME IInv, NEW r \in Requests, CreatesSession(r) \/ UsesSession(r) \/ StreamEnds(r)
    PROVE  IInv'
<1> USE NoneIsNoSession DEF Turn, Live, Destroyed, HasConnection
<1>1. CASE CreatesSession(r)
  <2>1. PICK s \in Sessions : /\ session[s] = "new"
                              /\ session' = [session EXCEPT ![s] = "connecting"]
                              /\ connection' = s
                              /\ on' = [on EXCEPT ![r] = s]
    BY <1>1 DEF CreatesSession
  <2>2. TypeOK'
    BY <1>1, <2>1 DEF CreatesSession, IInv, TypeOK
  <2>3. Created'
    BY <1>1, <2>1, <2>2 DEF CreatesSession, IInv, TypeOK, Created
  <2>4. CallbacksAreOwed'
    BY <1>1, <2>1, <2>2 DEF CreatesSession, IInv, TypeOK, Created, CallbacksAreOwed
  <2>5. OneSession'
    BY <1>1, <2>1, <2>2 DEF CreatesSession, IInv, TypeOK, OneSession
  <2> QED BY <2>2, <2>3, <2>4, <2>5 DEF IInv
<1>2. CASE UsesSession(r)
  <2>1. connection \in Sessions
    BY <1>2 DEF UsesSession, IInv, TypeOK
  <2>2. TypeOK' /\ Created'
    BY <1>2, <2>1 DEF UsesSession, IInv, TypeOK, Created
  <2>3. CallbacksAreOwed'
    BY <1>2, <2>1 DEF UsesSession, IInv, TypeOK, Created, CallbacksAreOwed
  <2>4. OneSession'
    BY <1>2 DEF UsesSession, IInv, OneSession
  <2> QED BY <2>2, <2>3, <2>4 DEF IInv
<1>3. CASE StreamEnds(r)
  BY <1>3 DEF StreamEnds, IInv, TypeOK, Created, CallbacksAreOwed, OneSession
<1> QED BY <1>1, <1>2, <1>3

\* Actions that leave connection and forgotten alone, and move one session.
LEMMA SessionsPreserve ==
    ASSUME IInv, NEW s \in Sessions,
           \/ Connects(s) \/ ConnectsTooLate(s) \/ SessionBreaks(s)
           \/ GoAway(s) \/ SessionEnds(s) \/ HostCloses(s)
    PROVE  IInv'
<1> USE NoneIsNoSession DEF Turn, On, Live, CloseEvent
<1>1. CASE Connects(s)
  BY <1>1 DEF Connects, IInv, TypeOK, Created, CallbacksAreOwed, OneSession
<1>2. CASE ConnectsTooLate(s)
  BY <1>2 DEF ConnectsTooLate, IInv, TypeOK, Created, CallbacksAreOwed, OneSession
<1>3. CASE SessionBreaks(s)
  <2>1. TypeOK' /\ Created'
    BY <1>3 DEF SessionBreaks, IInv, TypeOK, Created
  <2>2. ASSUME NEW q \in Requests, request'[q] = "streaming"
        PROVE  Live(on[q])'
    <3>1. request[q] = "streaming" /\ on[q] # s /\ on[q] \in Sessions
      BY <1>3, <2>2 DEF SessionBreaks, IInv, TypeOK, Created
    <3> QED BY <1>3, <3>1 DEF SessionBreaks, IInv, TypeOK, CallbacksAreOwed
  <2>3. ASSUME NEW q \in Requests, request'[q] = "waiting"
        PROVE  (session[on[q]] \in {"connecting", "closing", "failed"})'
    <3>1. request[q] = "waiting" /\ on[q] \in Sessions
      BY <1>3, <2>3 DEF SessionBreaks, IInv, TypeOK, Created
    <3> QED BY <1>3, <2>3, <3>1 DEF SessionBreaks, IInv, TypeOK, CallbacksAreOwed
  <2>4. awaits' \in Sessions => session[awaits]' \in {"closing", "failed"}
    BY <1>3 DEF SessionBreaks, IInv, TypeOK, CallbacksAreOwed
  <2>5. OneSession'
    BY <1>3 DEF SessionBreaks, IInv, TypeOK, OneSession
  <2>6. CallbacksAreOwed'
    BY <2>2, <2>3, <2>4 DEF CallbacksAreOwed
  <2> QED BY <2>1, <2>5, <2>6 DEF IInv
<1>4. CASE GoAway(s)
  BY <1>4 DEF GoAway, IInv, TypeOK, Created, CallbacksAreOwed, OneSession
<1>5. CASE SessionEnds(s)
  <2>0. cleaned' \in 0..Holders
    BY <1>5, SessionAssumption, SMT DEF SessionEnds, IInv, TypeOK, Created
  <2>1. TypeOK' /\ Created'
    BY <1>5, <2>0 DEF SessionEnds, IInv, TypeOK, Created
  <2>2. ASSUME NEW q \in Requests, request'[q] = "streaming"
        PROVE  Live(on[q])'
    <3>1. request[q] = "streaming" /\ on[q] # s /\ on[q] \in Sessions
      BY <1>5, <2>2 DEF SessionEnds, IInv, TypeOK, Created
    <3> QED BY <1>5, <3>1 DEF SessionEnds, IInv, TypeOK, CallbacksAreOwed
  <2>3. ASSUME NEW q \in Requests, request'[q] = "waiting"
        PROVE  (session[on[q]] \in {"connecting", "closing", "failed"})'
    <3>1. request[q] = "waiting" /\ on[q] \in Sessions
      BY <1>5, <2>3 DEF SessionEnds, IInv, TypeOK, Created
    <3> QED BY <1>5, <2>3, <3>1 DEF SessionEnds, IInv, TypeOK, CallbacksAreOwed
  <2>4. awaits' \in Sessions => session[awaits]' \in {"closing", "failed"}
    BY <1>5 DEF SessionEnds, IInv, TypeOK, CallbacksAreOwed
  <2>5. OneSession'
    BY <1>5 DEF SessionEnds, IInv, TypeOK, OneSession
  <2>6. CallbacksAreOwed'
    BY <2>2, <2>3, <2>4 DEF CallbacksAreOwed
  <2> QED BY <2>1, <2>5, <2>6 DEF IInv
<1>6. CASE HostCloses(s)
  <2>0. cleaned' \in 0..Holders
    BY <1>6, SessionAssumption, SMT DEF HostCloses, IInv, TypeOK, Created
  <2>1. TypeOK' /\ Created'
    BY <1>6, <2>0 DEF HostCloses, IInv, TypeOK, Created
  <2>2. ASSUME NEW q \in Requests, request'[q] = "streaming"
        PROVE  Live(on[q])'
    <3>1. request[q] = "streaming" /\ on[q] # s /\ on[q] \in Sessions
      BY <1>6, <2>2 DEF HostCloses, IInv, TypeOK, Created
    <3> QED BY <1>6, <3>1 DEF HostCloses, IInv, TypeOK, CallbacksAreOwed
  <2>3. ASSUME NEW q \in Requests, request'[q] = "waiting"
        PROVE  (session[on[q]] \in {"connecting", "closing", "failed"})'
    <3>1. request[q] = "waiting" /\ on[q] \in Sessions
      BY <1>6, <2>3 DEF HostCloses, IInv, TypeOK, Created
    <3> QED BY <1>6, <2>3, <3>1 DEF HostCloses, IInv, TypeOK, CallbacksAreOwed
  <2>4. awaits' \in Sessions => session[awaits]' \in {"closing", "failed"}
    BY <1>6 DEF HostCloses, IInv, TypeOK, CallbacksAreOwed
  <2>5. OneSession'
    BY <1>6 DEF HostCloses, IInv, TypeOK, OneSession
  <2>6. CallbacksAreOwed'
    BY <2>2, <2>3, <2>4 DEF CallbacksAreOwed
  <2> QED BY <2>1, <2>5, <2>6 DEF IInv
<1> QED BY <1>1, <1>2, <1>3, <1>4, <1>5, <1>6

\* The late error: a live session it makes the host forget is remembered.
LEMMA ErrorPreserves ==
    ASSUME IInv, NEW s \in Sessions, ErrorEvent(s)
    PROVE  IInv'
<1> USE NoneIsNoSession DEF ErrorEvent, Forget, Turn, On, Live, Destroyed, HasConnection, CloseEvent
<1>0. cleaned' \in 0..Holders
  BY SessionAssumption, SMT DEF IInv, TypeOK, Created
<1>1. TypeOK' /\ Created'
  BY <1>0 DEF IInv, TypeOK, Created
<1>2. CallbacksAreOwed'
  <2>1. ASSUME NEW q \in Requests, request'[q] = "streaming"
        PROVE  Live(on[q])'
    <3>1. request[q] = "streaming" /\ on[q] # s /\ on[q] \in Sessions
      BY <2>1 DEF IInv, TypeOK, Created, CallbacksAreOwed
    <3> QED BY <3>1 DEF IInv, TypeOK, CallbacksAreOwed
  <2>2. ASSUME NEW q \in Requests, request'[q] = "waiting"
        PROVE  (session[on[q]] \in {"connecting", "closing", "failed"})'
    <3>1. request[q] = "waiting" /\ on[q] # s /\ on[q] \in Sessions
      BY <2>2 DEF IInv, TypeOK, Created
    <3> QED BY <3>1 DEF IInv, TypeOK, CallbacksAreOwed
  <2>3. awaits' \in Sessions => session[awaits]' \in {"closing", "failed"}
    BY DEF IInv, TypeOK, CallbacksAreOwed
  <2> QED BY <2>1, <2>2, <2>3 DEF CallbacksAreOwed
<1>3. OneSession'
  <2> SUFFICES ASSUME NEW t \in Sessions \ forgotten', Live(t)'
               PROVE  FALSE
    BY DEF OneSession
  <2>1. t # s /\ Live(t)
    BY DEF IInv, TypeOK
  <2>2. t = connection
    BY <2>1 DEF IInv, OneSession
  <2> QED BY <2>1, <2>2
<1> QED BY <1>1, <1>2, <1>3 DEF IInv

\* stop() moves no request, and closes what it awaits.
LEMMA StopPreserves ==
    ASSUME IInv, Stops \/ Stopping
    PROVE  IInv'
<1> USE NoneIsNoSession DEF Live
<1>1. CASE Stops
  BY <1>1 DEF Stops, IInv, TypeOK, Created, CallbacksAreOwed, OneSession
<1>2. CASE ClosesProxies
  BY <1>2 DEF ClosesProxies, IInv, TypeOK, Created, CallbacksAreOwed, OneSession
<1>3. CASE Cleans
  <2>1. cleaned' \in 0..Holders
    BY <1>3, SessionAssumption, SMT DEF Cleans, IInv, TypeOK
  <2>2. TypeOK'
    BY <1>3, <2>1 DEF Cleans, IInv, TypeOK
  <2>3. Created' /\ CallbacksAreOwed' /\ OneSession'
    BY <1>3 DEF Cleans, IInv, TypeOK, Created, CallbacksAreOwed, OneSession
  <2> QED BY <2>2, <2>3 DEF IInv
<1> QED BY <1>1, <1>2, <1>3 DEF Stopping

\* Lemma: every step preserves the inductive invariant.
LEMMA NextPreserves == IInv /\ [Next]_vars => IInv'
<1> SUFFICES ASSUME IInv, [Next]_vars PROVE IInv'
  OBVIOUS
<1>1. CASE UNCHANGED vars
  BY <1>1 DEF vars, IInv, TypeOK, Created, CallbacksAreOwed, OneSession, Live
<1>2. CASE Next
  BY <1>2, RequestsPreserve, SessionsPreserve, ErrorPreserves, StopPreserves
     DEF Next, SessionMoves
<1> QED BY <1>1, <1>2

\* Whatever breaks, closes or stops, a request streams on a session that is not
\* destroyed, waits for one that will call it back, and a clean() that waits for
\* 'close' will have it.
THEOREM Callbacks == Spec => []CallbacksAreOwed
<1>1. IInv => CallbacksAreOwed
  BY DEF IInv
<1> QED BY <1>1, InitEstablishes, NextPreserves, PTL DEF Spec

\* The requests share one session, but for those a late error made the host
\* forget.
THEOREM Sharing == Spec => []OneSession
<1>1. IInv => OneSession
  BY DEF IInv
<1> QED BY <1>1, InitEstablishes, NextPreserves, PTL DEF Spec

\* The host knows one session or none, stop() never cleans a host more often than
\* gateways hold it, and only what may be under way is waited for.
THEOREM Types == Spec => []TypeOK
<1>1. IInv => TypeOK
  BY DEF IInv
<1> QED BY <1>1, InitEstablishes, NextPreserves, PTL DEF Spec
=============================================================================
