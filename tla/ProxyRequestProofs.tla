------------------------- MODULE ProxyRequestProofs -------------------------
(***************************************************************************)
(* The safety of one proxied request, for every set of kinds of request:   *)
(* the statistics match what the client was sent, a failure is reported    *)
(* only once no answer can come any more, and the exchange keeps the       *)
(* promise of module Exchange.                                             *)
(***************************************************************************)
EXTENDS ProxyRequest, TLAPS

\* Lemma: the initial states satisfy the inductive invariant.
LEMMA InitEstablishes == Init => IInv
  BY DEF Init, IInv, TypeOK, Coherence, StatMatchesReply, FailureIsFinal,
         None, Upstream, Legs, Status

\* Lemma: the handler itself preserves the invariant, whichever kind of request.
LEMMA HandlePreserves == IInv /\ Handle => IInv'
  <1> SUFFICES ASSUME IInv, Handle
               PROVE  IInv'
    OBVIOUS
  <1> USE DEF IInv, TypeOK, Coherence, StatMatchesReply, FailureIsFinal,
              None, Upstream, Intercepted, Legs, Status
  <1>1. /\ reply = None /\ body = "none" /\ leg = "none" /\ stat = None
        /\ UNCHANGED <<conf, client, uploading, stat>> /\ handled' = TRUE
    BY DEF Handle
  <1>2. CASE \E s \in Status : EndWithStatus(s, client) /\ UNCHANGED leg
    BY <1>1, <1>2 DEF EndWithStatus, Throws
  <1>3. CASE SendUpstream
    BY <1>1, <1>3 DEF SendUpstream
  <1>4. CASE UNCHANGED <<reply, body>> /\ UNCHANGED leg
    BY <1>1, <1>4
  <1>5. CASE NoUpstream
    <2>1. \/ UNCHANGED <<reply, body>> /\ UNCHANGED leg
          \/ EndWithStatus("500", client) /\ UNCHANGED leg
      BY <1>5 DEF NoUpstream
    <2> QED
      BY <1>2, <1>4, <2>1
  <1> QED
    BY <1>2, <1>3, <1>5 DEF Handle

\* Lemma: the events of the upstream leg preserve the invariant.
LEMMA LegPreserves ==
    ASSUME IInv,
           \/ Connect \/ ConnectFails \/ UpstreamBodyEnds \/ UpstreamFails
           \/ UpstreamCancels \/ UpstreamTimeout \/ UpstreamDestroyed
    PROVE  IInv'
  <1> USE DEF IInv, TypeOK, Coherence, StatMatchesReply, FailureIsFinal,
              None, Upstream, Intercepted, Legs, Status
  <1>1. CASE Connect
    BY <1>1 DEF Connect
  <1>2. CASE ConnectFails
    BY <1>2 DEF ConnectFails, EndWithStatus, Throws
  <1>3. CASE UpstreamBodyEnds
    BY <1>3 DEF UpstreamBodyEnds
  <1>4. CASE UpstreamFails
    BY <1>4 DEF UpstreamFails, UpstreamErrs, EndWithStatus, Throws, Cut
  <1>5. CASE UpstreamCancels
    BY <1>5 DEF UpstreamCancels, Cut
  <1>6. CASE UpstreamTimeout
    BY <1>6 DEF UpstreamTimeout
  <1>7. CASE UpstreamDestroyed
    BY <1>7 DEF UpstreamDestroyed, UpstreamErrs, EndWithStatus, Throws, Cut
  <1> QED
    BY <1>1, <1>2, <1>3, <1>4, <1>5, <1>6, <1>7

\* Lemma: every step preserves the invariant.
LEMMA NextPreserves == IInv /\ [Next]_vars => IInv'
  <1> SUFFICES ASSUME IInv, [Next]_vars
               PROVE  IInv'
    OBVIOUS
  <1>1. ASSUME NEW hasBody \in BOOLEAN, UpstreamResponds(hasBody)
        PROVE  IInv'
    <2>1. stat' = Upstream \/ stat' = stat
      BY <1>1 DEF UpstreamResponds
    <2>2. /\ leg = "sent"
          /\ \/ /\ reply # None \/ client = "gone"
                /\ leg' = "unread" /\ UNCHANGED <<reply, body>>
             \/ /\ reply = None /\ reply' = Upstream
                /\ \/ client = "gone" /\ body' = "broken" /\ leg' \in {"unread", "closed"}
                   \/ client # "gone" /\ body' = "flowing" /\ leg' = "streaming"
                   \/ client # "gone" /\ body' = "complete" /\ leg' = "unread"
          /\ UNCHANGED <<conf, handled, client, uploading>>
      BY <1>1 DEF UpstreamResponds, Finally, Throws
    <2> QED
      BY <2>1, <2>2 DEF IInv, TypeOK, Coherence, StatMatchesReply,
         FailureIsFinal, None, Upstream, Legs, Status
  <1>2. CASE UploadEnds
    BY <1>2 DEF UploadEnds, IInv, TypeOK, Coherence, StatMatchesReply, FailureIsFinal
  <1>3. ASSUME NEW emitsError \in BOOLEAN, ClientLeaves(emitsError)
        PROVE  IInv'
    BY <1>3 DEF ClientLeaves, EndWithStatus, Throws, Cut, IInv, TypeOK, Coherence, StatMatchesReply,
       FailureIsFinal, None, Upstream, Legs, Status
  <1>4. CASE UNCHANGED vars
    BY <1>4 DEF vars, IInv, TypeOK, Coherence, StatMatchesReply, FailureIsFinal
  <1> QED
    BY <1>1, <1>2, <1>3, <1>4, HandlePreserves, LegPreserves DEF Next

\* Theorem: the types, StatMatchesReply and FailureIsFinal hold of every request.
THEOREM Invariance == Safety => [](TypeOK /\ StatMatchesReply /\ FailureIsFinal)
  <1>1. IInv => TypeOK /\ StatMatchesReply /\ FailureIsFinal
    BY DEF IInv
  <1> QED
    BY InitEstablishes, NextPreserves, <1>1, PTL DEF Safety

-----------------------------------------------------------------------------
\* Theorem: one request implements the safety part of the promise of Exchange:
\* it is refused only when nothing was asked of an upstream, a failure is reported
\* in the step that loses the upstream before its answer, and a relayed body is
\* complete only when it was read to its end.
THEOREM Refinement == Safety => KeepsPromise
  <1>1. Init => Promise!Init
    BY DEF Init, Promise!Init, Phase, Source
  <1>2. ASSUME IInv, [Next]_vars
        PROVE  [Promise!Next]_(Promise!vars)
    <2>1. IInv'
      BY <1>2, NextPreserves
    <2> USE DEF IInv, TypeOK, Coherence, Phase, Source, Promise!Next, Promise!vars,
                None, Upstream, Intercepted, Status, Legs
    <2>2. CASE Handle
      <3>1. /\ reply = None /\ body = "none" /\ leg = "none"
            /\ UNCHANGED <<conf, client>>
        BY <1>2, <2>2 DEF Handle
      <3>2. \/ UNCHANGED <<reply, body, leg>>
            \/ UNCHANGED <<reply, body>> /\ leg' \in {"connecting", "sent"}
            \/ /\ UNCHANGED leg
               /\ \E s \in {"200", "400", "500", Intercepted} : EndWithStatus(s, client)
        BY <2>2 DEF Handle, SendUpstream, NoUpstream
      <3> QED
        BY <1>2, <2>1, <3>1, <3>2
        DEF EndWithStatus, Throws, Promise!Ask, Promise!Refuse
    <2>3. CASE Connect \/ UpstreamTimeout \/ UploadEnds
      BY <1>2, <2>1, <2>3 DEF Connect, UpstreamTimeout, UploadEnds, Promise!Reach
    <2>4. CASE ConnectFails
      BY <1>2, <2>1, <2>4
      DEF ConnectFails, EndWithStatus, Throws, Promise!Fail, Promise!Settle
    <2>5. ASSUME NEW s \in {"408", "503"}, UpstreamErrs(s),
                 leg \in {"sent", "streaming", "unread", "destroying"},
                 leg' = "closed", UNCHANGED <<conf, client>>
          PROVE  [Promise!Next]_(Promise!vars)
      <3>1. CASE client = "present" /\ reply = None
        BY <1>2, <2>1, <2>5, <3>1
        DEF UpstreamErrs, EndWithStatus, Throws, Cut, Promise!Fail
      <3>2. CASE client = "present" /\ body = "flowing"
        BY <1>2, <2>1, <2>5, <3>2
        DEF UpstreamErrs, EndWithStatus, Throws, Cut, Promise!Break
      <3>3. CASE client = "gone" \/ body \in {"complete", "broken"}
        BY <1>2, <2>1, <2>5, <3>3
        DEF UpstreamErrs, EndWithStatus, Throws, Cut, Promise!Settle
      <3> QED
        BY <1>2, <3>1, <3>2, <3>3
    <2>6. CASE UpstreamFails
      BY <2>5, <2>6 DEF UpstreamFails
    <2>7. CASE UpstreamDestroyed
      BY <2>5, <2>7 DEF UpstreamDestroyed
    <2>8. CASE UpstreamCancels
      BY <1>2, <2>1, <2>8
      DEF UpstreamCancels, Cut, Promise!LoseQuietly, Promise!Break, Promise!Settle
    <2>9. CASE UpstreamBodyEnds
      BY <1>2, <2>1, <2>9 DEF UpstreamBodyEnds, Promise!Finish, Promise!Settle
    <2>10. ASSUME NEW hasBody \in BOOLEAN, UpstreamResponds(hasBody)
           PROVE  [Promise!Next]_(Promise!vars)
      BY <1>2, <2>1, <2>10
      DEF UpstreamResponds, Finally, Throws, Promise!Relay, Promise!Settle
    <2>11. ASSUME NEW emitsError \in BOOLEAN, ClientLeaves(emitsError)
           PROVE  [Promise!Next]_(Promise!vars)
      BY <1>2, <2>1, <2>11 DEF ClientLeaves, EndWithStatus, Throws, Cut, Promise!Leave
    <2>12. CASE UNCHANGED vars
      BY <2>12 DEF vars
    <2> QED
      BY <1>2, <2>2, <2>3, <2>4, <2>6, <2>7, <2>8, <2>9, <2>10, <2>11, <2>12 DEF Next
  <1> QED
    BY <1>1, <1>2, InitEstablishes, NextPreserves, PTL
    DEF Safety, KeepsPromise, Promise!Safety
=============================================================================
