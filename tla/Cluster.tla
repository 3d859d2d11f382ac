------------------------------- MODULE Cluster -------------------------------
(***************************************************************************)
(* The control plane in workers mode.  The primary process runs the admin  *)
(* API over the repository and sends every concluded change to the workers *)
(* over their IPC channels; each worker loads the repository's file once,  *)
(* when it starts, and then follows the messages.  A worker that serves a  *)
(* domain through a wildcard gateway clones it and posts the clone to the  *)
(* admin API.                                                              *)
(*                                                                         *)
(* A handler of the admin API reads the repository's maps and starts its   *)
(* write in one macrotask; its reply and its message follow the write.     *)
(***************************************************************************)
EXTENDS FileRepository, Sequences

CONSTANTS
    Workers,        \* the worker processes
    Wildcard,       \* the domain with a "*" that matches every other one
    AdminKinds      \* the kinds of gateway the administrator saves

ASSUME ClusterAssumption == AdminKinds \subseteq Kinds /\ Wildcard \in Domains

VARIABLES
    phase,          \* of a worker: "reading", "loading", "serving", "dead"
    snapshot,       \* what it read from the file and has not loaded yet
    table,          \* its gateways by domain (GatewayHostService)
    queue,          \* the messages on their way to it
    posts,          \* clones posted to the admin API
    fresh           \* history: see WorkersAgree

workerVars == <<phase, snapshot, table, queue>>
vars == <<repositoryVars, workerVars, posts, fresh>>

TypeOK ==
    /\ RepositoryTypeOK
    /\ phase \in [Workers -> {"reading", "loading", "serving", "dead"}]
    /\ snapshot \in [Workers -> Snapshots]
    /\ table \in [Workers -> [Domains -> Gateways]]
    /\ queue \in [Workers -> Seq(Changes)]
    /\ posts \subseteq Changes
    /\ \A p \in posts : p.version # 0 /\ p.domain # Wildcard
    /\ fresh \subseteq Domains

Init ==
    /\ RepositoryInit
    /\ phase = [w \in Workers |-> "reading"]
    /\ snapshot = [w \in Workers |-> NoGateways]
    /\ table = [w \in Workers |-> [d \in Domains |-> Absent]]
    /\ queue = [w \in Workers |-> <<>>]
    /\ posts = {}
    /\ fresh = {}

-----------------------------------------------------------------------------
(* The admin API in the primary.                                           *)

\* addVirtualHost, addAPIGateway: refused (409) when the domain has a gateway.
AdminAdds(k, d) ==
    /\ ~ExistsGateway(d)
    /\ SaveGateway(k, d, stores + 1)
    /\ UNCHANGED <<workerVars, posts, fresh>>

\* updateVirtualHost, updateAPIGateway: the path names a gateway of any kind,
\* and the body, which is what is saved, may name another domain.
AdminUpdates(k, path, d) ==
    /\ ExistsGateway(path)
    /\ SaveGateway(k, d, stores + 1)
    /\ UNCHANGED <<workerVars, posts, fresh>>

\* deleteGateway: one kind goes, the one getGatewayById finds.
AdminDeletes(d) ==
    /\ ExistsGateway(d)
    /\ RemoveGateway(KindById(d), d)
    /\ UNCHANGED <<workerVars, posts, fresh>>

Live == {w \in Workers : phase[w] # "dead"}

\* No gateway can be built from the message: the workers leave it at that.
Ignored(change) == change.version \in Unreadable

\* The events 'gateway' and 'removed': one message to each of cluster.workers.
Broadcast(change) ==
    /\ queue' = [w \in Workers |-> IF w \in Live THEN Append(queue[w], change)
                                                 ELSE queue[w]]
    /\ fresh' = IF Ignored(change) THEN fresh
                ELSE IF \A w \in Live : phase[w] = "serving"
                  THEN fresh \cup {change.domain} ELSE fresh \ {change.domain}

\* Mutant of StoreConcludes: a removal is not announced.
StoreConcludesSavesOnly(w) ==
    /\ FileCloses(w)
    /\ IF w.change.version # 0 THEN Broadcast(w.change) ELSE UNCHANGED <<queue, fresh>>
    /\ UNCHANGED <<phase, snapshot, table, posts>>

StoreConcludes(w) ==
    /\ FileCloses(w)
    /\ Broadcast(w.change)
    /\ UNCHANGED <<phase, snapshot, table, posts>>

\* The write's other stages, and its failure (500, and no message).
StoreProceeds(w) ==
    /\ FileOpens(w) \/ FileWritten(w) \/ WriteFails(w)
    /\ UNCHANGED <<workerVars, posts, fresh>>

-----------------------------------------------------------------------------
(* The workers.                                                            *)

\* connect(): a file that does not parse kills the worker; none is forked anew.
ReadsFile(w) ==
    /\ phase[w] = "reading"
    /\ IF file.is = "text"
         THEN /\ phase' = [phase EXCEPT ![w] = "loading"]
              /\ snapshot' = [snapshot EXCEPT ![w] = Read(file.data)]
              /\ UNCHANGED <<table, queue>>
         ELSE /\ phase' = [phase EXCEPT ![w] = "dead"]
              /\ table' = [table EXCEPT ![w] = [d \in Domains |-> Absent]]
              /\ queue' = [queue EXCEPT ![w] = <<>>]
              /\ UNCHANGED snapshot
    /\ UNCHANGED <<repositoryVars, posts, fresh>>

\* What messages brought meanwhile is overwritten, where the file has a gateway.
Loaded(w, d) == IF IsThere(Given(snapshot[w], d)) THEN Given(snapshot[w], d)
                                                  ELSE table[w][d]

Loads(w) ==
    /\ phase[w] = "loading"
    /\ phase' = [phase EXCEPT ![w] = "serving"]
    /\ table' = [table EXCEPT ![w] = [d \in Domains |-> Loaded(w, d)]]
    /\ snapshot' = [snapshot EXCEPT ![w] = NoGateways]
    /\ UNCHANGED <<repositoryVars, queue, posts, fresh>>

\* Mutant of HandlesMessage: a gateway does not replace one of its domain.
HandlesMessageOnce(w) ==
    /\ phase[w] # "dead" /\ queue[w] # <<>>
    /\ LET change == Head(queue[w]) IN
         table' = [table EXCEPT ![w][change.domain] =
                     IF change.version # 0 /\ IsThere(@) THEN @ ELSE After(change)]
    /\ queue' = [queue EXCEPT ![w] = Tail(@)]
    /\ UNCHANGED <<repositoryVars, phase, snapshot, posts, fresh>>

\* The 'message' handler, there from the worker's start.
HandlesMessage(w) ==
    /\ phase[w] # "dead" /\ queue[w] # <<>>
    /\ LET change == Head(queue[w]) IN
         table' = [table EXCEPT ![w][change.domain] =
                     IF Ignored(change) THEN @ ELSE After(change)]
    /\ queue' = [queue EXCEPT ![w] = Tail(@)]
    /\ UNCHANGED <<repositoryVars, phase, snapshot, posts, fresh>>

\* Mutant of Resolves: the wildcard gateway is cloned without being there.
ResolvesNothing(w, d) ==
    /\ phase[w] = "serving"
    /\ d # Wildcard /\ ~IsThere(table[w][d])
    /\ LET g == table[w][Wildcard] IN
         /\ table' = [table EXCEPT ![w][d] = g]
         /\ posts' = posts \cup {[domain |-> d, kind |-> g.kind, version |-> g.version]}
    /\ fresh' = fresh \ {d}
    /\ UNCHANGED <<repositoryVars, phase, snapshot, queue>>

\* resolveGateway finds no gateway of the domain but the wildcard: the clone is
\* added, and 'resolved' posts it (addGatewayViaAdminAPI).
Resolves(w, d) ==
    /\ phase[w] = "serving"
    /\ d # Wildcard /\ ~IsThere(table[w][d]) /\ IsThere(table[w][Wildcard])
    /\ LET g == table[w][Wildcard] IN
         /\ table' = [table EXCEPT ![w][d] = g]
         /\ posts' = posts \cup {[domain |-> d, kind |-> g.kind, version |-> g.version]}
    /\ fresh' = fresh \ {d}
    /\ UNCHANGED <<repositoryVars, phase, snapshot, queue>>

\* The posted clone reaches the admin API: saved, or refused (409) because the
\* domain has a gateway by now.
PostArrives(p) ==
    /\ posts' = posts \ {p}
    /\ IF ExistsGateway(p.domain)
         THEN UNCHANGED repositoryVars
         ELSE SaveGateway(p.kind, p.domain, p.version)
    /\ UNCHANGED <<workerVars, fresh>>

\* The post fails: the worker logs it and keeps its clone.
PostFails(p) ==
    /\ posts' = posts \ {p}
    /\ UNCHANGED <<repositoryVars, workerVars, fresh>>

-----------------------------------------------------------------------------
Administrates ==
    \/ \E k \in AdminKinds : \E d \in Domains : AdminAdds(k, d)
    \/ \E k \in AdminKinds : \E path, d \in Domains : AdminUpdates(k, path, d)
    \/ \E d \in Domains : AdminDeletes(d)

Next ==
    \/ Administrates
    \/ \E w \in writes : StoreProceeds(w) \/ StoreConcludes(w)
    \/ \E w \in Workers : ReadsFile(w) \/ Loads(w) \/ HandlesMessage(w)
    \/ \E w \in Workers : \E d \in Domains : Resolves(w, d)
    \/ \E p \in posts : PostArrives(p) \/ PostFails(p)

Safety == Init /\ [][Next]_vars

\* Some write, message or load that is due goes on: less than what the event loop
\* of each process grants.  The administrator and the clients owe nothing.
Spec ==
    /\ Safety
    /\ WF_vars(\/ \E w \in writes : StoreProceeds(w) \/ StoreConcludes(w)
               \/ \E w \in Workers : ReadsFile(w) \/ Loads(w) \/ HandlesMessage(w))

-----------------------------------------------------------------------------
\* The messages about a domain on their way to a worker, and the last of them.
About(q, d) == {i \in DOMAIN q : q[i].domain = d /\ ~Ignored(q[i])}
LastAbout(q, d) == CHOOSE i \in About(q, d) : \A j \in About(q, d) : j <= i

\* What becomes of the gateway g of a domain when the messages are handled.
Outcome(q, d, g) == IF About(q, d) = {} THEN g ELSE After(q[LastAbout(q, d)])

\* What a worker will hold for a domain once it has handled its messages.
View(w, d) == Outcome(queue[w], d, table[w][d])

\* All workers come to hold the same gateway for a domain whose last change was
\* sent to workers that had all loaded, however writes overlapped before.
WorkersAgree == \A d \in fresh : \A v, w \in Live : View(v, d) = View(w, d)

\* The domains of which the last store met no other one, and whose gateway the
\* workers can build.
Followed == {d \in fresh \ contested : Stored(d).version \notin Unreadable}

\* And it is the gateway the repository holds, when no write of that domain is
\* under way or met another one: the workers serve what the administrator was told
\* is saved, whatever happens to the other domains.
WorkersFollowRepository ==
    \A d \in Followed : ~Pending(d) => \A w \in Live : View(w, d) = Stored(d)

\* Why: while a domain is fresh no worker loads any more.
FreshIsServed == fresh # {} => \A w \in Live : phase[w] = "serving"

\* The inductive invariant.
IInv ==
    /\ TypeOK /\ RepositoryInv
    /\ FreshIsServed /\ WorkersAgree /\ WorkersFollowRepository

\* Once the administrator rests, every worker that started settles on what the
\* repository holds for those domains.
Settled ==
    \A w \in Live : /\ phase[w] = "serving" /\ queue[w] = <<>>
                    /\ \A d \in Followed : table[w][d] = Stored(d)

WorkersSettle == <>[]Settled
=============================================================================
