---------------------------- MODULE SingleProcess ----------------------------
(***************************************************************************)
(* The proxy without workers: one process runs the admin API, the          *)
(* repository and the proxy.  The table follows the admin API's events,    *)
(* which come when a write ends, and a clone of the wildcard gateway is in *)
(* the table at once and is saved without asking whether the domain has a  *)
(* gateway.  The process may be stopped or crash at any time, and starts   *)
(* from the file.                                                          *)
(***************************************************************************)
EXTENDS FileRepository

CONSTANTS
    Wildcard,       \* the domain with a "*" that matches every other one
    AdminKinds      \* the kinds of gateway the administrator saves

ASSUME SingleProcessAssumption == AdminKinds \subseteq Kinds /\ Wildcard \in Domains

VARIABLES
    up,             \* the process runs
    table,          \* the gateways by domain (GatewayHostService)
    clones          \* the writes under way that 'resolved' began

vars == <<repositoryVars, up, table, clones>>

TypeOK ==
    /\ RepositoryTypeOK
    /\ up \in BOOLEAN
    /\ table \in [Domains -> Gateways]
    /\ clones \subseteq {w.id : w \in writes}

Init ==
    /\ RepositoryInit
    /\ up = TRUE
    /\ table = [d \in Domains |-> Absent]
    /\ clones = {}

-----------------------------------------------------------------------------
AdminAdds(k, d) ==
    /\ ~ExistsGateway(d)
    /\ SaveGateway(k, d, stores + 1)

AdminUpdates(k, path, d) ==
    /\ ExistsGateway(path)
    /\ SaveGateway(k, d, stores + 1)

AdminDeletes(d) ==
    /\ ExistsGateway(d)
    /\ RemoveGateway(KindById(d), d)

Administrates ==
    /\ up
    /\ \/ \E k \in AdminKinds : \E d \in Domains : AdminAdds(k, d)
       \/ \E k \in AdminKinds : \E path, d \in Domains : AdminUpdates(k, path, d)
       \/ \E d \in Domains : AdminDeletes(d)
    /\ UNCHANGED <<up, table, clones>>

\* Mutant of Resolves: nothing listens to 'resolved'.
ResolvesQuietly(d) ==
    /\ up
    /\ d # Wildcard /\ ~IsThere(table[d]) /\ IsThere(table[Wildcard])
    /\ table' = [table EXCEPT ![d] = table[Wildcard]]
    /\ UNCHANGED <<repositoryVars, up, clones>>

\* resolveGateway clones the wildcard gateway, and 'resolved' saves the clone.
Resolves(d) ==
    /\ up
    /\ d # Wildcard /\ ~IsThere(table[d]) /\ IsThere(table[Wildcard])
    /\ table' = [table EXCEPT ![d] = table[Wildcard]]
    /\ SaveGateway(table[Wildcard].kind, d, table[Wildcard].version)
    /\ clones' = IF writes' = writes THEN clones ELSE clones \cup {stores + 1}
    /\ UNCHANGED up

\* Mutant of StoreConcludes: a clone's write is never forgotten.
StoreConcludesKeepsClone(w) ==
    /\ FileCloses(w)
    /\ table' = IF w.id \in clones THEN table
                ELSE [table EXCEPT ![w.change.domain] = After(w.change)]
    /\ UNCHANGED <<up, clones>>

\* The write of an admin request ends: 'gateway' or 'removed'.
StoreConcludes(w) ==
    /\ FileCloses(w)
    /\ table' = IF w.id \in clones THEN table
                ELSE [table EXCEPT ![w.change.domain] = After(w.change)]
    /\ clones' = clones \ {w.id}
    /\ UNCHANGED up

StoreProceeds(w) ==
    /\ FileOpens(w) \/ FileWritten(w) \/ WriteFails(w)
    /\ clones' = clones \cap {v.id : v \in writes'}
    /\ UNCHANGED <<up, table>>

\* The process ends and a new one connects: the writes under way are cut where
\* they are.  A file that does not parse ends the new process too.
Restarts ==
    /\ up
    /\ writes' = {}
    /\ clones' = {}
    /\ contested' = {}
    /\ IF file.is = "text"
         THEN /\ gateways' = Read(file.data)
              /\ table' = [d \in Domains |-> Given(gateways', d)]
              /\ overlapped' = (gateways' # file.data)
              /\ UNCHANGED up
         ELSE up' = FALSE /\ UNCHANGED <<gateways, table, overlapped>>
    /\ UNCHANGED <<stores, file, failures>>

Next ==
    \/ Administrates
    \/ \E d \in Domains : Resolves(d)
    \/ \E w \in writes : StoreProceeds(w) \/ StoreConcludes(w)
    \/ Restarts

Spec == Init /\ [][Next]_vars

-----------------------------------------------------------------------------
\* What the proxy routes by is what the repository holds, for every domain that
\* has no write under way and was not stored twice at a time: whatever writes of
\* other domains, clones and crashes in the middle of a write come in between.  A
\* PUT of one kind on a domain of the other leaves both; they are told apart as
\* long as the kind saved last is the one getGatewayById finds.
TableFollowsRepository ==
    up => \A d \in Domains \ contested : ~Pending(d) => table[d] = Stored(d)

\* A restart while nothing is under way changes no route, when the last write had
\* the file to itself: neither the administrator's gateways nor the clones are
\* lost, whatever writes overlapped, failed or were cut before.  Only a gateway
\* whose JSON cannot be read back is.
RestartKeepsTable ==
    [][Restarts /\ writes = {} /\ ~overlapped /\ contested = {} =>
         /\ up'
         /\ \A d \in Domains : table[d].version \notin Unreadable =>
                                   table'[d] = table[d]]_vars

-----------------------------------------------------------------------------
(* Why they hold.                                                          *)

\* A clone is in the table before its write ends.
ClonesInTable ==
    \A w \in writes : w.id \in clones /\ w.change.domain \notin contested =>
        table[w.change.domain] = After(w.change)

\* The inductive invariant: a process that has ended leaves a file that may be cut.
IInv ==
    /\ TypeOK
    /\ up \/ writes = {}
    /\ up => /\ Lone /\ DurableWhenIdle /\ PendingIsStored
             /\ TableFollowsRepository /\ ClonesInTable
=============================================================================
