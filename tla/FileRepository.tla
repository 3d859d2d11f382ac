--------------------------- MODULE FileRepository ---------------------------
(***************************************************************************)
(* InMemoryRepository with a file behind it.  A save or a removal changes  *)
(* the maps at once and then starts an fs.writeFile of all of them, which  *)
(* nothing serialises with the writes already under way.  writeFile opens  *)
(* (and truncates) the file, writes, and closes it; each of the three is   *)
(* done by a thread of the pool, so the stages of two writes interleave.   *)
(***************************************************************************)
EXTENDS Integers, FiniteSets

CONSTANTS
    Domains,        \* the domains gateways are saved for
    MaxStores,      \* bound on the calls of store()
    MaxPending,     \* bound on the writes under way at one time
    MaxFailures,    \* bound on the writes that fail
    Unreadable,     \* contents whose JSON no gateway is built from
    Unwritable      \* contents that have no JSON: toJSON throws

Kinds == {"virtualHost", "apiGateway"}

\* A version stands for the content of one saved gateway; 0 is no gateway.  With
\* a spam filter among its middlewares it is unreadable (serialize leaves out the
\* args that MiddlewareFactory.build assigns to); with a type of middleware the
\* registry does not know, unwritable (build returns undefined).  The schemas let
\* both through: they constrain the first middleware of a list only.
Versions == 0..MaxStores
Snapshots == [Kinds -> [Domains -> Versions]]
NoGateways == [k \in Kinds |-> [d \in Domains |-> 0]]

\* A gateway as a table of GatewayHostService holds it.
Gateways == [kind : Kinds, version : Versions]
Gateway(k, v) == [kind |-> k, version |-> v]
Absent == Gateway("virtualHost", 0)
IsThere(g) == g.version # 0

ASSUME RepositoryAssumption ==
    /\ MaxStores \in Nat /\ MaxPending \in Nat /\ MaxFailures \in Nat
    /\ Unreadable \subseteq 1..MaxStores
    /\ Unwritable \subseteq 1..MaxStores

VARIABLES
    gateways,       \* _hosts and _apisGetaways
    stores,         \* how many times store() was called
    writes,         \* the writeFile calls not settled yet
    file,           \* the content of the file
    failures,       \* how many writes failed
    contested,      \* history: domains stored again while a write of theirs was
                    \* under way, or whose last store failed, or changed one kind
                    \* of gateway and left another that is found instead
    overlapped      \* history: the last store found a write under way, or failed,
                    \* or a write has failed since

history == <<contested, overlapped>>
repositoryVars == <<gateways, stores, writes, file, failures, history>>

Text(s) == [is |-> "text", data |-> s]
Empty == [is |-> "empty"]       \* truncated, not written yet
Torn == [is |-> "torn"]         \* one text over the tail of another

Changes == [domain : Domains, kind : Kinds, version : Versions]

Writes == [id : 1..MaxStores, data : Snapshots, change : Changes,
           stage : {"queued", "open", "written"}]

RepositoryTypeOK ==
    /\ gateways \in Snapshots
    /\ stores \in 0..MaxStores
    /\ writes \subseteq Writes /\ IsFiniteSet(writes)
    /\ \A w \in writes : w.id <= stores
    /\ Cardinality(writes) <= MaxPending
    /\ file \in [is : {"text"}, data : Snapshots] \cup {Empty, Torn}
    /\ failures \in 0..MaxFailures
    /\ contested \subseteq Domains
    /\ overlapped \in BOOLEAN

\* connect() found no file, or an empty repository in it.
RepositoryInit ==
    /\ gateways = NoGateways
    /\ stores = 0
    /\ writes = {}
    /\ file = Text(NoGateways)
    /\ failures = 0
    /\ contested = {}
    /\ overlapped = FALSE

-----------------------------------------------------------------------------
ExistsGateway(d) == \E k \in Kinds : gateways[k][d] # 0

\* getGatewayById looks among the virtual hosts first.
KindById(d) == IF gateways["virtualHost"][d] # 0 THEN "virtualHost" ELSE "apiGateway"

\* What the repository answers for a domain.
Stored(d) == IF ExistsGateway(d) THEN Gateway(KindById(d), gateways[KindById(d)][d])
                                 ELSE Absent

\* What loadGateways leaves of a domain in a table: it gives the API gateways
\* first, so a virtual host of the same domain replaces one.
Given(s, d) ==
    IF s["virtualHost"][d] # 0 THEN Gateway("virtualHost", s["virtualHost"][d])
    ELSE IF s["apiGateway"][d] # 0 THEN Gateway("apiGateway", s["apiGateway"][d])
    ELSE Absent

\* The gateways connect() builds from the text of a snapshot.
Read(s) == [k \in Kinds |-> [d \in Domains |->
              IF s[k][d] \in Unreadable THEN 0 ELSE s[k][d]]]

\* What a concluded change leaves in a table: addGatewayHost,
\* removeVirtualHostByKey.
After(change) ==
    IF change.version = 0 THEN Absent ELSE Gateway(change.kind, change.version)

Pending(d) == \E w \in writes : w.change.domain = d

\* store(): the text is made of all gateways before the write begins, so one
\* that has no JSON fails every store until it is gone; the maps keep the change.
Writable(s) == \A k \in Kinds : \A d \in Domains : s[k][d] \notin Unwritable

Recorded(k, d, v) ==
    /\ contested' = IF \/ Pending(d) \/ ~Writable(gateways')
                       \/ Stored(d)' # After([domain |-> d, kind |-> k, version |-> v])
                      THEN contested \cup {d} ELSE contested \ {d}
    /\ overlapped' = (writes # {} \/ ~Writable(gateways'))

NewWrite(s, k, d, v) ==
    [id |-> stores + 1, data |-> s, stage |-> "queued",
     change |-> [domain |-> d, kind |-> k, version |-> v]]

\* Mutant of Store: the text to write is made before the change.
StoreTooEarly(k, d, v) ==
    /\ stores < MaxStores /\ Cardinality(writes) < MaxPending
    /\ gateways' = [gateways EXCEPT ![k][d] = v]
    /\ stores' = stores + 1
    /\ writes' = writes \cup {NewWrite(gateways, k, d, v)}
    /\ Recorded(k, d, v)
    /\ UNCHANGED <<file, failures>>

\* The maps change now; the promise settles when the write does.
Store(k, d, v) ==
    /\ stores < MaxStores /\ Cardinality(writes) < MaxPending
    /\ gateways' = [gateways EXCEPT ![k][d] = v]
    /\ stores' = stores + 1
    /\ writes' = IF Writable(gateways')
                   THEN writes \cup {NewWrite(gateways', k, d, v)} ELSE writes
    /\ Recorded(k, d, v)
    /\ UNCHANGED <<file, failures>>

SaveGateway(k, d, v) == v # 0 /\ Store(k, d, v)

\* removeGateway of a gateway that is there; else it resolves to false.
RemoveGateway(k, d) == gateways[k][d] # 0 /\ Store(k, d, 0)

Advance(w, stage) == writes' = (writes \ {w}) \cup {[w EXCEPT !.stage = stage]}

FileOpens(w) ==
    /\ w.stage = "queued"
    /\ file' = Empty
    /\ Advance(w, "open")
    /\ UNCHANGED <<gateways, stores, failures, history>>

\* Every gateway of s is in t, so the text of s is not longer than that of t.
Within(s, t) == \A k \in Kinds : \A d \in Domains : s[k][d] \in {0, t[k][d]}

\* The text goes to offset 0: over what another write left there, whose tail
\* remains when it is longer.
FileWritten(w) ==
    /\ w.stage = "open"
    /\ \/ /\ file.is = "text" => file.data = w.data \/ ~Within(w.data, file.data)
          /\ file' = Text(w.data)
       \/ /\ file.is # "empty"
          /\ file.is = "text" => ~Within(file.data, w.data)
          /\ file' = Torn
    /\ Advance(w, "written")
    /\ UNCHANGED <<gateways, stores, failures, history>>

\* The file is closed: store() resolves to true.
FileCloses(w) ==
    /\ w.stage = "written"
    /\ writes' = writes \ {w}
    /\ UNCHANGED <<gateways, stores, file, failures, history>>

\* open or write fails: store() rejects, the maps keep the change.
WriteFails(w) ==
    /\ failures < MaxFailures
    /\ w.stage \in {"queued", "open"}
    /\ failures' = failures + 1
    /\ writes' = writes \ {w}
    /\ contested' = contested \cup {w.change.domain}
    /\ overlapped' = TRUE
    /\ UNCHANGED <<gateways, stores, file>>

-----------------------------------------------------------------------------
\* The file is the "persistence layer" (config.ts): a write that had the file to
\* itself leaves all that the repository holds, whatever earlier writes that
\* overlapped, failed or tore the file left there.
DurableWhenIdle == writes = {} /\ ~overlapped => file = Text(gateways)

\* Why: a write that had the file to itself is alone, and truncates the file before
\* it writes there what the repository holds.
Lone ==
    ~overlapped => \A w \in writes :
        /\ writes = {w} /\ w.data = gateways
        /\ w.stage = "open" => file = Empty
        /\ w.stage = "written" => file = Text(gateways)

\* What is under way for a domain that is not contested is its one change.
PendingIsStored ==
    \A w \in writes : w.change.domain \notin contested =>
        After(w.change) = Stored(w.change.domain)

RepositoryInv == RepositoryTypeOK /\ Lone /\ DurableWhenIdle /\ PendingIsStored
=============================================================================
