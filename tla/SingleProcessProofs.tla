------------------------- MODULE SingleProcessProofs -------------------------
(***************************************************************************)
(* What the one process routes by follows its repository, and outlives a   *)
(* restart, for any domains and numbers of writes.  While the process runs *)
(* the repository's invariant is that of the workers mode; when it ends    *)
(* the file may be cut anywhere, and a new process makes all of it anew.   *)
(***************************************************************************)
EXTENDS SingleProcess, FiniteSetTheorems, TLAPS

-----------------------------------------------------------------------------
(* The repository while the process runs: as in workers mode.              *)

\* Lemma: the size of a set that gains an element.
LEMMA OneMore ==
    ASSUME NEW S, IsFiniteSet(S), NEW x
    PROVE  /\ IsFiniteSet(S \cup {x})
           /\ Cardinality(S) \in Nat /\ Cardinality(S \cup {x}) \in Nat
           /\ Cardinality(S \cup {x}) <= Cardinality(S) + 1
  <1>1. IsFiniteSet(S \cup {x})
    BY FS_AddElement
  <1>2. Cardinality(S) \in Nat /\ Cardinality(S \cup {x}) \in Nat
    BY <1>1, FS_CardinalityType
  <1>3. Cardinality(S \cup {x}) = IF x \in S THEN Cardinality(S) ELSE Cardinality(S) + 1
    BY FS_AddElement
  <1> QED BY <1>1, <1>2, <1>3

\* Lemma: the size of a set that loses an element.
LEMMA OneLess ==
    ASSUME NEW S, IsFiniteSet(S), NEW x \in S
    PROVE  /\ IsFiniteSet(S \ {x})
           /\ Cardinality(S) \in Nat /\ Cardinality(S \ {x}) \in Nat
           /\ Cardinality(S \ {x}) + 1 = Cardinality(S)
  <1>1. IsFiniteSet(S \ {x})
    BY FS_RemoveElement
  <1>2. Cardinality(S) \in Nat /\ Cardinality(S \ {x}) \in Nat
    BY <1>1, FS_CardinalityType
  <1>3. Cardinality(S \ {x}) = Cardinality(S) - 1
    BY FS_RemoveElement
  <1> QED BY <1>2, <1>1, <1>3

\* Lemma: a store keeps the types of the repository.
LEMMA StoreKeepsTypes ==
    ASSUME RepositoryTypeOK,
           NEW k \in Kinds, NEW d \in Domains, NEW v \in Versions, Store(k, d, v)
    PROVE  RepositoryTypeOK'
  <1> USE RepositoryAssumption
  <1>1. gateways' \in Snapshots /\ stores' \in 0..MaxStores
    BY DEF Store, RepositoryTypeOK, Snapshots, Versions
  <1> DEFINE w == NewWrite(gateways', k, d, v)
  <1>2. w \in Writes /\ w.id = stores'
    BY <1>1 DEF Store, NewWrite, RepositoryTypeOK, Writes, Changes
  <1>3. writes' = writes \/ writes' = writes \cup {w}
    BY DEF Store
  <1> HIDE DEF w
  <1>4. writes' \subseteq Writes /\ \A x \in writes' : x.id <= stores'
    <2>1. stores' = stores + 1 /\ stores \in Nat
      BY DEF Store, RepositoryTypeOK
    <2>2. \A x \in writes : x \in Writes /\ x.id \in Nat /\ x.id <= stores
      BY DEF RepositoryTypeOK, Writes
    <2> QED BY <1>2, <1>3, <2>1, <2>2
  <1>5. IsFiniteSet(writes') /\ Cardinality(writes') <= MaxPending
    <2>1. IsFiniteSet(writes) /\ Cardinality(writes) < MaxPending
      BY DEF Store, RepositoryTypeOK
    <2>2. /\ IsFiniteSet(writes \cup {w})
          /\ Cardinality(writes) \in Nat /\ Cardinality(writes \cup {w}) \in Nat
          /\ Cardinality(writes \cup {w}) <= Cardinality(writes) + 1
      BY <2>1, OneMore, Zenon
    <2>3. CASE writes' = writes \cup {w}
      BY <2>1, <2>2, <2>3
    <2>4. CASE writes' = writes
      BY <2>1, <2>2, <2>4
    <2> QED BY <1>3, <2>3, <2>4
  <1>6. contested' \subseteq Domains /\ overlapped' \in BOOLEAN
    BY DEF Store, Recorded, RepositoryTypeOK
  <1> QED BY <1>1, <1>4, <1>5, <1>6 DEF Store, RepositoryTypeOK, Snapshots

\* Lemma: a store disturbs what the repository answers for one domain, whose
\* change is under way then, or contested.
LEMMA StoreIsLocal ==
    ASSUME RepositoryTypeOK,
           NEW k \in Kinds, NEW d \in Domains, NEW v \in Versions, Store(k, d, v)
    PROVE  /\ d \notin contested' => Pending(d)'
           /\ \A e \in Domains \ {d} :
                /\ Stored(e)' = Stored(e)
                /\ Pending(e)' <=> Pending(e)
                /\ e \in contested' <=> e \in contested
  <1>1. ASSUME NEW e \in Domains \ {d}
        PROVE  Stored(e)' = Stored(e)
    <2>1. \A j \in Kinds : gateways'[j][e] = gateways[j][e]
      BY DEF Store, RepositoryTypeOK, Snapshots
    <2> QED BY <2>1 DEF Stored, ExistsGateway, KindById, Kinds
  <1>2. ASSUME NEW e \in Domains \ {d}
        PROVE  Pending(e)' <=> Pending(e)
    BY DEF Store, NewWrite, Pending
  <1>3. ASSUME NEW e \in Domains \ {d}
        PROVE  e \in contested' <=> e \in contested
    BY DEF Store, Recorded
  <1>4. d \notin contested' => Pending(d)'
    <2> SUFFICES ASSUME Writable(gateways')
                 PROVE  \E w \in writes' : w.change.domain = d
      BY DEF Store, Recorded, Pending
    <2> DEFINE w == NewWrite(gateways', k, d, v)
    <2>1. w \in writes'
      BY DEF Store
    <2>2. w.change.domain = d
      BY DEF NewWrite
    <2> HIDE DEF w
    <2> QED BY <2>1, <2>2
  <1> QED BY <1>1, <1>2, <1>3, <1>4

\* Lemma: a store writes, at the end, what the map holds.
LEMMA StorePreserves ==
    ASSUME RepositoryInv,
           NEW k \in Kinds, NEW d \in Domains, NEW v \in Versions, Store(k, d, v)
    PROVE  RepositoryInv'
  <1>1. RepositoryTypeOK'
    BY StoreKeepsTypes DEF RepositoryInv
  <1>2. Lone' /\ DurableWhenIdle'
    <2> SUFFICES ASSUME ~overlapped'
                 PROVE  Lone' /\ DurableWhenIdle'
      BY DEF Lone, DurableWhenIdle
    <2>1. writes = {} /\ Writable(gateways')
      BY DEF Store, Recorded
    <2> DEFINE w == NewWrite(gateways', k, d, v)
    <2>2. writes' = {w}
      BY <2>1 DEF Store
    <2>3. w.data = gateways' /\ w.stage = "queued"
      BY DEF NewWrite
    <2> HIDE DEF w
    <2> QED BY <2>2, <2>3 DEF Lone, DurableWhenIdle
  <1>3. PendingIsStored'
    <2> SUFFICES ASSUME NEW w \in writes', w.change.domain \notin contested'
                 PROVE  After(w.change) = Stored(w.change.domain)'
      BY DEF PendingIsStored, After
    <2>1. w.change.domain \in Domains
      BY <1>1 DEF RepositoryTypeOK, Writes, Changes
    <2>2. CASE w.change.domain = d
      BY <2>2 DEF Store, NewWrite, Recorded, Pending, After
    <2>3. CASE w.change.domain # d
      <3>1. w \in writes
        BY <2>3 DEF Store, NewWrite
      <3>2. /\ Stored(w.change.domain)' = Stored(w.change.domain)
            /\ w.change.domain \notin contested
        BY <2>1, <2>3, StoreIsLocal DEF RepositoryInv
      <3> QED BY <3>1, <3>2 DEF RepositoryInv, PendingIsStored
    <2> QED BY <2>2, <2>3
  <1> QED BY <1>1, <1>2, <1>3 DEF RepositoryInv

\* Lemma: what the writes of the file leave.
LEMMA WritePreserves ==
    ASSUME RepositoryInv, NEW w \in writes,
           FileOpens(w) \/ FileWritten(w) \/ FileCloses(w) \/ WriteFails(w)
    PROVE  RepositoryInv'
  <1> USE RepositoryAssumption DEF RepositoryInv
  <1>0. w \in Writes /\ w.id <= stores
    BY DEF RepositoryTypeOK
  <1>1. ASSUME NEW stage \in {"open", "written"}, Advance(w, stage)
        PROVE  LET x == [w EXCEPT !.stage = stage] IN
               /\ x \in Writes /\ x.id = w.id /\ x.data = w.data
               /\ x.change = w.change /\ x.stage = stage
               /\ writes' = (writes \ {w}) \cup {x}
               /\ IsFiniteSet(writes') /\ Cardinality(writes') <= MaxPending
    <2> DEFINE x == [w EXCEPT !.stage = stage]
    <2>1. /\ x \in Writes /\ x.id = w.id /\ x.data = w.data
          /\ x.change = w.change /\ x.stage = stage
          /\ writes' = (writes \ {w}) \cup {x}
      BY <1>0, <1>1 DEF Advance, Writes
    <2> HIDE DEF x
    <2>2. IsFiniteSet(writes) /\ Cardinality(writes) <= MaxPending
      BY DEF RepositoryTypeOK
    <2>3. /\ IsFiniteSet((writes \ {w}) \cup {x})
          /\ Cardinality((writes \ {w}) \cup {x}) <= MaxPending
      <3>1. /\ IsFiniteSet(writes \ {w})
            /\ Cardinality(writes) \in Nat /\ Cardinality(writes \ {w}) \in Nat
            /\ Cardinality(writes \ {w}) + 1 = Cardinality(writes)
        BY <2>2, OneLess, Zenon
      <3>2. /\ IsFiniteSet((writes \ {w}) \cup {x})
            /\ Cardinality((writes \ {w}) \cup {x}) \in Nat
            /\ Cardinality((writes \ {w}) \cup {x}) <= Cardinality(writes \ {w}) + 1
        BY <3>1, OneMore, Zenon
      <3> QED BY <2>2, <3>1, <3>2
    <2> QED BY <2>1, <2>2, <2>3 DEF RepositoryTypeOK, x
  <1>2. CASE FileOpens(w)
    <2>1. PICK x \in Writes : /\ x.id = w.id /\ x.data = w.data
                              /\ x.change = w.change /\ x.stage = "open"
                              /\ writes' = (writes \ {w}) \cup {x}
                              /\ IsFiniteSet(writes') /\ Cardinality(writes') <= MaxPending
      BY <1>1, <1>2 DEF FileOpens
    <2>2. RepositoryTypeOK'
      BY <1>0, <1>2, <2>1 DEF FileOpens, RepositoryTypeOK, history
    <2>3. Lone' /\ DurableWhenIdle'
      BY <1>2, <2>1 DEF FileOpens, Lone, DurableWhenIdle, history
    <2>4. PendingIsStored'
      BY <1>2, <2>1
         DEF FileOpens, PendingIsStored, history, After, Stored, ExistsGateway, KindById
    <2> QED BY <2>2, <2>3, <2>4
  <1>3. CASE FileWritten(w)
    <2>1. PICK x \in Writes : /\ x.id = w.id /\ x.data = w.data
                              /\ x.change = w.change /\ x.stage = "written"
                              /\ writes' = (writes \ {w}) \cup {x}
                              /\ IsFiniteSet(writes') /\ Cardinality(writes') <= MaxPending
      BY <1>1, <1>3 DEF FileWritten
    <2>2. RepositoryTypeOK'
      BY <1>0, <1>3, <2>1 DEF FileWritten, RepositoryTypeOK, history, Text, Torn, Writes
    <2>3. Lone' /\ DurableWhenIdle'
      BY <1>3, <2>1 DEF FileWritten, Lone, DurableWhenIdle, history, Empty, Text
    <2>4. PendingIsStored'
      BY <1>3, <2>1
         DEF FileWritten, PendingIsStored, history, After, Stored, ExistsGateway, KindById
    <2> QED BY <2>2, <2>3, <2>4
  <1>4. CASE FileCloses(w) \/ WriteFails(w)
    <2>1. /\ writes' = writes \ {w}
          /\ UNCHANGED <<gateways, stores, file>>
          /\ contested \subseteq contested' /\ contested' \subseteq Domains
          /\ overlapped' \/ (overlapped' = overlapped /\ FileCloses(w))
          /\ overlapped' \in BOOLEAN /\ failures' \in 0..MaxFailures
      <3>1. CASE FileCloses(w)
        BY <3>1 DEF FileCloses, history, RepositoryTypeOK
      <3>2. CASE WriteFails(w)
        BY <1>0, <3>2 DEF WriteFails, RepositoryTypeOK, Writes, Changes
      <3> QED BY <1>4, <3>1, <3>2
    <2>2. IsFiniteSet(writes \ {w}) /\ Cardinality(writes \ {w}) <= MaxPending
      <3>1. IsFiniteSet(writes) /\ Cardinality(writes) <= MaxPending
        BY DEF RepositoryTypeOK
      <3> QED BY <3>1, OneLess
    <2>3. RepositoryTypeOK'
      BY <2>1, <2>2 DEF RepositoryTypeOK
    <2>4. Lone' /\ DurableWhenIdle'
      BY <2>1 DEF FileCloses, Lone, DurableWhenIdle
    <2>5. PendingIsStored'
      BY <2>1 DEF PendingIsStored, After, Stored, ExistsGateway, KindById
    <2> QED BY <2>3, <2>4, <2>5
  <1> QED BY <1>2, <1>3, <1>4

\* Lemma: the invariant is about these variables.
LEMMA RepositoryLeft ==
    ASSUME RepositoryInv, UNCHANGED repositoryVars
    PROVE  RepositoryInv'
  BY DEF repositoryVars, history, RepositoryInv, RepositoryTypeOK, Lone,
         DurableWhenIdle, PendingIsStored, Stored, ExistsGateway, KindById

-----------------------------------------------------------------------------
(* The table.                                                              *)

\* What holds while the process runs.
Runs == RepositoryInv /\ TableFollowsRepository /\ ClonesInTable

\* Lemma: the initial states satisfy the invariant.
LEMMA InitEstablishes == Init => IInv
  <1> SUFFICES ASSUME Init
               PROVE  IInv
    OBVIOUS
  <1> USE RepositoryAssumption DEF Init, RepositoryInit
  <1>1. NoGateways \in Snapshots /\ Absent \in Gateways
    BY DEF NoGateways, Snapshots, Absent, Gateways, Gateway, Kinds, Versions
  <1>2. RepositoryTypeOK
    <2>1. Text(NoGateways) \in [is : {"text"}, data : Snapshots]
      BY <1>1 DEF Text
    <2>2. IsFiniteSet(writes) /\ Cardinality(writes) <= MaxPending
      BY FS_EmptySet
    <2>3. /\ gateways \in Snapshots /\ stores \in 0..MaxStores /\ failures \in 0..MaxFailures
          /\ writes = {} /\ contested = {} /\ overlapped = FALSE
      BY <1>1
    <2>4. file \in [is : {"text"}, data : Snapshots] \cup {Empty, Torn}
      BY <2>1
    <2> QED BY <2>2, <2>3, <2>4 DEF RepositoryTypeOK
  <1>3. TypeOK
    BY <1>1, <1>2 DEF TypeOK
  <1>4. Lone /\ DurableWhenIdle /\ PendingIsStored /\ ClonesInTable
    BY DEF Lone, DurableWhenIdle, PendingIsStored, ClonesInTable
  <1>5. TableFollowsRepository
    BY DEF TableFollowsRepository, Stored, ExistsGateway, NoGateways
  <1> QED BY <1>3, <1>4, <1>5 DEF IInv

\* Lemma: an administrator's change leaves the table as it is until its write ends.
LEMMA AdministratesPreserves ==
    ASSUME IInv, Administrates
    PROVE  IInv'
  <1> USE RepositoryAssumption, SingleProcessAssumption DEF SaveGateway, RemoveGateway
  <1>0. up /\ Runs /\ TypeOK /\ stores \in 0..MaxStores
    BY DEF IInv, Runs, RepositoryInv, TypeOK, RepositoryTypeOK, Administrates
  <1>1. PICK k \in Kinds, d \in Domains, v \in {0, stores + 1} :
            Store(k, d, v) /\ UNCHANGED <<up, table, clones>>
    BY DEF Administrates, AdminAdds, AdminUpdates, AdminDeletes, KindById, Kinds
  <1>2. v \in Versions
    BY <1>0, <1>1 DEF Store, Versions
  <1>3. RepositoryInv'
    BY <1>0, <1>1, <1>2, StorePreserves DEF Runs
  <1>4. writes \subseteq writes'
    BY <1>1 DEF Store
  <1>5. TypeOK'
    BY <1>0, <1>1, <1>3, <1>4 DEF TypeOK, RepositoryInv
  <1>6. /\ d \notin contested' => Pending(d)'
        /\ \A e \in Domains \ {d} :
             /\ Stored(e)' = Stored(e)
             /\ Pending(e)' <=> Pending(e)
             /\ e \in contested' <=> e \in contested
    BY <1>0, <1>1, <1>2, StoreIsLocal DEF TypeOK
  <1>7. TableFollowsRepository'
    BY <1>0, <1>1, <1>6 DEF Runs, TableFollowsRepository
  <1>8. ClonesInTable'
    <2> SUFFICES ASSUME NEW w \in writes', w.id \in clones', w.change.domain \notin contested'
                 PROVE  table'[w.change.domain] = After(w.change)
      BY DEF ClonesInTable, After
    <2>1. w.id \in Nat /\ w.id <= stores /\ w.change.domain \in Domains
      BY <1>0, <1>1, <1>3
         DEF TypeOK, RepositoryInv, RepositoryTypeOK, Writes, Changes
    <2>2. w \in writes
      BY <1>0, <1>1, <2>1 DEF Store, NewWrite
    <2>3. w.change.domain \notin contested
      <3>1. CASE w.change.domain = d
        BY <1>1, <2>2, <3>1 DEF Store, Recorded, Pending
      <3>2. CASE w.change.domain # d
        BY <1>6, <2>1, <3>2
      <3> QED BY <3>1, <3>2
    <2> QED BY <1>0, <1>1, <2>2, <2>3 DEF Runs, ClonesInTable
  <1> QED BY <1>0, <1>1, <1>3, <1>5, <1>7, <1>8 DEF IInv, RepositoryInv

\* Lemma: a clone is in the table at once, and its domain pending or contested.
LEMMA ResolvesPreserves ==
    ASSUME IInv, NEW d \in Domains, Resolves(d)
    PROVE  IInv'
  <1> USE RepositoryAssumption, SingleProcessAssumption
  <1> DEFINE g == table[Wildcard]
  <1>0. /\ up /\ Runs /\ TypeOK /\ stores \in 0..MaxStores
        /\ g.kind \in Kinds /\ g.version \in Versions /\ g \in Gateways
    BY DEF IInv, Runs, RepositoryInv, TypeOK, RepositoryTypeOK, Resolves, Gateways
  <1>1. /\ Store(g.kind, d, g.version) /\ g.version # 0
        /\ table' = [table EXCEPT ![d] = g]
        /\ clones' = IF writes' = writes THEN clones ELSE clones \cup {stores + 1}
        /\ up' = up
    BY DEF Resolves, SaveGateway
  <1>2. g = Gateway(g.kind, g.version)
    BY <1>0 DEF Gateways, Gateway
  <1> HIDE DEF g
  <1>3. RepositoryInv'
    BY <1>0, <1>1, StorePreserves DEF Runs
  <1> DEFINE w0 == NewWrite(gateways', g.kind, d, g.version)
  <1>4. /\ w0.id = stores + 1 /\ w0.change.domain = d /\ After(w0.change) = g
        /\ writes' = writes \/ writes' = writes \cup {w0}
    BY <1>1, <1>2 DEF Store, NewWrite, After
  <1> HIDE DEF w0
  <1>5. TypeOK'
    <2>1. table' \in [Domains -> Gateways]
      BY <1>0, <1>1 DEF TypeOK
    <2>2. clones' \subseteq {w.id : w \in writes'}
      BY <1>0, <1>1, <1>4 DEF TypeOK
    <2> QED BY <1>0, <1>1, <1>3, <2>1, <2>2 DEF TypeOK, RepositoryInv
  <1>6. /\ d \notin contested' => Pending(d)'
        /\ \A e \in Domains \ {d} :
             /\ Stored(e)' = Stored(e) /\ table'[e] = table[e]
             /\ Pending(e)' <=> Pending(e)
             /\ e \in contested' <=> e \in contested
    BY <1>0, <1>1, StoreIsLocal DEF TypeOK
  <1>7. TableFollowsRepository'
    BY <1>0, <1>1, <1>6 DEF Runs, TableFollowsRepository
  <1>8. ClonesInTable'
    <2> SUFFICES ASSUME NEW w \in writes', w.id \in clones', w.change.domain \notin contested'
                 PROVE  table'[w.change.domain] = After(w.change)
      BY DEF ClonesInTable, After
    <2>1. CASE w \in writes
      <3>1. w.id \in Nat /\ w.id <= stores /\ w.change.domain \in Domains
        BY <1>0, <2>1 DEF TypeOK, RepositoryTypeOK, Writes, Changes
      <3>2. w.id \in clones
        BY <1>0, <1>1, <3>1
      <3>3. w.change.domain # d
        BY <1>1, <2>1 DEF Store, Recorded, Pending
      <3>4. w.change.domain \notin contested /\ table'[w.change.domain] = table[w.change.domain]
        BY <1>6, <3>1, <3>3
      <3> QED BY <1>0, <2>1, <3>2, <3>4 DEF Runs, ClonesInTable
    <2>2. CASE w \notin writes
      <3>1. w = w0
        BY <1>4, <2>2
      <3> QED BY <1>0, <1>1, <1>4, <3>1 DEF TypeOK
    <2> QED BY <2>1, <2>2
  <1> QED BY <1>0, <1>1, <1>3, <1>5, <1>7, <1>8 DEF IInv, RepositoryInv

\* Lemma: a write that goes on, or fails, leaves the table.
LEMMA ProceedsPreserves ==
    ASSUME IInv, NEW w \in writes, StoreProceeds(w)
    PROVE  IInv'
  <1>0. up /\ Runs /\ TypeOK
    BY DEF IInv, Runs, RepositoryInv, TypeOK
  <1>1. RepositoryInv'
    BY <1>0, WritePreserves DEF Runs, StoreProceeds
  <1>2. TypeOK'
    BY <1>0, <1>1 DEF TypeOK, RepositoryInv, StoreProceeds
  <1>3. /\ gateways' = gateways /\ contested \subseteq contested'
        /\ \A v \in writes' : \E x \in writes : v.id = x.id /\ v.change = x.change
        /\ \A d \in Domains \ contested' : Pending(d) => Pending(d)'
    <2>1. CASE FileOpens(w) \/ FileWritten(w)
      <3>1. PICK stage \in {"open", "written"} : Advance(w, stage)
        BY <2>1 DEF FileOpens, FileWritten
      <3> DEFINE x == [w EXCEPT !.stage = stage]
      <3>2. x.id = w.id /\ x.change = w.change /\ writes' = (writes \ {w}) \cup {x}
        BY <1>0, <3>1 DEF TypeOK, RepositoryTypeOK, Writes, Advance
      <3> HIDE DEF x
      <3>3. gateways' = gateways /\ contested' = contested
        BY <2>1 DEF FileOpens, FileWritten, history
      <3> QED BY <3>2, <3>3 DEF Pending
    <2>2. CASE WriteFails(w)
      BY <2>2 DEF WriteFails, Pending
    <2> QED BY <2>1, <2>2 DEF StoreProceeds
  <1>4. \A d : Stored(d)' = Stored(d)
    BY <1>3 DEF Stored, ExistsGateway, KindById
  <1>5. TableFollowsRepository' /\ ClonesInTable'
    <2>1. up' = up /\ table' = table /\ clones' \subseteq clones
      BY DEF StoreProceeds
    <2>2. TableFollowsRepository'
      BY <1>0, <1>3, <1>4, <2>1 DEF Runs, TableFollowsRepository
    <2>3. ClonesInTable'
      BY <1>0, <1>3, <2>1 DEF Runs, ClonesInTable, After
    <2> QED BY <2>2, <2>3
  <1> QED BY <1>0, <1>1, <1>2, <1>5 DEF IInv, RepositoryInv, StoreProceeds

\* Lemma: a write that ends puts into the table what the repository holds, and a
\* clone is there already.
LEMMA ConcludesPreserves ==
    ASSUME IInv, NEW w \in writes, StoreConcludes(w)
    PROVE  IInv'
  <1> DEFINE d == w.change.domain
  <1>0. /\ up /\ Runs /\ TypeOK /\ d \in Domains
        /\ w.change.kind \in Kinds /\ w.change.version \in Versions
    BY DEF IInv, Runs, RepositoryInv, TypeOK, RepositoryTypeOK, Writes, Changes
  <1>1. /\ writes' = writes \ {w} /\ clones' = clones \ {w.id} /\ up' = up
        /\ gateways' = gateways /\ contested' = contested
        /\ table' = IF w.id \in clones THEN table
                    ELSE [table EXCEPT ![d] = After(w.change)]
    BY DEF StoreConcludes, FileCloses, history
  <1>2. RepositoryInv'
    BY <1>0, WritePreserves DEF Runs, StoreConcludes
  <1>3. After(w.change) \in Gateways
    <2>1. 0 \in Versions
      BY RepositoryAssumption DEF Versions
    <2> QED BY <1>0, <2>1 DEF After, Absent, Gateway, Gateways, Kinds
  <1> HIDE DEF d
  <1>4. TypeOK'
    <2>1. table' \in [Domains -> Gateways] /\ clones' \subseteq {v.id : v \in writes'}
      BY <1>0, <1>1, <1>3 DEF TypeOK
    <2> QED BY <1>0, <1>1, <1>2, <2>1 DEF TypeOK, RepositoryInv
  <1>5. \A e : Stored(e)' = Stored(e)
    BY <1>1 DEF Stored, ExistsGateway, KindById
  <1>6. d \notin contested => table'[d] = After(w.change) /\ After(w.change) = Stored(d)
    BY <1>0, <1>1 DEF Runs, RepositoryInv, PendingIsStored, ClonesInTable, TypeOK, d
  <1>7. \A e \in Domains \ {d} : table'[e] = table[e] /\ (Pending(e)' <=> Pending(e))
    BY <1>0, <1>1 DEF TypeOK, Pending, d
  <1>8. TableFollowsRepository'
    BY <1>0, <1>1, <1>5, <1>6, <1>7 DEF Runs, TableFollowsRepository
  <1>9. ClonesInTable'
    <2> SUFFICES ASSUME NEW v \in writes, v.id \in clones, v.change.domain \notin contested
                 PROVE  table'[v.change.domain] = After(v.change)
      BY <1>1 DEF ClonesInTable, After
    <2>1. v.change.domain \in Domains
      BY <1>0 DEF TypeOK, RepositoryTypeOK, Writes, Changes
    <2>2. After(v.change) = table[v.change.domain] /\ After(v.change) = Stored(v.change.domain)
      BY <1>0 DEF Runs, RepositoryInv, PendingIsStored, ClonesInTable
    <2> QED BY <1>6, <1>7, <2>1, <2>2
  <1> QED BY <1>0, <1>1, <1>2, <1>4, <1>8, <1>9 DEF IInv, RepositoryInv

\* Lemma: what a new process reads is what it routes by, and nothing is under way.
LEMMA RestartsPreserves ==
    ASSUME IInv, Restarts
    PROVE  IInv'
  <1> USE RepositoryAssumption
  <1>0. /\ TypeOK /\ writes' = {} /\ clones' = {} /\ contested' = {}
        /\ UNCHANGED <<stores, file, failures>>
    BY DEF IInv, Restarts
  <1>1. IsFiniteSet(writes') /\ Cardinality(writes') <= MaxPending
    BY <1>0, FS_EmptySet
  <1>2. CASE file.is = "text"
    <2>1. /\ gateways' = Read(file.data) /\ up' = up
          /\ table' = [d \in Domains |-> Given(gateways', d)]
          /\ overlapped' = (gateways' # file.data)
      BY <1>2 DEF Restarts
    <2>2. file \in [is : {"text"}, data : Snapshots]
      BY <1>0, <1>2 DEF TypeOK, RepositoryTypeOK, Empty, Torn
    <2>3. gateways' \in Snapshots
      BY <2>1, <2>2 DEF Read, Snapshots, Versions
    <2>4. RepositoryTypeOK'
      BY <1>0, <1>1, <2>1, <2>3 DEF TypeOK, RepositoryTypeOK
    <2>5. \A d \in Domains : Given(gateways', d) = Stored(d)'
      BY <2>1 DEF Given, Stored, ExistsGateway, KindById, Kinds
    <2>6. \A d \in Domains : Given(gateways', d) \in Gateways
      BY <2>3 DEF Given, Gateway, Absent, Gateways, Snapshots, Kinds, Versions
    <2>7. TypeOK'
      BY <1>0, <2>1, <2>4, <2>6 DEF TypeOK
    <2>8. DurableWhenIdle'
      BY <1>0, <2>1, <2>2 DEF DurableWhenIdle, Text
    <2>9. Lone' /\ PendingIsStored' /\ ClonesInTable'
      BY <1>0 DEF Lone, PendingIsStored, ClonesInTable
    <2>10. TableFollowsRepository'
      BY <2>1, <2>5 DEF TableFollowsRepository
    <2> QED BY <1>0, <2>7, <2>8, <2>9, <2>10 DEF IInv
  <1>3. CASE file.is # "text"
    <2>1. up' = FALSE /\ UNCHANGED <<gateways, table, overlapped>>
      BY <1>3 DEF Restarts
    <2>2. RepositoryTypeOK'
      <3>1. file' \in [is : {"text"}, data : Snapshots] \cup {Empty, Torn}
        BY <1>0 DEF TypeOK, RepositoryTypeOK
      <3>2. /\ gateways' \in Snapshots /\ stores' \in 0..MaxStores
            /\ failures' \in 0..MaxFailures /\ overlapped' \in BOOLEAN
        BY <1>0, <2>1 DEF TypeOK, RepositoryTypeOK
      <3> QED BY <1>0, <1>1, <3>1, <3>2 DEF RepositoryTypeOK
    <2>3. TypeOK'
      BY <1>0, <2>1, <2>2 DEF TypeOK
    <2> QED BY <1>0, <2>1, <2>3 DEF IInv
  <1> QED BY <1>2, <1>3

\* Lemma: every step preserves the invariant.
LEMMA NextPreserves == IInv /\ [Next]_vars => IInv'
  <1> SUFFICES ASSUME IInv, [Next]_vars
               PROVE  IInv'
    OBVIOUS
  <1>1. CASE Administrates
    BY <1>1, AdministratesPreserves
  <1>2. CASE \E d \in Domains : Resolves(d)
    BY <1>2, ResolvesPreserves
  <1>3. CASE \E w \in writes : StoreProceeds(w) \/ StoreConcludes(w)
    BY <1>3, ProceedsPreserves, ConcludesPreserves
  <1>4. CASE Restarts
    BY <1>4, RestartsPreserves
  <1>5. CASE UNCHANGED vars
    BY <1>5 DEF IInv, TypeOK, RepositoryTypeOK, Lone, DurableWhenIdle, PendingIsStored,
                TableFollowsRepository, ClonesInTable, Stored, ExistsGateway, KindById,
                Pending, vars, repositoryVars, history
  <1> QED BY <1>1, <1>2, <1>3, <1>4, <1>5 DEF Next

-----------------------------------------------------------------------------
\* Theorem: whatever writes of other domains, clones and crashes come in between,
\* a domain that has no write under way, and is not contested, is routed by what the
\* repository answers.
THEOREM Invariance == Spec => [](TypeOK /\ TableFollowsRepository)
  <1>1. IInv => TypeOK /\ TableFollowsRepository
    BY DEF IInv, TableFollowsRepository
  <1> QED
    BY InitEstablishes, NextPreserves, <1>1, PTL DEF Spec

\* Lemma: a gateway that can be read back is what a table gets of it.
LEMMA ReadsBack ==
    ASSUME NEW s \in Snapshots, NEW d \in Domains, Given(s, d).version \notin Unreadable
    PROVE  Given(Read(s), d) = Given(s, d)
  BY RepositoryAssumption DEF Given, Read, Gateway, Absent, Snapshots, Kinds, Versions

\* Theorem: after a write that had the file to itself, a restart changes the route of
\* no gateway that can be read back.
THEOREM Restart == Spec => RestartKeepsTable
  <1> DEFINE Keeps == Restarts /\ writes = {} /\ ~overlapped /\ contested = {} =>
                        /\ up'
                        /\ \A d \in Domains : table[d].version \notin Unreadable =>
                                                  table'[d] = table[d]
  <1>1. ASSUME IInv, Restarts, writes = {}, ~overlapped, contested = {}
        PROVE  /\ up'
               /\ \A d \in Domains : table[d].version \notin Unreadable =>
                                         table'[d] = table[d]
    <2>1. up /\ file = Text(gateways) /\ gateways \in Snapshots
      BY <1>1 DEF Restarts, IInv, DurableWhenIdle, TypeOK, RepositoryTypeOK
    <2>2. /\ up' = up /\ gateways' = Read(gateways)
          /\ table' = [d \in Domains |-> Given(gateways', d)]
      BY <1>1, <2>1 DEF Restarts, Text
    <2>3. ASSUME NEW d \in Domains
          PROVE  table[d] = Given(gateways, d)
      <3>1. table[d] = Stored(d)
        BY <1>1, <2>1 DEF IInv, TableFollowsRepository, Pending
      <3> QED BY <3>1 DEF Given, Stored, ExistsGateway, KindById, Kinds
    <2> QED BY <2>1, <2>2, <2>3, ReadsBack
  <1>2. IInv /\ [Next]_vars => [Keeps]_vars
    BY <1>1 DEF Keeps
  <1> HIDE DEF Keeps
  <1>3. Spec => [][Keeps]_vars
    BY InitEstablishes, NextPreserves, <1>2, PTL DEF Spec
  <1> QED
    BY <1>3 DEF RestartKeepsTable, Keeps
=============================================================================
