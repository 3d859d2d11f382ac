---------------------------- MODULE ClusterProofs ----------------------------
(***************************************************************************)
(* The repository's file and the workers' tables follow the gateways, for  *)
(* any domains, workers and numbers of writes.                             *)
(***************************************************************************)
EXTENDS Cluster, FiniteSetTheorems, WellFoundedInduction, TLAPS

-----------------------------------------------------------------------------
(* The messages of a queue.                                                *)

\* Lemma: among the messages about a domain there is a last one, and LastAbout
\* is its position.
LEMMA LastAboutIsLast ==
    ASSUME NEW q \in Seq(Changes), NEW d, About(q, d) # {}
    PROVE  /\ LastAbout(q, d) \in About(q, d)
           /\ \A j \in About(q, d) : j <= LastAbout(q, d)
  <1> DEFINE Behind == {Len(q) - i : i \in About(q, d)}
  <1>1. Behind \subseteq Nat /\ Behind # {}
    BY DEF About
  <1>2. PICK n \in Behind : \A m \in Behind : ~ (<<m, n>> \in OpToRel(<, Nat))
    <2> HIDE DEF Behind
    <2> QED BY <1>1, NatLessThanWellFounded, WFMin
  <1>3. PICK i \in About(q, d) : n = Len(q) - i
    BY <1>2
  <1>4. ASSUME NEW j \in About(q, d)
        PROVE  j <= i
    <2>1. Len(q) - j \in Behind
      OBVIOUS
    <2>2. ~(Len(q) - j < n)
      BY <1>1, <1>2, <2>1 DEF OpToRel
    <2> QED BY <1>3, <2>2 DEF About
  <1> QED BY <1>4, Zenon DEF LastAbout

\* Lemma: there is one last message.
LEMMA LastAboutIs ==
    ASSUME NEW q \in Seq(Changes), NEW d,
           NEW i \in About(q, d), \A j \in About(q, d) : j <= i
    PROVE  LastAbout(q, d) = i
  <1>1. LastAbout(q, d) \in About(q, d) /\ i <= LastAbout(q, d)
    BY LastAboutIsLast, Zenon
  <1> QED BY <1>1 DEF About

\* Lemma: a message sent to a worker decides what becomes of the domain it is
\* about, and of no other.
LEMMA SentDecides ==
    ASSUME NEW q \in Seq(Changes), NEW c \in Changes, NEW d, NEW g
    PROVE  Outcome(Append(q, c), d, g) =
             IF c.domain = d /\ ~Ignored(c) THEN After(c) ELSE Outcome(q, d, g)
  <1> DEFINE r == Append(q, c)
  <1>1. /\ r \in Seq(Changes) /\ Len(r) = Len(q) + 1 /\ r[Len(r)] = c
        /\ \A i \in 1..Len(q) : r[i] = q[i]
    OBVIOUS
  <1> HIDE DEF r
  <1>2. CASE c.domain = d /\ ~Ignored(c)
    <2>1. Len(r) \in About(r, d) /\ \A j \in About(r, d) : j <= Len(r)
      BY <1>1, <1>2 DEF About
    <2>2. LastAbout(r, d) = Len(r)
      BY <1>1, <2>1, LastAboutIs
    <2> QED BY <1>1, <1>2, <2>1, <2>2 DEF Outcome, r
  <1>3. CASE ~(c.domain = d /\ ~Ignored(c))
    <2>1. About(r, d) = About(q, d)
      BY <1>1, <1>3 DEF About
    <2>2. CASE About(q, d) = {}
      BY <1>3, <2>1, <2>2 DEF Outcome, r
    <2>3. CASE About(q, d) # {}
      <3>1. LastAbout(r, d) = LastAbout(q, d)
        BY <2>1 DEF LastAbout
      <3>2. LastAbout(q, d) \in 1..Len(q)
        BY <2>3, LastAboutIsLast DEF About
      <3> QED BY <1>1, <1>3, <2>1, <2>3, <3>1, <3>2 DEF Outcome, r
    <2> QED BY <2>2, <2>3
  <1> QED BY <1>2, <1>3

\* Lemma: handling the first message changes nothing of what becomes of a domain.
LEMMA HandledAlready ==
    ASSUME NEW q \in Seq(Changes), q # <<>>, NEW d, NEW g
    PROVE  Outcome(Tail(q), d, IF Head(q).domain = d /\ ~Ignored(Head(q))
                                 THEN After(Head(q)) ELSE g)
             = Outcome(q, d, g)
  <1> DEFINE t == Tail(q)
  <1>1. /\ t \in Seq(Changes) /\ Len(t) = Len(q) - 1 /\ Len(q) \in Nat \ {0}
        /\ \A i \in 1..Len(t) : t[i] = q[i + 1]
        /\ Head(q) = q[1]
    OBVIOUS
  <1> HIDE DEF t
  <1>2. \A i \in 1..Len(t) : i \in About(t, d) <=> i + 1 \in About(q, d)
    BY <1>1 DEF About
  <1>3. CASE About(t, d) # {}
    <2>1. /\ LastAbout(t, d) \in About(t, d) /\ LastAbout(t, d) \in 1..Len(t)
          /\ \A j \in About(t, d) : j <= LastAbout(t, d)
      BY <1>1, <1>3, LastAboutIsLast DEF About
    <2>2. LastAbout(t, d) + 1 \in About(q, d)
      BY <1>2, <2>1
    <2>3. ASSUME NEW j \in About(q, d)
          PROVE  j <= LastAbout(t, d) + 1
      <3>1. j \in 1..Len(q)
        BY DEF About
      <3>2. CASE j = 1
        BY <2>1, <3>2
      <3>3. CASE j # 1
        <4>1. j - 1 \in 1..Len(t) /\ (j - 1) + 1 = j
          BY <1>1, <3>1, <3>3
        <4>2. j - 1 \in About(t, d)
          BY <1>2, <4>1
        <4> QED BY <2>1, <3>1, <4>2
      <3> QED BY <3>2, <3>3
    <2>4. LastAbout(q, d) = LastAbout(t, d) + 1
      BY <2>2, <2>3, LastAboutIs
    <2> QED BY <1>1, <1>3, <2>1, <2>2, <2>4 DEF Outcome, t
  <1>4. CASE About(t, d) = {}
    <2>1. About(q, d) \subseteq {1}
      <3>1. ASSUME NEW j \in About(q, d), j # 1
            PROVE  FALSE
        <4>1. j - 1 \in 1..Len(t) /\ (j - 1) + 1 = j
          BY <1>1, <3>1 DEF About
        <4> QED BY <1>2, <1>4, <3>1, <4>1
      <3> QED BY <3>1
    <2>2. CASE Head(q).domain = d /\ ~Ignored(Head(q))
      <3>1. 1 \in About(q, d)
        BY <1>1, <2>2 DEF About
      <3>2. LastAbout(q, d) = 1
        BY <2>1, <3>1, LastAboutIs
      <3> QED BY <1>1, <1>4, <2>2, <3>1, <3>2 DEF Outcome, t
    <2>3. CASE ~(Head(q).domain = d /\ ~Ignored(Head(q)))
      <3>1. About(q, d) = {}
        BY <1>1, <2>1, <2>3 DEF About
      <3> QED BY <1>4, <2>3, <3>1 DEF Outcome, t
    <2> QED BY <2>2, <2>3
  <1> QED BY <1>3, <1>4

-----------------------------------------------------------------------------
(* The repository.                                                         *)

\* Lemma: the size of a set that gains an element.
LEMMA OneMore ==
    ASSUME NEW S, IsFiniteSet(S), NEW x
    PROVE  /\ IsFiniteSet(S \cup {x})
           /\ Cardinality(S) \in Nat /\ Cardinality(S \cup {x}) \in Nat
           /\ Cardinality(S \cup {x}) <= Cardinality(S) + 1
  <1>1. IsFiniteSet(S \cup {x})
    BY FS_AddElement
  <1>2. Cardinality(S) \in Nat /\ Cardinality(S \cup {x}) \in Nat
    BY <1>1, FS_CardinalityType
  <1>3. Cardinality(S \cup {x}) = IF x \in S THEN Cardinality(S) ELSE Cardinality(S) + 1
    BY FS_AddElement
  <1> QED BY <1>1, <1>2, <1>3

\* Lemma: the size of a set that loses an element.
LEMMA OneLess ==
    ASSUME NEW S, IsFiniteSet(S), NEW x \in S
    PROVE  /\ IsFiniteSet(S \ {x})
           /\ Cardinality(S) \in Nat /\ Cardinality(S \ {x}) \in Nat
           /\ Cardinality(S \ {x}) + 1 = Cardinality(S)
  <1>1. IsFiniteSet(S \ {x})
    BY FS_RemoveElement
  <1>2. Cardinality(S) \in Nat /\ Cardinality(S \ {x}) \in Nat
    BY <1>1, FS_CardinalityType
  <1>3. Cardinality(S \ {x}) = Cardinality(S) - 1
    BY FS_RemoveElement
  <1> QED BY <1>2, <1>1, <1>3

\* Lemma: a store keeps the types of the repository.
LEMMA StoreKeepsTypes ==
    ASSUME RepositoryTypeOK,
           NEW k \in Kinds, NEW d \in Domains, NEW v \in Versions, Store(k, d, v)
    PROVE  RepositoryTypeOK'
  <1> USE RepositoryAssumption
  <1>1. gateways' \in Snapshots /\ stores' \in 0..MaxStores
    BY DEF Store, RepositoryTypeOK, Snapshots, Versions
  <1> DEFINE w == NewWrite(gateways', k, d, v)
  <1>2. w \in Writes /\ w.id = stores'
    BY <1>1 DEF Store, NewWrite, RepositoryTypeOK, Writes, Changes
  <1>3. writes' = writes \/ writes' = writes \cup {w}
    BY DEF Store
  <1> HIDE DEF w
  <1>4. writes' \subseteq Writes /\ \A x \in writes' : x.id <= stores'
    <2>1. stores' = stores + 1 /\ stores \in Nat
      BY DEF Store, RepositoryTypeOK
    <2>2. \A x \in writes : x \in Writes /\ x.id \in Nat /\ x.id <= stores
      BY DEF RepositoryTypeOK, Writes
    <2> QED BY <1>2, <1>3, <2>1, <2>2
  <1>5. IsFiniteSet(writes') /\ Cardinality(writes') <= MaxPending
    <2>1. IsFiniteSet(writes) /\ Cardinality(writes) < MaxPending
      BY DEF Store, RepositoryTypeOK
    <2>2. /\ IsFiniteSet(writes \cup {w})
          /\ Cardinality(writes) \in Nat /\ Cardinality(writes \cup {w}) \in Nat
          /\ Cardinality(writes \cup {w}) <= Cardinality(writes) + 1
      BY <2>1, OneMore, Zenon
    <2>3. CASE writes' = writes \cup {w}
      BY <2>1, <2>2, <2>3
    <2>4. CASE writes' = writes
      BY <2>1, <2>2, <2>4
    <2> QED BY <1>3, <2>3, <2>4
  <1>6. contested' \subseteq Domains /\ overlapped' \in BOOLEAN
    BY DEF Store, Recorded, RepositoryTypeOK
  <1> QED BY <1>1, <1>4, <1>5, <1>6 DEF Store, RepositoryTypeOK, Snapshots

\* Lemma: a store disturbs what the repository answers for one domain, whose
\* change is under way then, or contested.
LEMMA StoreIsLocal ==
    ASSUME RepositoryTypeOK,
           NEW k \in Kinds, NEW d \in Domains, NEW v \in Versions, Store(k, d, v)
    PROVE  /\ d \notin contested' => Pending(d)'
           /\ \A e \in Domains \ {d} :
                /\ Stored(e)' = Stored(e)
                /\ Pending(e)' <=> Pending(e)
                /\ e \in contested' <=> e \in contested
  <1>1. ASSUME NEW e \in Domains \ {d}
        PROVE  Stored(e)' = Stored(e)
    <2>1. \A j \in Kinds : gateways'[j][e] = gateways[j][e]
      BY DEF Store, RepositoryTypeOK, Snapshots
    <2> QED BY <2>1 DEF Stored, ExistsGateway, KindById, Kinds
  <1>2. ASSUME NEW e \in Domains \ {d}
        PROVE  Pending(e)' <=> Pending(e)
    BY DEF Store, NewWrite, Pending
  <1>3. ASSUME NEW e \in Domains \ {d}
        PROVE  e \in contested' <=> e \in contested
    BY DEF Store, Recorded
  <1>4. d \notin contested' => Pending(d)'
    <2> SUFFICES ASSUME Writable(gateways')
                 PROVE  \E w \in writes' : w.change.domain = d
      BY DEF Store, Recorded, Pending
    <2> DEFINE w == NewWrite(gateways', k, d, v)
    <2>1. w \in writes'
      BY DEF Store
    <2>2. w.change.domain = d
      BY DEF NewWrite
    <2> HIDE DEF w
    <2> QED BY <2>1, <2>2
  <1> QED BY <1>1, <1>2, <1>3, <1>4

\* Lemma: a store writes, at the end, what the map holds.
LEMMA StorePreserves ==
    ASSUME RepositoryInv,
           NEW k \in Kinds, NEW d \in Domains, NEW v \in Versions, Store(k, d, v)
    PROVE  RepositoryInv'
  <1>1. RepositoryTypeOK'
    BY StoreKeepsTypes DEF RepositoryInv
  <1>2. Lone' /\ DurableWhenIdle'
    <2> SUFFICES ASSUME ~overlapped'
                 PROVE  Lone' /\ DurableWhenIdle'
      BY DEF Lone, DurableWhenIdle
    <2>1. writes = {} /\ Writable(gateways')
      BY DEF Store, Recorded
    <2> DEFINE w == NewWrite(gateways', k, d, v)
    <2>2. writes' = {w}
      BY <2>1 DEF Store
    <2>3. w.data = gateways' /\ w.stage = "queued"
      BY DEF NewWrite
    <2> HIDE DEF w
    <2> QED BY <2>2, <2>3 DEF Lone, DurableWhenIdle
  <1>3. PendingIsStored'
    <2> SUFFICES ASSUME NEW w \in writes', w.change.domain \notin contested'
                 PROVE  After(w.change) = Stored(w.change.domain)'
      BY DEF PendingIsStored, After
    <2>1. w.change.domain \in Domains
      BY <1>1 DEF RepositoryTypeOK, Writes, Changes
    <2>2. CASE w.change.domain = d
      BY <2>2 DEF Store, NewWrite, Recorded, Pending, After
    <2>3. CASE w.change.domain # d
      <3>1. w \in writes
        BY <2>3 DEF Store, NewWrite
      <3>2. /\ Stored(w.change.domain)' = Stored(w.change.domain)
            /\ w.change.domain \notin contested
        BY <2>1, <2>3, StoreIsLocal DEF RepositoryInv
      <3> QED BY <3>1, <3>2 DEF RepositoryInv, PendingIsStored
    <2> QED BY <2>2, <2>3
  <1> QED BY <1>1, <1>2, <1>3 DEF RepositoryInv

\* Lemma: what the writes of the file leave.
LEMMA WritePreserves ==
    ASSUME RepositoryInv, NEW w \in writes,
           FileOpens(w) \/ FileWritten(w) \/ FileCloses(w) \/ WriteFails(w)
    PROVE  RepositoryInv'
  <1> USE RepositoryAssumption DEF RepositoryInv
  <1>0. w \in Writes /\ w.id <= stores
    BY DEF RepositoryTypeOK
  <1>1. ASSUME NEW stage \in {"open", "written"}, Advance(w, stage)
        PROVE  LET x == [w EXCEPT !.stage = stage] IN
               /\ x \in Writes /\ x.id = w.id /\ x.data = w.data
               /\ x.change = w.change /\ x.stage = stage
               /\ writes' = (writes \ {w}) \cup {x}
               /\ IsFiniteSet(writes') /\ Cardinality(writes') <= MaxPending
    <2> DEFINE x == [w EXCEPT !.stage = stage]
    <2>1. /\ x \in Writes /\ x.id = w.id /\ x.data = w.data
          /\ x.change = w.change /\ x.stage = stage
          /\ writes' = (writes \ {w}) \cup {x}
      BY <1>0, <1>1 DEF Advance, Writes
    <2> HIDE DEF x
    <2>2. IsFiniteSet(writes) /\ Cardinality(writes) <= MaxPending
      BY DEF RepositoryTypeOK
    <2>3. /\ IsFiniteSet((writes \ {w}) \cup {x})
          /\ Cardinality((writes \ {w}) \cup {x}) <= MaxPending
      <3>1. /\ IsFiniteSet(writes \ {w})
            /\ Cardinality(writes) \in Nat /\ Cardinality(writes \ {w}) \in Nat
            /\ Cardinality(writes \ {w}) + 1 = Cardinality(writes)
        BY <2>2, OneLess, Zenon
      <3>2. /\ IsFiniteSet((writes \ {w}) \cup {x})
            /\ Cardinality((writes \ {w}) \cup {x}) \in Nat
            /\ Cardinality((writes \ {w}) \cup {x}) <= Cardinality(writes \ {w}) + 1
        BY <3>1, OneMore, Zenon
      <3> QED BY <2>2, <3>1, <3>2
    <2> QED BY <2>1, <2>2, <2>3 DEF RepositoryTypeOK, x
  <1>2. CASE FileOpens(w)
    <2>1. PICK x \in Writes : /\ x.id = w.id /\ x.data = w.data
                              /\ x.change = w.change /\ x.stage = "open"
                              /\ writes' = (writes \ {w}) \cup {x}
                              /\ IsFiniteSet(writes') /\ Cardinality(writes') <= MaxPending
      BY <1>1, <1>2 DEF FileOpens
    <2>2. RepositoryTypeOK'
      BY <1>0, <1>2, <2>1 DEF FileOpens, RepositoryTypeOK, history
    <2>3. Lone' /\ DurableWhenIdle'
      BY <1>2, <2>1 DEF FileOpens, Lone, DurableWhenIdle, history
    <2>4. PendingIsStored'
      BY <1>2, <2>1
         DEF FileOpens, PendingIsStored, history, After, Stored, ExistsGateway, KindById
    <2> QED BY <2>2, <2>3, <2>4
  <1>3. CASE FileWritten(w)
    <2>1. PICK x \in Writes : /\ x.id = w.id /\ x.data = w.data
                              /\ x.change = w.change /\ x.stage = "written"
                              /\ writes' = (writes \ {w}) \cup {x}
                              /\ IsFiniteSet(writes') /\ Cardinality(writes') <= MaxPending
      BY <1>1, <1>3 DEF FileWritten
    <2>2. RepositoryTypeOK'
      BY <1>0, <1>3, <2>1 DEF FileWritten, RepositoryTypeOK, history, Text, Torn, Writes
    <2>3. Lone' /\ DurableWhenIdle'
      BY <1>3, <2>1 DEF FileWritten, Lone, DurableWhenIdle, history, Empty, Text
    <2>4. PendingIsStored'
      BY <1>3, <2>1
         DEF FileWritten, PendingIsStored, history, After, Stored, ExistsGateway, KindById
    <2> QED BY <2>2, <2>3, <2>4
  <1>4. CASE FileCloses(w) \/ WriteFails(w)
    <2>1. /\ writes' = writes \ {w}
          /\ UNCHANGED <<gateways, stores, file>>
          /\ contested \subseteq contested' /\ contested' \subseteq Domains
          /\ overlapped' \/ (overlapped' = overlapped /\ FileCloses(w))
          /\ overlapped' \in BOOLEAN /\ failures' \in 0..MaxFailures
      <3>1. CASE FileCloses(w)
        BY <3>1 DEF FileCloses, history, RepositoryTypeOK
      <3>2. CASE WriteFails(w)
        BY <1>0, <3>2 DEF WriteFails, RepositoryTypeOK, Writes, Changes
      <3> QED BY <1>4, <3>1, <3>2
    <2>2. IsFiniteSet(writes \ {w}) /\ Cardinality(writes \ {w}) <= MaxPending
      <3>1. IsFiniteSet(writes) /\ Cardinality(writes) <= MaxPending
        BY DEF RepositoryTypeOK
      <3> QED BY <3>1, OneLess
    <2>3. RepositoryTypeOK'
      BY <2>1, <2>2 DEF RepositoryTypeOK
    <2>4. Lone' /\ DurableWhenIdle'
      BY <2>1 DEF FileCloses, Lone, DurableWhenIdle
    <2>5. PendingIsStored'
      BY <2>1 DEF PendingIsStored, After, Stored, ExistsGateway, KindById
    <2> QED BY <2>3, <2>4, <2>5
  <1> QED BY <1>2, <1>3, <1>4

\* Lemma: the invariant is about these variables.
LEMMA RepositoryLeft ==
    ASSUME RepositoryInv, UNCHANGED repositoryVars
    PROVE  RepositoryInv'
  BY DEF repositoryVars, history, RepositoryInv, RepositoryTypeOK, Lone,
         DurableWhenIdle, PendingIsStored, Stored, ExistsGateway, KindById

-----------------------------------------------------------------------------
(* The workers.                                                            *)

\* Lemma: the initial states satisfy the invariant.
LEMMA InitEstablishes == Init => IInv
  <1> SUFFICES ASSUME Init
               PROVE  IInv
    OBVIOUS
  <1> USE RepositoryAssumption DEF Init, RepositoryInit
  <1>1. NoGateways \in Snapshots /\ Absent \in Gateways
    BY DEF NoGateways, Snapshots, Absent, Gateways, Gateway, Kinds, Versions
  <1>2. RepositoryTypeOK
    <2>1. Text(NoGateways) \in [is : {"text"}, data : Snapshots]
      BY <1>1 DEF Text
    <2>2. IsFiniteSet(writes) /\ Cardinality(writes) <= MaxPending
      BY FS_EmptySet
    <2>3. /\ gateways \in Snapshots /\ stores \in 0..MaxStores /\ failures \in 0..MaxFailures
          /\ writes = {} /\ contested = {} /\ overlapped = FALSE
      BY <1>1
    <2>4. file \in [is : {"text"}, data : Snapshots] \cup {Empty, Torn}
      BY <2>1
    <2> QED BY <2>2, <2>3, <2>4 DEF RepositoryTypeOK
  <1>3. RepositoryInv
    BY <1>2 DEF RepositoryInv, Lone, DurableWhenIdle, PendingIsStored
  <1>4. TypeOK
    BY <1>1, <1>2 DEF TypeOK
  <1>5. FreshIsServed /\ WorkersAgree /\ WorkersFollowRepository
    BY DEF FreshIsServed, WorkersAgree, WorkersFollowRepository, Followed
  <1> QED BY <1>3, <1>4, <1>5 DEF IInv

\* Lemma: what the workers hold follows what it is made of.
LEMMA SameView ==
    ASSUME UNCHANGED <<table, queue>>
    PROVE  \A w, d : View(w, d)' = View(w, d)
  BY DEF View, Outcome, About, LastAbout

\* Lemma: what leaves the repository and the phases alone, and of fresh domains
\* what the workers will hold, preserves the invariant.
LEMMA SameOutcome ==
    ASSUME IInv, TypeOK', UNCHANGED <<repositoryVars, phase>>, fresh' \subseteq fresh,
           \A v \in Workers : \A d \in fresh' : View(v, d)' = View(v, d)
    PROVE  IInv'
  <1>1. RepositoryInv'
    BY RepositoryLeft DEF IInv
  <1>2. FreshIsServed' /\ WorkersAgree'
    BY DEF IInv, FreshIsServed, WorkersAgree, Live
  <1>3. WorkersFollowRepository'
    BY DEF IInv, WorkersFollowRepository, Followed, Live, Stored, ExistsGateway, KindById,
           Pending, repositoryVars, history
  <1> QED BY <1>1, <1>2, <1>3 DEF IInv

\* Lemma: a gateway that is saved, or removed, leaves the workers as they are until
\* its write ends.
LEMMA StoreKeepsWorkers ==
    ASSUME IInv, NEW k \in Kinds, NEW d \in Domains, NEW v \in Versions,
           Store(k, d, v), posts' \subseteq posts, UNCHANGED <<workerVars, fresh>>
    PROVE  IInv'
  <1> USE DEF workerVars
  <1>1. RepositoryInv'
    BY StorePreserves DEF IInv
  <1>2. TypeOK'
    BY <1>1 DEF IInv, TypeOK, RepositoryInv
  <1>3. FreshIsServed' /\ WorkersAgree'
    BY SameView DEF IInv, FreshIsServed, WorkersAgree, Live
  <1>4. WorkersFollowRepository'
    <2> SUFFICES ASSUME NEW e \in Followed', ~Pending(e)', NEW w \in Live'
                 PROVE  View(w, e)' = Stored(e)'
      BY DEF WorkersFollowRepository
    <2>1. e \in Domains /\ e # d
      BY StoreIsLocal DEF IInv, TypeOK, Followed
    <2>2. e \in Followed /\ ~Pending(e) /\ Stored(e)' = Stored(e) /\ w \in Live
      BY <2>1, StoreIsLocal DEF IInv, TypeOK, Followed, Live
    <2> QED BY <2>2, SameView DEF IInv, WorkersFollowRepository
  <1> QED BY <1>1, <1>2, <1>3, <1>4 DEF IInv

\* Lemma: an administrator's change is stored, and told to every worker.
LEMMA AdministratesPreserves ==
    ASSUME IInv, Administrates
    PROVE  IInv'
  <1> USE RepositoryAssumption, ClusterAssumption DEF SaveGateway, RemoveGateway
  <1>0. stores \in 0..MaxStores
    BY DEF IInv, TypeOK, RepositoryTypeOK
  <1>1. PICK k \in Kinds, d \in Domains, v \in {0, stores + 1} :
            Store(k, d, v) /\ UNCHANGED <<workerVars, posts, fresh>>
    BY DEF Administrates, AdminAdds, AdminUpdates, AdminDeletes, KindById, Kinds
  <1>2. v \in Versions
    BY <1>0, <1>1 DEF Store, Versions
  <1> QED BY <1>1, <1>2, StoreKeepsWorkers

\* Lemma: a posted clone is saved, or refused, or lost.
LEMMA PostsPreserve ==
    ASSUME IInv, NEW p \in posts, PostArrives(p) \/ PostFails(p)
    PROVE  IInv'
  <1>1. CASE UNCHANGED repositoryVars
    <2>1. posts' \subseteq posts /\ UNCHANGED <<workerVars, fresh>>
      BY DEF PostArrives, PostFails
    <2>2. TypeOK'
      BY <1>1, <2>1
      DEF IInv, TypeOK, RepositoryTypeOK, repositoryVars, history, workerVars
    <2> QED BY <1>1, <2>1, <2>2, SameView, SameOutcome DEF workerVars
  <1>2. CASE SaveGateway(p.kind, p.domain, p.version) /\ PostArrives(p)
    <2>1. p.kind \in Kinds /\ p.domain \in Domains /\ p.version \in Versions
      BY DEF IInv, TypeOK, Changes
    <2> QED BY <1>2, <2>1, StoreKeepsWorkers DEF SaveGateway, PostArrives
  <1> QED BY <1>1, <1>2 DEF PostArrives, PostFails

\* Lemma: a write that goes on, or fails, leaves what the repository answers.
LEMMA ProceedsPreserves ==
    ASSUME IInv, NEW w \in writes, StoreProceeds(w)
    PROVE  IInv'
  <1> USE DEF workerVars
  <1>1. RepositoryInv'
    BY WritePreserves DEF IInv, StoreProceeds
  <1>2. TypeOK'
    BY <1>1 DEF IInv, TypeOK, RepositoryInv, StoreProceeds
  <1>3. FreshIsServed' /\ WorkersAgree'
    BY SameView DEF IInv, FreshIsServed, WorkersAgree, Live, StoreProceeds
  <1>4. /\ gateways' = gateways /\ contested \subseteq contested'
        /\ \A d \in Domains \ contested' : Pending(d) => Pending(d)'
    <2>1. CASE FileOpens(w) \/ FileWritten(w)
      <3>1. PICK stage \in {"open", "written"} : Advance(w, stage)
        BY <2>1 DEF FileOpens, FileWritten
      <3>2. [w EXCEPT !.stage = stage].change = w.change
        BY DEF IInv, TypeOK, RepositoryTypeOK, Writes
      <3> QED BY <2>1, <3>1, <3>2 DEF FileOpens, FileWritten, Advance, Pending, history
    <2>2. CASE WriteFails(w)
      BY <2>2 DEF WriteFails, Pending
    <2> QED BY <2>1, <2>2 DEF StoreProceeds
  <1>5. WorkersFollowRepository'
    <2> SUFFICES ASSUME NEW e \in Followed', ~Pending(e)', NEW v \in Live'
                 PROVE  View(v, e)' = Stored(e)'
      BY DEF WorkersFollowRepository
    <2>1. Stored(e)' = Stored(e)
      BY <1>4 DEF Stored, ExistsGateway, KindById
    <2>2. e \in Followed /\ ~Pending(e) /\ v \in Live
      BY <1>4, <2>1 DEF Followed, Live, StoreProceeds, IInv, TypeOK
    <2> QED BY <2>1, <2>2, SameView DEF IInv, WorkersFollowRepository, StoreProceeds
  <1> QED BY <1>1, <1>2, <1>3, <1>5 DEF IInv

\* Lemma: the workers hear of a change when its write has ended; if the domain is
\* not contested, that is what the repository holds.
LEMMA ConcludesPreserves ==
    ASSUME IInv, NEW w \in writes, StoreConcludes(w)
    PROVE  IInv'
  <1> DEFINE c == w.change
  <1>0. /\ c \in Changes /\ c.domain \in Domains
        /\ queue \in [Workers -> Seq(Changes)] /\ fresh \subseteq Domains
    BY DEF IInv, TypeOK, RepositoryTypeOK, Writes, Changes
  <1>1. RepositoryInv'
    BY WritePreserves DEF IInv, StoreConcludes
  <1>2. /\ Live' = Live /\ UNCHANGED <<phase, snapshot, table, posts>>
        /\ gateways' = gateways /\ contested' = contested
    BY DEF StoreConcludes, Live, FileCloses, history
  <1>3. \A v \in Live : queue'[v] = Append(queue[v], c)
    BY <1>0 DEF StoreConcludes, Broadcast, Live
  <1>4. TypeOK'
    <2>1. queue' \in [Workers -> Seq(Changes)] /\ fresh' \subseteq Domains
      BY <1>0 DEF StoreConcludes, Broadcast
    <2> QED BY <1>1, <1>2, <2>1 DEF IInv, TypeOK, RepositoryInv
  <1> HIDE DEF c
  <1>5. \A v \in Live : \A d :
            View(v, d)' = IF c.domain = d /\ ~Ignored(c) THEN After(c) ELSE View(v, d)
    <2> TAKE v \in Live
    <2> TAKE d
    <2>1. queue[v] \in Seq(Changes)
      BY <1>0 DEF Live
    <2>2. Outcome(Append(queue[v], c), d, table[v][d]) =
            IF c.domain = d /\ ~Ignored(c) THEN After(c)
            ELSE Outcome(queue[v], d, table[v][d])
      BY <1>0, <2>1, SentDecides
    <2>3. View(v, d)' = Outcome(queue'[v], d, table[v][d])
      BY <1>2 DEF View, Outcome, About, LastAbout, Ignored, After
    <2> QED BY <1>3, <2>2, <2>3 DEF View
  <1>6. /\ fresh' \subseteq fresh \cup {c.domain}
        /\ ~Ignored(c) /\ c.domain \in fresh' => \A v \in Live : phase[v] = "serving"
        /\ Ignored(c) => fresh' = fresh
    BY DEF StoreConcludes, Broadcast, c
  <1>7. FreshIsServed'
    BY <1>2, <1>6 DEF IInv, FreshIsServed
  <1>8. WorkersAgree'
    BY <1>2, <1>5, <1>6 DEF IInv, WorkersAgree
  <1>9. WorkersFollowRepository'
    <2> SUFFICES ASSUME NEW e \in Followed', ~Pending(e)', NEW v \in Live
                 PROVE  View(v, e)' = Stored(e)'
      BY <1>2 DEF WorkersFollowRepository
    <2>1. Stored(e)' = Stored(e) /\ e \notin contested
      BY <1>2 DEF Stored, ExistsGateway, KindById, Followed
    <2>2. CASE e = c.domain
      <3>1. After(c) = Stored(e)
        BY <2>1, <2>2 DEF IInv, RepositoryInv, PendingIsStored, c
      <3>2. ~Ignored(c)
        BY <2>1, <3>1, RepositoryAssumption DEF Followed, Ignored, After, Gateway
      <3> QED BY <1>5, <2>1, <2>2, <3>1, <3>2
    <2>3. CASE e # c.domain
      <3>1. e \in Followed
        BY <1>6, <2>1, <2>3 DEF Followed
      <3>2. ~Pending(e)
        BY <2>3 DEF Pending, StoreConcludes, FileCloses, c
      <3> QED BY <1>5, <2>1, <2>3, <3>1, <3>2 DEF IInv, WorkersFollowRepository
    <2> QED BY <2>2, <2>3
  <1> QED BY <1>1, <1>4, <1>7, <1>8, <1>9 DEF IInv

\* Lemma: a worker that starts, while no domain is fresh.
LEMMA StartPreserves ==
    ASSUME IInv, NEW w \in Workers, ReadsFile(w) \/ Loads(w)
    PROVE  IInv'
  <1>1. phase[w] \in {"reading", "loading"} /\ UNCHANGED <<repositoryVars, posts, fresh>>
    BY DEF ReadsFile, Loads
  <1>2. fresh = {}
    BY <1>1 DEF IInv, FreshIsServed, Live
  <1>3. RepositoryInv'
    BY <1>1, RepositoryLeft DEF IInv
  <1>4. \A s \in Snapshots : /\ Read(s) \in Snapshots
                             /\ \A d \in Domains : Given(s, d) \in Gateways
    BY RepositoryAssumption
    DEF Read, Given, Gateway, Gateways, Absent, Snapshots, Kinds, Versions
  <1>5. NoGateways \in Snapshots /\ Absent \in Gateways
    BY RepositoryAssumption
    DEF NoGateways, Snapshots, Absent, Gateways, Gateway, Kinds, Versions
  <1>6. TypeOK'
    <2>1. RepositoryTypeOK'
      BY <1>3 DEF RepositoryInv
    <2>2. CASE ReadsFile(w) /\ file.is = "text"
      <3>1. file.data \in Snapshots
        BY <2>2 DEF IInv, TypeOK, RepositoryTypeOK, Empty, Torn
      <3> QED BY <1>1, <1>4, <2>1, <2>2, <3>1 DEF IInv, TypeOK, ReadsFile
    <2>3. CASE ReadsFile(w) /\ file.is # "text"
      <3>1. /\ phase' = [phase EXCEPT ![w] = "dead"]
            /\ table' = [table EXCEPT ![w] = [d \in Domains |-> Absent]]
            /\ queue' = [queue EXCEPT ![w] = <<>>] /\ snapshot' = snapshot
        BY <2>3 DEF ReadsFile
      <3> QED BY <1>1, <1>5, <2>1, <3>1 DEF IInv, TypeOK
    <2>4. CASE Loads(w)
      <3>1. \A d \in Domains : Loaded(w, d) \in Gateways
        BY <1>4 DEF IInv, TypeOK, Loaded
      <3> QED BY <1>1, <1>5, <2>1, <2>4, <3>1 DEF IInv, TypeOK, Loads
    <2> QED BY <2>2, <2>3, <2>4
  <1>7. FreshIsServed' /\ WorkersAgree' /\ WorkersFollowRepository'
    BY <1>1, <1>2 DEF FreshIsServed, WorkersAgree, WorkersFollowRepository, Followed
  <1> QED BY <1>3, <1>6, <1>7 DEF IInv

\* Lemma: a worker handles the first change of its queue.
LEMMA HandlesPreserves ==
    ASSUME IInv, NEW w \in Workers, HandlesMessage(w)
    PROVE  IInv'
  <1> DEFINE q == queue[w]
             c == Head(queue[w])
  <1>1. q \in Seq(Changes) /\ q # <<>> /\ table[w] \in [Domains -> Gateways]
    BY DEF HandlesMessage, IInv, TypeOK
  <1>2. c \in Changes /\ Tail(q) \in Seq(Changes)
    BY <1>1
  <1>3. /\ queue' = [queue EXCEPT ![w] = Tail(q)]
        /\ table' = [table EXCEPT ![w] = [table[w] EXCEPT ![c.domain] =
                       IF Ignored(c) THEN @ ELSE After(c)]]
        /\ UNCHANGED <<repositoryVars, phase, snapshot, posts, fresh>>
    BY DEF HandlesMessage
  <1>4. After(c) \in Gateways
    BY <1>2, RepositoryAssumption
    DEF After, Changes, Gateways, Gateway, Absent, Kinds, Versions
  <1>5. TypeOK'
    BY <1>1, <1>2, <1>3, <1>4 DEF IInv, TypeOK, RepositoryTypeOK, repositoryVars, history
  <1>6. ASSUME NEW v \in Workers, NEW d \in fresh
        PROVE  View(v, d)' = View(v, d)
    <2>0. d \in Domains
      BY DEF IInv, TypeOK
    <2>1. View(v, d)' = Outcome(queue'[v], d, table'[v][d])
      BY DEF View, Outcome, About, LastAbout, Ignored, After
    <2>2. CASE v # w
      BY <1>3, <2>1, <2>2 DEF View, IInv, TypeOK
    <2>3. CASE v = w
      <3>1. /\ queue'[v] = Tail(q)
            /\ table'[v][d] = IF c.domain = d /\ ~Ignored(c) THEN After(c) ELSE table[w][d]
        BY <1>1, <1>3, <2>0, <2>3 DEF IInv, TypeOK
      <3>2. Outcome(Tail(q), d, IF c.domain = d /\ ~Ignored(c) THEN After(c) ELSE table[w][d])
              = Outcome(q, d, table[w][d])
        BY <1>1, HandledAlready
      <3> QED BY <2>1, <2>3, <3>1, <3>2 DEF View
    <2> QED BY <2>2, <2>3
  <1> QED BY <1>3, <1>5, <1>6, SameOutcome

\* Lemma: a worker resolves a host, and may clone the wildcard gateway.
LEMMA ResolvesPreserves ==
    ASSUME IInv, NEW w \in Workers, NEW d \in Domains, Resolves(w, d)
    PROVE  IInv'
  <1> DEFINE g == table[w][Wildcard]
  <1>1. g \in Gateways /\ g.version # 0 /\ table[w] \in [Domains -> Gateways]
    BY ClusterAssumption DEF Resolves, IInv, TypeOK, IsThere
  <1>2. /\ table' = [table EXCEPT ![w][d] = g] /\ fresh' = fresh \ {d}
        /\ posts' = posts \cup {[domain |-> d, kind |-> g.kind, version |-> g.version]}
        /\ UNCHANGED <<repositoryVars, phase, snapshot, queue>> /\ d # Wildcard
    BY DEF Resolves
  <1>3. TypeOK'
    <2>1. RepositoryTypeOK'
      BY <1>2, RepositoryLeft DEF IInv, RepositoryInv
    <2>2. table' \in [Workers -> [Domains -> Gateways]]
      BY <1>1, <1>2 DEF IInv, TypeOK
    <2>3. /\ posts' \subseteq Changes
          /\ \A p \in posts' : p.version # 0 /\ p.domain # Wildcard
      <3> DEFINE p == [domain |-> d, kind |-> g.kind, version |-> g.version]
      <3>1. p \in Changes /\ p.version # 0 /\ p.domain # Wildcard
        BY <1>1, <1>2 DEF Changes, Gateways
      <3>2. posts' = posts \cup {p}
        BY <1>2
      <3> HIDE DEF p
      <3> QED BY <3>1, <3>2 DEF IInv, TypeOK
    <2> QED BY <1>2, <2>1, <2>2, <2>3 DEF IInv, TypeOK
  <1>4. ASSUME NEW v \in Workers, NEW e \in fresh'
        PROVE  View(v, e)' = View(v, e)
    <2>1. table'[v][e] = table[v][e] /\ queue'[v] = queue[v]
      BY <1>1, <1>2 DEF IInv, TypeOK
    <2> QED BY <2>1 DEF View, Outcome, About, LastAbout, Ignored, After
  <1> QED BY <1>2, <1>3, <1>4, SameOutcome

\* Lemma: every step preserves the invariant.
LEMMA NextPreserves == IInv /\ [Next]_vars => IInv'
  <1> SUFFICES ASSUME IInv, [Next]_vars
               PROVE  IInv'
    OBVIOUS
  <1>1. CASE Administrates
    BY <1>1, AdministratesPreserves
  <1>2. CASE \E w \in writes : StoreProceeds(w) \/ StoreConcludes(w)
    BY <1>2, ProceedsPreserves, ConcludesPreserves
  <1>3. CASE \E w \in Workers : ReadsFile(w) \/ Loads(w) \/ HandlesMessage(w)
    BY <1>3, StartPreserves, HandlesPreserves
  <1>4. CASE \E w \in Workers : \E d \in Domains : Resolves(w, d)
    BY <1>4, ResolvesPreserves
  <1>5. CASE \E p \in posts : PostArrives(p) \/ PostFails(p)
    BY <1>5, PostsPreserve
  <1>6. CASE UNCHANGED vars
    <2>1. TypeOK'
      BY <1>6 DEF IInv, TypeOK, RepositoryTypeOK, vars, repositoryVars, history, workerVars
    <2>2. \A v, d : View(v, d)' = View(v, d)
      BY <1>6, SameView DEF vars, workerVars
    <2> QED BY <1>6, <2>1, <2>2, SameOutcome DEF vars, workerVars
  <1> QED BY <1>1, <1>2, <1>3, <1>4, <1>5, <1>6 DEF Next

-----------------------------------------------------------------------------
\* Theorem: the types, the file and the tables.
THEOREM Invariance ==
    Spec => [](TypeOK /\ DurableWhenIdle /\ WorkersAgree /\ WorkersFollowRepository)
  <1>1. IInv => TypeOK /\ DurableWhenIdle /\ WorkersAgree /\ WorkersFollowRepository
    BY DEF IInv, RepositoryInv
  <1> QED
    BY InitEstablishes, NextPreserves, <1>1, PTL DEF Spec, Safety
=============================================================================
