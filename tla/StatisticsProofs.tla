-------------------------- MODULE StatisticsProofs --------------------------
(***************************************************************************)
(* What the statistics of a gateway show, for any number of processes,     *)
(* requests, statuses and timings, however the records of the processes    *)
(* interleave and whatever a broken connection loses.                      *)
(***************************************************************************)
EXTENDS Statistics, FiniteSetTheorems, TLAPS

-----------------------------------------------------------------------------
(* Numbers and sets.                                                       *)

\* Lemma: what the quotient of a division is.
LEMMA Quotient ==
    ASSUME NEW k \in Nat, NEW m \in Nat \ {0}
    PROVE  k \div m \in Nat /\ m * (k \div m) <= k /\ k < m * (k \div m) + m
  BY Z3

\* Lemma: a product grows with its factors.
LEMMA Grows ==
    ASSUME NEW a \in Nat, NEW b \in Nat, NEW n \in Nat, a <= b
    PROVE  a * n \in Nat /\ b * n \in Nat /\ a * n <= b * n
  <1>1. PICK d \in Nat : b = a + d
    <2>1. b - a \in Nat /\ b = a + (b - a)
      OBVIOUS
    <2> QED BY <2>1
  <1>2. b * n = a * n + d * n /\ d * n \in Nat /\ a * n \in Nat
    BY <1>1
  <1> QED BY <1>2

\* Lemma: a truncated mean lies between what it is the mean of, and falls behind the
\* mean by less than one for each but the first.
LEMMA AverageIs ==
    ASSUME NEW a \in Nat, NEW n \in Nat, NEW t \in Nat
    PROVE  LET q == NewAverage(a, n, t) IN
           /\ q \in Nat
           /\ t <= q \/ (n # 0 /\ a <= q)
           /\ q <= t \/ (n # 0 /\ q <= a)
           /\ (n + 1) * q <= a * n + t /\ a * n + t <= (n + 1) * q + n
  <1> DEFINE q == NewAverage(a, n, t)
             k == a * n + t
  <1>1. k \in Nat /\ n + 1 \in Nat \ {0} /\ a * n \in Nat
    OBVIOUS
  <1>2. q = k \div (n + 1)
    BY DEF NewAverage
  <1> HIDE DEF q, k
  <1>3. q \in Nat /\ (n + 1) * q <= k /\ k < (n + 1) * q + (n + 1)
    BY <1>1, <1>2, Quotient
  <1>4. (n + 1) * q = q * n + q /\ q * n \in Nat
    BY <1>3
  <1>5. k <= (n + 1) * q + n
    <2>1. (n + 1) * q \in Nat
      BY <1>3
    <2> HIDE DEF q
    <2> QED BY <1>1, <1>3, <2>1
  <1>6. n = 0 => a * n = 0 /\ q * n = 0
    BY <1>3
  <1>7. t <= q \/ (n # 0 /\ a <= q)
    <2> SUFFICES ASSUME q + 1 <= t, n # 0 => q + 1 <= a
                 PROVE  FALSE
      BY <1>3
    <2>1. CASE n = 0
      BY <1>1, <1>3, <1>4, <1>6, <2>1 DEF k
    <2>2. CASE n # 0
      <3>1. (q + 1) * n <= a * n
        BY <1>3, <2>2, Grows
      <3>2. (q + 1) * n = q * n + n
        BY <1>3
      <3> QED BY <1>1, <1>3, <1>4, <3>1, <3>2 DEF k
    <2> QED BY <2>1, <2>2
  <1>8. q <= t \/ (n # 0 /\ q <= a)
    <2> SUFFICES ASSUME t + 1 <= q, n # 0 => a + 1 <= q
                 PROVE  FALSE
      BY <1>3
    <2>1. CASE n = 0
      BY <1>1, <1>3, <1>4, <1>6, <2>1 DEF k
    <2>2. CASE n # 0
      <3>1. a * n <= q * n
        BY <1>3, <2>2, Grows
      <3> QED BY <1>1, <1>3, <1>4, <3>1 DEF k
    <2> QED BY <2>1, <2>2
  <1> QED BY <1>3, <1>5, <1>7, <1>8 DEF q, k

\* Lemma: what Max returns.
LEMMA MaxIs ==
    ASSUME NEW S \in SUBSET Nat, NEW x \in S, \A y \in S : y <= x
    PROVE  Max(S) = x
  <1>1. \E m \in S : \A y \in S : m >= y
    OBVIOUS
  <1>2. Max(S) \in S /\ \A y \in S : Max(S) >= y
    BY <1>1, Zenon DEF Max
  <1> DEFINE m == Max(S)
  <1>3. m \in Nat /\ x \in Nat /\ m <= x /\ x <= m
    BY <1>2
  <1> HIDE DEF m
  <1>4. m = x
    BY <1>3
  <1> QED BY <1>4 DEF m

\* Lemma: the size of a finite set with one element more.
LEMMA OneMore ==
    ASSUME NEW S, IsFiniteSet(S), NEW x, x \notin S
    PROVE  /\ IsFiniteSet(S \cup {x}) /\ Cardinality(S) \in Nat
           /\ Cardinality(S \cup {x}) = Cardinality(S) + 1
  BY FS_AddElement, FS_CardinalityType

-----------------------------------------------------------------------------
(* A record is saved.                                                      *)

Counted(s) == {q \in saved : q.status = s}

\* What is true of the records saved and of what is shown of them.
Shown ==
    /\ saved \subseteq Records /\ IsFiniteSet(saved) /\ spent \in Nat
    /\ stats \in [latency : Nat, req : Nat, last : 0..served, count : [Statuses -> Nat]]
    /\ CountsAddUp /\ LatencyWithinTimings /\ LastRequestOfProcess /\ LatencyDrifts

\* The record r is saved, with the average of n records that was read.
Saves(r, latency, n) ==
    /\ stats' = Updated(latency, n, r)
    /\ saved' = saved \cup {r} /\ spent' = spent + r.timing
    /\ backend' = backend

\* Lemma: the types of a record.
LEMMA RecordIs ==
    ASSUME NEW r \in Records
    PROVE  /\ r.timing \in Nat /\ r.date \in Nat \ {0}
           /\ r.by \in Processes /\ r.status \in Statuses
  <1>1. /\ r.date \in 1..MaxServed /\ r.by \in Processes /\ r.status \in Statuses
        /\ r.timing \in Timings
    BY DEF Records
  <1>2. r.timing \in Nat
    BY <1>1, StatisticsAssumption
  <1> QED BY <1>1, <1>2, StatisticsAssumption

\* Lemma: a record that is saved counts, and the latency stays within the timings,
\* whatever was read, if it was an average of records or nothing.
LEMMA SavesShown ==
    ASSUME Shown, served' \in Nat,
           NEW r \in Records, r \notin saved, r.date <= served',
           \A q \in saved : q.by = r.by => q.date < r.date,
           NEW latency \in Nat, NEW n \in Nat, n = 0 \/ Within(latency),
           backend = "memory" => latency = stats.latency /\ n = stats.req,
           Saves(r, latency, n)
    PROVE  Shown'
  <1> DEFINE average == NewAverage(latency, n, r.timing)
             t == r.timing
  <1>1. /\ t \in Nat /\ r.date \in Nat \ {0} /\ r.by \in Processes /\ r.status \in Statuses
        /\ saved \subseteq Records /\ IsFiniteSet(saved) /\ spent \in Nat
        /\ stats.req \in Nat /\ stats.latency \in Nat /\ stats.count \in [Statuses -> Nat]
    <2>1. /\ t \in Nat /\ r.date \in Nat \ {0} /\ r.by \in Processes /\ r.status \in Statuses
      BY RecordIs
    <2>2. /\ stats.req \in Nat /\ stats.latency \in Nat /\ stats.count \in [Statuses -> Nat]
      BY DEF Shown
    <2> QED BY <2>1, <2>2 DEF Shown
  <1>2. /\ saved' = saved \cup {r} /\ spent' = spent + t /\ backend' = backend
        /\ stats' = [latency |-> average, req |-> stats.req + 1, last |-> r.date,
                     count |-> [stats.count EXCEPT ![r.status] = @ + 1]]
    BY DEF Saves, Updated
  <1>3. /\ average \in Nat
        /\ t <= average \/ (n # 0 /\ latency <= average)
        /\ average <= t \/ (n # 0 /\ average <= latency)
        /\ (n + 1) * average <= latency * n + t
        /\ latency * n + t <= (n + 1) * average + n
    BY <1>1, AverageIs
  <1>4. /\ IsFiniteSet(saved') /\ Cardinality(saved) \in Nat
        /\ Cardinality(saved') = Cardinality(saved) + 1
    BY <1>1, <1>2, OneMore
  <1> HIDE DEF average
  <1>5. CountsAddUp'
    <2>1. stats'.req = Cardinality(saved')
      BY <1>2, <1>4 DEF Shown, CountsAddUp
    <2>2. ASSUME NEW s \in Statuses
          PROVE  stats'.count[s] = Cardinality({q \in saved' : q.status = s})
      <3>1. stats.count[s] = Cardinality(Counted(s)) /\ stats.count[s] \in Nat
        BY <1>1 DEF Shown, CountsAddUp, Counted
      <3>2. CASE s = r.status
        <4>1. IsFiniteSet(Counted(s)) /\ r \notin Counted(s)
          BY <1>1, FS_Subset DEF Counted
        <4>2. Cardinality(Counted(s) \cup {r}) = Cardinality(Counted(s)) + 1
          BY <4>1, OneMore
        <4>3. {q \in saved' : q.status = s} = Counted(s) \cup {r}
          BY <1>2, <3>2 DEF Counted
        <4>4. stats'.count[s] = stats.count[s] + 1
          BY <1>1, <1>2, <3>2
        <4> QED BY <3>1, <4>2, <4>3, <4>4
      <3>3. CASE s # r.status
        <4>1. {q \in saved' : q.status = s} = Counted(s)
          BY <1>2, <3>3 DEF Counted
        <4>2. stats'.count[s] = stats.count[s]
          BY <1>1, <1>2, <3>3
        <4> QED BY <3>1, <4>1, <4>2
      <3> QED BY <3>2, <3>3
    <2> QED BY <2>1, <2>2 DEF CountsAddUp
  <1>6. LatencyWithinTimings'
    <2>1. r \in saved' /\ saved \subseteq saved' /\ stats'.latency = average
      BY <1>2
    <2>2. \A q \in saved : q.timing \in Nat
      BY <1>1, StatisticsAssumption DEF Records
    <2>3. \E q \in saved' : q.timing <= average
      <3>1. CASE t <= average
        BY <2>1, <3>1
      <3>2. CASE n # 0 /\ latency <= average
        <4>1. PICK q \in saved : q.timing <= latency
          BY <3>2 DEF Within
        <4>2. q.timing <= average
          BY <1>3, <2>2, <3>2, <4>1
        <4> QED BY <2>1, <4>2
      <3> QED BY <1>3, <3>1, <3>2
    <2>4. \E q \in saved' : average <= q.timing
      <3>1. CASE average <= t
        BY <2>1, <3>1
      <3>2. CASE n # 0 /\ average <= latency
        <4>1. PICK q \in saved : latency <= q.timing
          BY <3>2 DEF Within
        <4>2. average <= q.timing
          BY <1>3, <2>2, <3>2, <4>1
        <4> QED BY <2>1, <4>2
      <3> QED BY <1>3, <3>1, <3>2
    <2> QED BY <2>1, <2>3, <2>4 DEF LatencyWithinTimings, Within
  <1>7. LastRequestOfProcess'
    <2> DEFINE S == {0} \cup {q.date : q \in {x \in saved' : x.by = r.by}}
    <2>1. r.date \in S /\ S \subseteq Nat
      BY <1>1, <1>2 DEF Records
    <2>2. \A y \in S : y <= r.date
      BY <1>1, <1>2 DEF Records
    <2> HIDE DEF S
    <2>3. Max(S) = r.date
      BY <2>1, <2>2, MaxIs
    <2> QED BY <1>1, <1>2, <2>3 DEF LastRequestOfProcess, S
  <1>8. LatencyDrifts'
    <2> DEFINE c == Cardinality(saved)
               behind == spent - c * latency
               after == spent' - (c + 1) * average
    <2> SUFFICES ASSUME backend = "memory"
                 PROVE  0 <= after /\ 2 * after <= (c + 1) * ((c + 1) - 1)
      BY <1>2, <1>4 DEF LatencyDrifts
    <2>1. n = c /\ latency = stats.latency /\ c \in Nat
      BY <1>4 DEF Shown, CountsAddUp
    <2>2. 0 <= behind /\ 2 * behind <= c * (c - 1)
      BY <2>1 DEF Shown, LatencyDrifts
    <2>3. /\ (c + 1) * average <= latency * c + t
          /\ latency * c + t <= (c + 1) * average + c
      BY <1>3, <2>1
    <2>4. (c + 1) * ((c + 1) - 1) = c * (c - 1) + 2 * c
      BY <2>1
    <2>5. c * latency = latency * c /\ latency * c \in Nat /\ (c + 1) * average \in Nat
          /\ c * (c - 1) \in Int
      BY <1>3, <2>1
    <2>6. behind \in Int /\ after = behind + ((latency * c + t) - (c + 1) * average)
      BY <1>1, <1>2, <2>5
    <2> HIDE DEF behind, after
    <2> QED BY <1>1, <2>1, <2>2, <2>3, <2>4, <2>5, <2>6
  <1>9. stats' \in [latency : Nat, req : Nat, last : 0..served', count : [Statuses -> Nat]]
    BY <1>1, <1>2, <1>3
  <1> QED BY <1>1, <1>2, <1>4, <1>5, <1>6, <1>7, <1>8, <1>9 DEF Shown

-----------------------------------------------------------------------------
(* The invariant.                                                          *)

\* Lemma: the invariant gives what is shown.
LEMMA InvShown ==
    IInv => /\ Shown /\ served \in 0..MaxServed /\ served \in Nat /\ MaxServed \in Nat
            /\ pending \subseteq [record : Records, read : BOOLEAN, latency : Nat, req : Nat]
  BY StatisticsAssumption DEF IInv, TypeOK, Shown

\* Lemma: what is shown stays when nothing is saved.
LEMMA UnsavedShown ==
    ASSUME Shown, UNCHANGED <<backend, stats, saved, spent>>, served \in Nat,
           served' \in Nat, served <= served'
    PROVE  Shown'
  <1>1. stats \in [latency : Nat, req : Nat, last : 0..served', count : [Statuses -> Nat]]
    <2>1. 0..served \subseteq 0..served'
      OBVIOUS
    <2> QED BY <2>1 DEF Shown
  <1>2. /\ CountsAddUp' = CountsAddUp /\ LatencyWithinTimings' = LatencyWithinTimings
        /\ LastRequestOfProcess' = LastRequestOfProcess /\ LatencyDrifts' = LatencyDrifts
    BY DEF CountsAddUp, LatencyWithinTimings, Within, LastRequestOfProcess, LatencyDrifts
  <1> QED BY <1>1, <1>2 DEF Shown

\* Lemma: an average of records stays one.
LEMMA WithinGrows ==
    ASSUME NEW latency, Within(latency), saved \subseteq saved'
    PROVE  Within(latency)'
  BY DEF Within

\* Lemma: a request is served; in memory its record is saved with it.
LEMMA ServesPreserves ==
    ASSUME IInv, NEW p \in Processes, NEW s \in Statuses, NEW t \in Timings,
           Serves(p, s, t)
    PROVE  IInv'
  <1> DEFINE r == [date |-> served + 1, by |-> p, status |-> s, timing |-> t]
             w == [record |-> r, read |-> FALSE, latency |-> 0, req |-> 0]
  <1>1. /\ Shown /\ served \in Nat /\ DatesInOrder /\ ReadIsOld /\ MaxServed \in Nat
        /\ pending \subseteq [record : Records, read : BOOLEAN, latency : Nat, req : Nat]
        /\ backend \in Backends /\ (backend = "memory" => pending = {})
    BY InvShown DEF IInv, TypeOK
  <1>2. /\ served' = served + 1 /\ served' \in 0..MaxServed /\ served' \in Nat
        /\ served <= served' /\ backend' = backend
    BY <1>1 DEF Serves
  <1>3. r \in Records /\ r.date = served + 1 /\ r.by = p /\ r.timing = t
    BY <1>1, <1>2 DEF Records
  <1>4. /\ \A q \in saved : q.date \in Nat /\ q.date < r.date
        /\ \A q \in pending : q.record.date \in Nat /\ q.record.date < r.date
        /\ r \notin saved
    <2>1. /\ \A q \in saved : q.date \in Nat /\ q.date <= served
          /\ \A q \in pending : q.record.date \in Nat /\ q.record.date <= served
      BY <1>1 DEF Shown, Records, DatesInOrder
    <2> HIDE DEF r
    <2> QED BY <1>1, <1>3, <2>1
  <1> HIDE DEF r
  <1>5. CASE /\ backend = "memory"
             /\ stats' = Updated(stats.latency, stats.req, r)
             /\ saved' = saved \cup {r} /\ spent' = spent + t /\ UNCHANGED pending
    <2>1. stats.latency \in Nat /\ stats.req \in Nat
      BY <1>1 DEF Shown
    <2>2. stats.req = 0 \/ Within(stats.latency)
      <3>1. stats.req = Cardinality(saved) /\ (saved # {} => Within(stats.latency))
        BY <1>1 DEF Shown, CountsAddUp, LatencyWithinTimings
      <3> QED BY <3>1, FS_EmptySet
    <2>3. Saves(r, stats.latency, stats.req)
      BY <1>2, <1>3, <1>5 DEF Saves
    <2>4. Shown'
      BY <1>1, <1>2, <1>3, <1>4, <2>1, <2>2, <2>3, SavesShown
    <2>5. TypeOK'
      BY <1>1, <1>2, <1>5, <2>4 DEF TypeOK, Shown
    <2>6. DatesInOrder'
      BY <1>1, <1>2, <1>3, <1>4, <1>5 DEF DatesInOrder
    <2>7. ReadIsOld' /\ pending' = {}
      BY <1>1, <1>5 DEF ReadIsOld
    <2> QED BY <2>4, <2>5, <2>6, <2>7 DEF IInv, Shown
  <1>6. CASE /\ backend = "redis" /\ pending' = pending \cup {w}
             /\ UNCHANGED <<stats, saved, spent>>
    <2>1. w \in [record : Records, read : BOOLEAN, latency : Nat, req : Nat]
      BY <1>3
    <2>2. w.record = r /\ w.read = FALSE
      OBVIOUS
    <2> HIDE DEF w
    <2>3. Shown'
      BY <1>1, <1>2, <1>6, UnsavedShown
    <2>4. TypeOK'
      BY <1>1, <1>2, <1>6, <2>1, <2>3 DEF TypeOK, Shown
    <2>5. DatesInOrder'
      <3>1. \A q \in saved : q.date <= served'
        BY <1>2, <1>3, <1>4
      <3>2. \A q \in pending' : q.record.date <= served'
        BY <1>2, <1>3, <1>4, <1>6, <2>2
      <3>3. \A q, x \in pending' : q.record.date = x.record.date => q = x
        BY <1>1, <1>3, <1>4, <1>6, <2>2 DEF DatesInOrder
      <3>4. \A q \in pending', x \in saved :
              /\ x.date # q.record.date
              /\ x.by = q.record.by => x.date < q.record.date
        BY <1>1, <1>3, <1>4, <1>6, <2>2 DEF DatesInOrder
      <3> QED BY <1>6, <3>1, <3>2, <3>3, <3>4 DEF DatesInOrder
    <2>6. ReadIsOld'
      BY <1>1, <1>6, <2>2 DEF ReadIsOld, Within
    <2> QED BY <1>2, <1>6, <2>3, <2>4, <2>5, <2>6 DEF IInv, Shown
  <1> QED BY <1>5, <1>6 DEF Serves, r

\* Lemma: the average and the number are read, together.
LEMMA ReadsPreserves ==
    ASSUME IInv, NEW p \in pending, Reads(p)
    PROVE  IInv'
  <1> DEFINE w == [p EXCEPT !.read = TRUE, !.latency = stats.latency, !.req = stats.req]
  <1>1. /\ Shown /\ served \in Nat /\ DatesInOrder /\ ReadIsOld
        /\ pending \subseteq [record : Records, read : BOOLEAN, latency : Nat, req : Nat]
        /\ backend \in Backends /\ (backend = "memory" => pending = {})
        /\ stats.latency \in Nat /\ stats.req \in Nat
    BY InvShown DEF IInv, TypeOK, Shown
  <1>2. /\ pending' = (pending \ {p}) \cup {w}
        /\ UNCHANGED <<backend, stats, served, saved, spent>>
    BY DEF Reads
  <1>3. /\ w \in [record : Records, read : BOOLEAN, latency : Nat, req : Nat]
        /\ w.record = p.record /\ w.latency = stats.latency /\ w.req = stats.req
    BY <1>1
  <1> HIDE DEF w
  <1>4. Shown'
    BY <1>1, <1>2, UnsavedShown
  <1>5. TypeOK'
    BY <1>1, <1>2, <1>3, <1>4, InvShown DEF TypeOK, Shown
  <1>6. DatesInOrder'
    BY <1>1, <1>2, <1>3 DEF DatesInOrder
  <1>7. ReadIsOld'
    <2>1. w.req = 0 \/ Within(w.latency)
      <3>1. stats.req = Cardinality(saved) /\ (saved # {} => Within(stats.latency))
        BY <1>1 DEF Shown, CountsAddUp, LatencyWithinTimings
      <3> QED BY <1>3, <3>1, FS_EmptySet
    <2>2. \A x : Within(x)' = Within(x)
      BY <1>2 DEF Within
    <2> QED BY <1>1, <1>2, <2>1, <2>2 DEF ReadIsOld
  <1> QED BY <1>1, <1>2, <1>4, <1>5, <1>6, <1>7 DEF IInv, Shown

\* Lemma: the record is saved, after those its process made before.
LEMMA WritesPreserves ==
    ASSUME IInv, NEW p \in pending, Writes(p)
    PROVE  IInv'
  <1>1. /\ Shown /\ served \in Nat /\ DatesInOrder /\ ReadIsOld
        /\ pending \subseteq [record : Records, read : BOOLEAN, latency : Nat, req : Nat]
        /\ backend \in Backends /\ (backend = "memory" => pending = {})
    BY InvShown DEF IInv, TypeOK
  <1>2. /\ stats' = Updated(p.latency, p.req, p.record) /\ saved' = saved \cup {p.record}
        /\ spent' = spent + p.record.timing /\ pending' = pending \ {p}
        /\ backend' = backend /\ served' = served /\ p.read
        /\ \A q \in pending : ~Earlier(q, p)
    BY DEF Writes
  <1>3. /\ p.record \in Records /\ p.latency \in Nat /\ p.req \in Nat
        /\ p.record.date <= served /\ p.record \notin saved
        /\ \A q \in saved : q.by = p.record.by => q.date < p.record.date
    BY <1>1 DEF DatesInOrder
  <1>4. p.req = 0 \/ Within(p.latency)
    BY <1>1, <1>2 DEF ReadIsOld
  <1>5. Saves(p.record, p.latency, p.req) /\ (backend = "memory" => FALSE)
    BY <1>1, <1>2 DEF Saves
  <1>6. Shown'
    BY <1>1, <1>2, <1>3, <1>4, <1>5, SavesShown
  <1>7. TypeOK'
    BY <1>1, <1>2, <1>6, InvShown DEF TypeOK, Shown
  <1>8. DatesInOrder'
    <2>1. ASSUME NEW q \in pending'
          PROVE  /\ q.record.date # p.record.date
                 /\ p.record.by = q.record.by => p.record.date < q.record.date
      <3>1. q \in pending /\ q # p /\ q.record.date # p.record.date
        BY <1>1, <1>2, <2>1 DEF DatesInOrder
      <3>2. q.record.date \in Nat /\ p.record.date \in Nat
        BY <1>1, <3>1 DEF Records
      <3> QED BY <1>2, <3>1, <3>2 DEF Earlier
    <2> QED BY <1>1, <1>2, <1>3, <2>1 DEF DatesInOrder
  <1>9. ReadIsOld'
    <2>1. \A x : Within(x) => Within(x)'
      BY <1>2, WithinGrows
    <2> QED BY <1>1, <1>2, <2>1 DEF ReadIsOld
  <1> QED BY <1>5, <1>2, <1>6, <1>7, <1>8, <1>9 DEF IInv, Shown

\* Lemma: records that are given up are not missed.
LEMMA DisconnectsPreserves ==
    ASSUME IInv, NEW by \in Processes, Disconnects(by)
    PROVE  IInv'
  <1>1. /\ Shown /\ served \in Nat /\ DatesInOrder /\ ReadIsOld
        /\ backend \in Backends /\ (backend = "memory" => pending = {})
    BY InvShown DEF IInv, TypeOK
  <1>2. /\ pending' \subseteq pending
        /\ UNCHANGED <<backend, stats, served, saved, spent>>
    BY DEF Disconnects
  <1>3. Shown'
    BY <1>1, <1>2, UnsavedShown
  <1>4. TypeOK'
    BY <1>1, <1>2, <1>3, InvShown DEF TypeOK, Shown
  <1>5. DatesInOrder'
    BY <1>1, <1>2 DEF DatesInOrder
  <1>6. ReadIsOld'
    BY <1>1, <1>2 DEF ReadIsOld, Within
  <1> QED BY <1>1, <1>2, <1>3, <1>4, <1>5, <1>6 DEF IInv, Shown

\* Lemma: the initial states satisfy the invariant.
LEMMA InitEstablishes == Init => IInv
  <1> SUFFICES ASSUME Init
               PROVE  IInv
    OBVIOUS
  <1>1. TypeOK
    BY StatisticsAssumption DEF Init, TypeOK
  <1>2. saved = {} /\ pending = {} /\ IsFiniteSet(saved) /\ Cardinality(saved) = 0
    BY FS_EmptySet DEF Init
  <1>3. CountsAddUp
    <2>1. \A s \in Statuses : {r \in saved : r.status = s} = {}
      BY <1>2
    <2> QED BY <1>2, <2>1, FS_EmptySet DEF Init, CountsAddUp
  <1>4. LatencyWithinTimings /\ LastRequestOfProcess /\ DatesInOrder /\ ReadIsOld
    BY <1>2 DEF LatencyWithinTimings, LastRequestOfProcess, DatesInOrder, ReadIsOld
  <1>5. LatencyDrifts
    BY <1>2 DEF Init, LatencyDrifts
  <1> QED BY <1>1, <1>2, <1>3, <1>4, <1>5 DEF IInv

\* Lemma: every step preserves it.
LEMMA NextPreserves == IInv /\ [Next]_vars => IInv'
  <1> SUFFICES ASSUME IInv, [Next]_vars
               PROVE  IInv'
    OBVIOUS
  <1>1. CASE UNCHANGED vars
    BY <1>1 DEF vars, IInv, TypeOK, CountsAddUp, LatencyWithinTimings, Within,
                LastRequestOfProcess, LatencyDrifts, DatesInOrder, ReadIsOld
  <1> QED BY <1>1, ServesPreserves, ReadsPreserves, WritesPreserves, DisconnectsPreserves
          DEF Next

\* What is shown of a gateway, however the records of its processes interleave and
\* whatever is lost of them: no record saved is missing from the counts, the latency is
\* one of averages of what was measured, and in memory it falls behind the mean by a
\* bounded amount; the date is that of the last record of one process.
THEOREM Invariance ==
    Spec => [](/\ TypeOK /\ CountsAddUp /\ LatencyWithinTimings
               /\ LastRequestOfProcess /\ LatencyDrifts)
  <1>1. IInv => /\ TypeOK /\ CountsAddUp /\ LatencyWithinTimings
                /\ LastRequestOfProcess /\ LatencyDrifts
    BY DEF IInv
  <1> QED BY <1>1, InitEstablishes, NextPreserves, PTL DEF Spec
=============================================================================
