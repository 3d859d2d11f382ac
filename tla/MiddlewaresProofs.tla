-------------------------- MODULE MiddlewaresProofs --------------------------
(***************************************************************************)
(* What the chains of a request call, answer, send and encode, for any     *)
(* lists of middlewares, clients and number of requests.  The invariant    *)
(* says of one request what is true of it at any stage: a step changes one *)
(* request, and leaves the others as they are.                             *)
(***************************************************************************)
EXTENDS Middlewares, FiniteSetTheorems, WellFoundedInduction, TLAPS

-----------------------------------------------------------------------------
(* Sequences, numbers and sets.                                            *)

\* Lemma: the row and the column of a place in the schedule.
LEMMA RowAndColumn ==
    ASSUME NEW n \in Nat, NEW a \in 0..(n - 1), NEW j \in 0..3
    PROVE  (j * n + a) \div n = j /\ (j * n + a) % n = a
  <1>1. CASE j = 0 BY <1>1
  <1>2. CASE j = 1 BY <1>2
  <1>3. CASE j = 2 BY <1>3
  <1>4. CASE j = 3 BY <1>4
  <1> QED BY <1>1, <1>2, <1>3, <1>4

\* Lemma: what Min returns.
LEMMA MinIs ==
    ASSUME NEW S \in SUBSET Nat, NEW x \in S, \A y \in S : x <= y
    PROVE  Min(S) = x
  <1>1. Min(S) \in S /\ \A y \in S : Min(S) <= y
    BY Zenon DEF Min
  <1> DEFINE m == Min(S)
  <1>2. m \in Nat /\ x \in Nat /\ m <= x /\ x <= m
    BY <1>1
  <1> HIDE DEF m
  <1>3. m = x
    BY <1>2
  <1> QED BY <1>3 DEF m

\* Lemma: the entry of the schedule for the position i of the hook in row j.
LEMMA ScheduleAt ==
    ASSUME NEW n \in Nat, NEW i \in 1..n, NEW j \in 0..3
    PROVE  /\ j * n + i \in 1..(4 * n)
           /\ Schedule(n)[j * n + i] = <<Hooks[j + 1], i>>
  <1> DEFINE a == i - 1
             k == j * n + i
  <1>1. a \in 0..(n - 1) /\ j * n + a = k - 1 /\ k \in 1..(4 * n)
    <2>1. CASE j = 0 BY <2>1
    <2>2. CASE j = 1 BY <2>2
    <2>3. CASE j = 2 BY <2>3
    <2>4. CASE j = 3 BY <2>4
    <2> QED BY <2>1, <2>2, <2>3, <2>4
  <1>3. (k - 1) \div n = j /\ (k - 1) % n = a
    BY <1>1, RowAndColumn, ZenonT(30)
  <1> HIDE DEF k
  <1>4. Schedule(n)[k] = <<Hooks[((k - 1) \div n) + 1], ((k - 1) % n) + 1>>
    BY <1>1 DEF Schedule
  <1>5. Schedule(n)[k] = <<Hooks[j + 1], i>>
    BY <1>3, <1>4
  <1> QED BY <1>1, <1>5 DEF k

\* Lemma: the schedule begins with the first hook of each.
LEMMA FirstRow ==
    ASSUME NEW n \in Nat, NEW i \in 1..n
    PROVE  Schedule(n)[i] = <<Hooks[1], i>>
  <1>1. PICK j \in 0..3 : j = 0
    OBVIOUS
  <1>2. Schedule(n)[j * n + i] = <<Hooks[j + 1], i>>
    BY ScheduleAt
  <1> QED BY <1>1, <1>2

\* Lemma: the schedule is a sequence of hooks and positions.
LEMMA ScheduleIsSequence ==
    ASSUME NEW n \in Nat
    PROVE  Len(Schedule(n)) = 4 * n /\ Schedule(n) \in Seq(HookNames \X Nat)
  <1>1. ASSUME NEW k \in 1..(4 * n)
        PROVE  /\ ((k - 1) \div n) \in 0..3 /\ ((k - 1) % n) \in Nat
    <2>1. PICK j \in 0..3, a \in 0..(n - 1) : k - 1 = j * n + a
      <3>1. CASE k <= n
        BY <3>1
      <3>2. CASE k > n /\ k <= 2 * n
        <4>1. k - 1 = 1 * n + (k - 1 - n) BY <3>2
        <4> QED BY <4>1, <3>2
      <3>3. CASE k > 2 * n /\ k <= 3 * n
        <4>1. k - 1 = 2 * n + (k - 1 - 2 * n) BY <3>3
        <4> QED BY <4>1, <3>3
      <3>4. CASE k > 3 * n
        <4>1. k - 1 = 3 * n + (k - 1 - 3 * n) BY <3>4
        <4> QED BY <4>1, <3>4
      <3> QED BY <3>1, <3>2, <3>3, <3>4
    <2> QED BY <2>1, RowAndColumn
  <1>2. ASSUME NEW h \in 1..4
        PROVE  Hooks[h] \in HookNames
    <2>1. CASE h = 1 BY <2>1 DEF Hooks, HookNames
    <2>2. CASE h = 2 BY <2>2 DEF Hooks, HookNames
    <2>3. CASE h = 3 BY <2>3 DEF Hooks, HookNames
    <2>4. CASE h = 4 BY <2>4 DEF Hooks, HookNames
    <2> QED BY <2>1, <2>2, <2>3, <2>4
  <1>3. \A k \in 1..(4 * n) :
          <<Hooks[((k - 1) \div n) + 1], ((k - 1) % n) + 1>> \in HookNames \X Nat
    BY <1>1, <1>2
  <1>4. Schedule(n) \in [1..(4 * n) -> HookNames \X Nat]
    BY <1>3 DEF Schedule
  <1> QED BY <1>4

\* Lemma: what makes a sequence of hooks a prefix of the schedule.
LEMMA PrefixOfSchedule ==
    ASSUME NEW n \in Nat, NEW s \in Seq(HookNames \X Nat)
    PROVE  IsPrefix(s, Schedule(n)) <=>
             Len(s) <= 4 * n /\ \A i \in 1..Len(s) : s[i] = Schedule(n)[i]
  <1> DEFINE t == Schedule(n)
  <1>1. t \in Seq(HookNames \X Nat) /\ Len(t) = 4 * n
    BY ScheduleIsSequence
  <1> HIDE DEF t
  <1>2. IsPrefix(s, t) <=> Len(s) <= Len(t) /\ \A i \in 1..Len(s) : s[i] = t[i]
    BY <1>1, SMTT(30) DEF IsPrefix
  <1> QED BY <1>1, <1>2 DEF t

\* Lemma: no hook called is a prefix of the schedule.
LEMMA NoneIsPrefix ==
    ASSUME NEW n \in Nat
    PROVE  IsPrefix(<<>>, Schedule(n))
  <1>1. PICK s \in Seq(HookNames \X Nat) : s = <<>> /\ Len(s) = 0
    <2>1. <<>> \in Seq(HookNames \X Nat) /\ Len(<<>>) = 0
      OBVIOUS
    <2> QED BY <2>1, Zenon
  <1>2. Len(s) <= 4 * n /\ \A i \in 1..Len(s) : s[i] = Schedule(n)[i]
    BY <1>1
  <1>3. IsPrefix(s, Schedule(n))
    BY <1>2, PrefixOfSchedule
  <1> QED BY <1>1, <1>3

\* Lemma: the middlewares that take part are those of the first positions.
LEMMA MembersAre ==
    ASSUME NEW l \in Seq(Listed)
    PROVE  LET known == {i \in DOMAIN l : \A j \in 1..i : l[j].type \in Known}
               n == Cardinality(known) IN
           n \in 0..Len(l) /\ known = 1..n
  <1> DEFINE known == {i \in DOMAIN l : \A j \in 1..i : l[j].type \in Known}
             S == {i \in DOMAIN l : l[i].type \notin Known}
  <1>0. DOMAIN l = 1..Len(l) /\ Len(l) \in Nat
    OBVIOUS
  <1>1. \E n \in 0..Len(l) : known = 1..n
    <2>1. CASE S = {}
      <3>1. known = 1..Len(l)
        BY <1>0, <2>1
      <3>2. Len(l) \in 0..Len(l)
        BY <1>0
      <3> HIDE DEF known
      <3> QED BY <3>1, <3>2
    <2>2. CASE S # {}
      <3>1. S \subseteq Nat
        BY <1>0
      <3>2. PICK m \in S : \A i \in S : ~ (<<i, m>> \in OpToRel(<, Nat))
        <4> HIDE DEF S
        <4> QED BY <2>2, <3>1, NatLessThanWellFounded, WFMin
      <3>3. ASSUME NEW i \in S
            PROVE  m <= i
        <4> HIDE DEF S
        <4>1. i \in Nat /\ m \in Nat
          BY <3>1
        <4>2. ~ (<<i, m>> \in OpToRel(<, Nat))
          BY <3>2
        <4> QED BY <4>1, <4>2 DEF OpToRel
      <3>4. m \in 1..Len(l) /\ l[m].type \notin Known
        BY <1>0, <3>2
      <3>5. \A i \in 1..(m - 1) : l[i].type \in Known
        BY <1>0, <3>3, <3>4
      <3>6. \A i \in 1..Len(l) : i >= m => m \in 1..i
        BY <3>4
      <3>7. known = 1..(m - 1)
        BY <1>0, <3>4, <3>5, <3>6
      <3> QED BY <3>4, <3>7
    <2> QED BY <2>1, <2>2
  <1>2. PICK n \in 0..Len(l) : known = 1..n
    BY <1>1
  <1>3. Cardinality(1..n) = n
    BY <1>2, FS_Interval
  <1> QED BY <1>2, <1>3

-----------------------------------------------------------------------------
(* The types.                                                              *)

\* Lemma: the types, taken apart.
LEMMA ListsAreTyped ==
    ASSUME TypeOK
    PROVE  /\ globals \in Seq(Listed) /\ Len(globals) \in 0..MaxLength
           /\ own \in Seq(Listed) /\ Len(own) \in 0..MaxLength
           /\ MaxLength \in Nat
           /\ \A i \in 1..Len(globals) : globals[i].type \in Known
           /\ NoRequest \notin Requests
  <1>1. globals \in GlobalLists /\ own \in OwnLists
    BY DEF TypeOK
  <1> QED BY <1>1, MiddlewaresAssumption

\* Lemma: the length of a chain, and the positions in it.
LEMMA ChainIsTyped ==
    ASSUME TypeOK, NEW r \in Requests
    PROVE  /\ chain[r] \in Seq(Listed) /\ DOMAIN chain[r] = 1..Len(chain[r])
           /\ Len(chain[r]) \in 0..(2 * MaxLength)
           /\ stage[r] \in {"new", "global"} => Len(chain[r]) <= MaxLength
           /\ at[r] \in 1..(Len(chain[r]) + 1)
  <1>1. MaxLength \in Nat
    BY ListsAreTyped
  <1>2. chain[r] \in Seq(Listed) /\ at[r] \in Nat \ {0}
    BY DEF TypeOK
  <1>3. /\ at[r] <= Len(chain[r]) + 1
        /\ Len(chain[r]) <= IF stage[r] \in {"new", "global"} THEN MaxLength
                                                            ELSE 2 * MaxLength
    BY DEF TypeOK
  <1> QED BY <1>1, <1>2, <1>3

\* Nothing of a request changes.
Kept(q) ==
    /\ chain'[q] = chain[q] /\ stage'[q] = stage[q] /\ at'[q] = at[q]
    /\ client'[q] = client[q] /\ sent'[q] = sent[q] /\ response'[q] = response[q]
    /\ reply'[q] = reply[q] /\ ran'[q] = ran[q]
    /\ \A i \in Positions : /\ accepts'[<<q, i>>] = accepts[<<q, i>>]
                             /\ transformer'[<<q, i>>] = transformer[<<q, i>>]

\* A step gives one request these values, and keeps the others.
Step(r, l, s, a, h, v, b) ==
    /\ UNCHANGED lists
    /\ chain' = [chain EXCEPT ![r] = l] /\ stage' = [stage EXCEPT ![r] = s]
    /\ at' = [at EXCEPT ![r] = a] /\ sent' = [sent EXCEPT ![r] = h]
    /\ response' = [response EXCEPT ![r] = v] /\ reply' = [reply EXCEPT ![r] = b]
    /\ \A q \in Requests \ {r} : Kept(q)
    /\ running \in {r, NoRequest} /\ running' = IF s \in Chains THEN r ELSE NoRequest

\* The values of a step have their types, and so have the functions it changes.
Fits(l, s, a, h, v, b) ==
    /\ l \in Seq(Listed) /\ s \in Chains \cup {"new", "awaiting", "ended"}
    /\ a \in 1..(Len(l) + 1) /\ h \in SUBSET {"correlation", "forwarded", "request"}
    /\ v \in Responses /\ b \in Answers
    /\ Len(l) <= IF s \in {"new", "global"} THEN MaxLength ELSE 2 * MaxLength
    /\ b # "none" <=> s = "ended"

Typed ==
    /\ client' \in [Requests -> Asked]
    /\ accepts' \in [Requests \X Positions -> SUBSET Encodings]
    /\ transformer' \in [Requests \X Positions -> Encodings \cup {Identity}]
    /\ ran' \in [Requests -> Seq(HookNames \X Nat)]

\* Lemma: a step keeps the types, if its values have them.
LEMMA StepKeepsTypes ==
    ASSUME TypeOK, NEW r \in Requests, NEW l, NEW s, NEW a, NEW h, NEW v, NEW b,
           Step(r, l, s, a, h, v, b), Fits(l, s, a, h, v, b), Typed
    PROVE  TypeOK'
  <1> USE DEF Fits, Typed
  <1>1. /\ globals' \in GlobalLists /\ own' \in OwnLists /\ updates' \in 0..MaxUpdates
        /\ running' \in Requests \cup {NoRequest}
    BY DEF TypeOK, lists, Step
  <1>2. /\ chain' \in [Requests -> Seq(Listed)]
        /\ stage' \in [Requests -> Chains \cup {"new", "awaiting", "ended"}]
        /\ sent' \in [Requests -> SUBSET {"correlation", "forwarded", "request"}]
        /\ response' \in [Requests -> Responses]
        /\ reply' \in [Requests -> Answers]
    BY DEF TypeOK, Step
  <1>3. at' \in [Requests -> Nat \ {0}]
    <2>1. a \in Nat \ {0}
      OBVIOUS
    <2> QED BY <2>1 DEF TypeOK, Step
  <1>4. ASSUME NEW q \in Requests
        PROVE  /\ stage'[q] \in Chains <=> running' = q
               /\ at'[q] <= Len(chain'[q]) + 1
               /\ Len(chain'[q]) <= IF stage'[q] \in {"new", "global"} THEN MaxLength
                                                                     ELSE 2 * MaxLength
               /\ reply'[q] # "none" <=> stage'[q] = "ended"
    <2>1. CASE q = r
      <3>1. chain'[q] = l /\ stage'[q] = s /\ at'[q] = a /\ reply'[q] = b
        BY <2>1 DEF TypeOK, Step
      <3> QED BY <2>1, <3>1, ListsAreTyped DEF Step
    <2>2. CASE q # r
      <3>1. /\ chain'[q] = chain[q] /\ stage'[q] = stage[q] /\ at'[q] = at[q]
            /\ reply'[q] = reply[q]
        BY <2>2 DEF Step, Kept
      <3>2. /\ stage[q] \in Chains <=> running = q
            /\ at[q] <= Len(chain[q]) + 1
            /\ Len(chain[q]) <= IF stage[q] \in {"new", "global"} THEN MaxLength
                                                                ELSE 2 * MaxLength
            /\ reply[q] # "none" <=> stage[q] = "ended"
        BY DEF TypeOK
      <3>3. running # q /\ running' # q
        BY <2>2, ListsAreTyped DEF Step
      <3> QED BY <3>1, <3>2, <3>3
    <2> QED BY <2>1, <2>2
  <1> QED BY <1>1, <1>2, <1>3, <1>4 DEF TypeOK

\* Lemma: the values of a step.
LEMMA StepValues ==
    ASSUME TypeOK, NEW r \in Requests, NEW l, NEW s, NEW a, NEW h, NEW v, NEW b,
           Step(r, l, s, a, h, v, b)
    PROVE  /\ chain'[r] = l /\ stage'[r] = s /\ at'[r] = a /\ sent'[r] = h
           /\ response'[r] = v /\ reply'[r] = b
  BY DEF TypeOK, Step

\* Lemma: nothing is changed by what leaves a value as it is.
LEMMA SameExcept ==
    ASSUME TypeOK, NEW r \in Requests
    PROVE  /\ chain = [chain EXCEPT ![r] = chain[r]]
           /\ stage = [stage EXCEPT ![r] = stage[r]]
           /\ at = [at EXCEPT ![r] = at[r]]
           /\ sent = [sent EXCEPT ![r] = sent[r]]
           /\ response = [response EXCEPT ![r] = response[r]]
           /\ reply = [reply EXCEPT ![r] = reply[r]]
  BY DEF TypeOK

\* Lemma: an encoder of a chain has an instance.
LEMMA EncodersAre ==
    ASSUME TypeOK, NEW r \in Requests
    PROVE  Encoders(r) \subseteq Positions
  <1>1. DOMAIN chain[r] \subseteq Positions
    BY ChainIsTyped, ListsAreTyped DEF Positions
  <1> QED BY <1>1 DEF Encoders, Members

\* Lemma: what is true of a request that a step does not concern stays true.
LEMMA KeptIsSound ==
    ASSUME TypeOK, NEW q \in Requests, Kept(q), Sound(q)
    PROVE  Sound(q)'
  <1> USE DEF Kept
  <1>1. Members(q)' = Members(q)
    BY DEF Members
  <1>2. Interceptors(q)' = Interceptors(q) /\ Encoders(q)' = Encoders(q)
    BY <1>1 DEF Interceptors, Encoders
  <1>3. Underway(q)' = Underway(q) /\ Applied(q)' = Applied(q)
    BY DEF Underway, Applied
  <1>4. \A c : Called(q, c)' = Called(q, c)
    BY <1>2 DEF Called
  <1>5. Encoders(q) \subseteq Positions
    BY EncodersAre
  <1>6. InTurn(q)'
    BY <1>1, <1>3 DEF Sound, InTurn
  <1>7. Spared(q)'
    BY <1>1, <1>2, <1>3 DEF Sound, Spared
  <1>8. Underway(q)' => Announced(q)'
    BY <1>2, <1>3, <1>4, <1>5 DEF Sound, Announced, Called
  <1> QED BY <1>6, <1>7, <1>8 DEF Sound

\* Lemma: a step that leaves its own request sound preserves the invariant.
LEMMA StepPreserves ==
    ASSUME IInv, NEW r \in Requests, NEW l, NEW s, NEW a, NEW h, NEW v, NEW b,
           Step(r, l, s, a, h, v, b), TypeOK', Sound(r)'
    PROVE  IInv'
  BY KeptIsSound DEF IInv, Step

\* Lemma: where a request is in its chain.
LEMMA Place ==
    ASSUME TypeOK, NEW r \in Requests, InTurn(r), Underway(r)
    PROVE  LET n == Cardinality(Members(r)) IN
           /\ n \in 0..Len(chain[r]) /\ Members(r) = 1..n
           /\ at[r] \in 1..(n + 1)
           /\ Holds(r) <=> at[r] <= n
  <1> DEFINE n == Cardinality(Members(r))
  <1>1. n \in 0..Len(chain[r]) /\ Members(r) = 1..n
    <2>1. chain[r] \in Seq(Listed)
      BY ChainIsTyped
    <2> QED BY <2>1, MembersAre DEF Members
  <1>2. at[r] \in 1..(n + 1)
    BY <1>1, ChainIsTyped DEF InTurn
  <1>3. ASSUME at[r] <= n
        PROVE  Holds(r)
    <2>1. at[r] \in Members(r)
      BY <1>1, <1>2, <1>3
    <2>2. at[r] \in DOMAIN chain[r] /\ chain[r][at[r]].type \in Known
      BY <1>2, <2>1 DEF Members
    <2> QED BY <2>2 DEF Holds, Current
  <1>4. ASSUME Holds(r), at[r] = n + 1
        PROVE  FALSE
    <2>1. \A i \in 1..n : chain[r][i].type \in Known
      BY <1>1 DEF Members
    <2>2. \A i \in 1..(n + 1) : chain[r][i].type \in Known
      BY <1>1, <1>4, <2>1 DEF Holds, Current
    <2>3. at[r] \in Members(r)
      BY <1>4, <2>2 DEF Members, Holds
    <2> QED BY <1>1, <1>4, <2>3
  <1> QED BY <1>1, <1>2, <1>3, <1>4

\* Lemma: a request whose chain is through has called the hook of every member.
LEMMA ThroughIsLast ==
    ASSUME TypeOK, NEW r \in Requests, InTurn(r), NEW c \in Chains, Through(r, c)
    PROVE  /\ stage[r] = c /\ running = r /\ Underway(r)
           /\ at[r] = Cardinality(Members(r)) + 1
  <1>1. stage[r] = c /\ running = r /\ Underway(r)
    BY DEF Through, Underway, Chains
  <1> QED BY <1>1, Place DEF Through

-----------------------------------------------------------------------------
(* The hooks.                                                              *)

\* Lemma: the hook that is called is the next one of the schedule.
LEMMA CallsKeepTurn ==
    ASSUME TypeOK, TypeOK', NEW r \in Requests, InTurn(r), NEW c \in Chains, Calls(r, c),
           chain'[r] = chain[r],
           \/ stage'[r] = c /\ at'[r] = at[r] + 1
           \/ stage'[r] = "ended" /\ reply'[r] # "upstream"
    PROVE  InTurn(r)'
  <1> DEFINE n == Cardinality(Members(r))
             k == Row[c] * n + at[r]
             e == <<Hook[c], at[r]>>
  <1>1. Underway(r) /\ stage[r] = c
    BY DEF Calls, Underway, Chains
  <1>2. /\ n \in 0..Len(chain[r]) /\ n \in Nat /\ Members(r) = 1..n /\ at[r] \in 1..n
        /\ DOMAIN chain[r] = 1..Len(chain[r])
    <2>1. Holds(r) /\ Len(chain[r]) \in Nat
      BY ChainIsTyped DEF Calls
    <2> QED BY <1>1, <2>1, Place, ChainIsTyped
  <1>3. Row[c] \in 0..3 /\ Hooks[Row[c] + 1] = Hook[c]
    BY DEF Row, Hooks, Hook, Chains
  <1>4. k \in 1..(4 * n) /\ Schedule(n)[k] = e
    BY <1>2, <1>3, ScheduleAt
  <1>5. ran[r] \in Seq(HookNames \X Nat) /\ ran'[r] = Append(ran[r], e)
    BY DEF TypeOK, Calls
  <1>6. ran'[r] \in Seq(HookNames \X Nat)
    BY DEF TypeOK
  <1>7. Len(ran[r]) = k - 1 /\ Row[c] * n \in Nat
    <2>1. Len(ran[r]) = Row[c] * n + at[r] - 1
      BY <1>1 DEF InTurn
    <2>2. CASE Row[c] = 0 BY <1>2, <2>1, <2>2
    <2>3. CASE Row[c] = 1 BY <1>2, <2>1, <2>3
    <2>4. CASE Row[c] = 2 BY <1>2, <2>1, <2>4
    <2>5. CASE Row[c] = 3 BY <1>2, <2>1, <2>5
    <2> QED BY <1>3, <2>2, <2>3, <2>4, <2>5
  <1>8. IsPrefix(ran[r], Schedule(n))
    BY DEF InTurn
  <1>9. Members(r)' = Members(r)
    BY DEF Members
  <1> HIDE DEF n, k, e
  <1>10. IsPrefix(ran'[r], Schedule(n))
    <2>1. /\ Len(ran'[r]) = k /\ ran'[r][k] = e
          /\ \A i \in 1..(k - 1) : ran'[r][i] = ran[r][i]
      BY <1>4, <1>5, <1>7
    <2>2. \A i \in 1..(k - 1) : ran[r][i] = Schedule(n)[i]
      BY <1>2, <1>5, <1>7, <1>8, PrefixOfSchedule
    <2>3. Len(ran'[r]) <= 4 * n /\ \A i \in 1..Len(ran'[r]) : ran'[r][i] = Schedule(n)[i]
      BY <1>4, <2>1, <2>2
    <2> QED BY <1>2, <1>6, <2>3, PrefixOfSchedule
  <1>11. stage'[r] = c => at'[r] <= n + 1 /\ Len(ran'[r]) = Row[c] * n + at'[r] - 1
    <2> SUFFICES ASSUME stage'[r] = c
                 PROVE  at'[r] <= n + 1 /\ Len(ran'[r]) = Row[c] * n + at'[r] - 1
      OBVIOUS
    <2>1. at'[r] = at[r] + 1
      BY DEF Chains
    <2>2. Len(ran'[r]) = k /\ k \in Nat
      BY <1>4, <1>5, <1>7
    <2>3. k = Row[c] * n + at[r]
      BY DEF k
    <2> QED BY <1>2, <1>7, <2>1, <2>2, <2>3
  <1>12. /\ stage'[r] \notin {"new", "awaiting"} /\ (stage'[r] = "ended" => ~Underway(r)')
         /\ stage'[r] = "global" => stage[r] = "global"
    BY <1>1 DEF Chains, Underway
  <1>13. stage'[r] # c => ~Underway(r)'
    BY <1>12
  <1> QED BY <1>9, <1>10, <1>11, <1>12, <1>13 DEF InTurn, n, Chains

\* Lemma: the status a middleware answers with is not about the correlation header.
LEMMA StatusIgnoresCorrelation ==
    ASSUME NEW m, NEW x \in Asked, NEW y \in Asked, NEW z \in BOOLEAN,
           y = [x EXCEPT !.correlated = z]
    PROVE  Status(m, y) = Status(m, x) /\ y.accepts = x.accepts /\ y.correlated = z
  <1>1. /\ y.accepts = x.accepts /\ y.correlated = z /\ y.path = x.path
        /\ y.method = x.method /\ y.pathnameEnds = x.pathnameEnds
        /\ y.pathEnds = x.pathEnds /\ y.pathContains = x.pathContains
    BY DEF Asked
  <1>2. \A f : Valid(f, y) = Valid(f, x)
    BY <1>1 DEF Valid
  <1> QED BY <1>1, <1>2 DEF Status, Redirects

\* Lemma: a hook of the first chain calls next, or answers the request.
LEMMA OnProxyRequestPreserves ==
    ASSUME IInv, NEW r \in Requests, NEW c \in Chains, OnProxyRequest(r, c)
    PROVE  IInv'
  <1> DEFINE m == Current(r)
             x == Status(m, client[r])
  <1>1. TypeOK /\ Sound(r) /\ InTurn(r) /\ Spared(r)
    BY DEF IInv, Sound
  <1>2. /\ c \in {"global", "own"} /\ stage[r] = c /\ running = r /\ Underway(r)
        /\ Calls(r, c) /\ Announced(r)
    BY <1>1 DEF OnProxyRequest, Calls, Underway, Chains, Sound
  <1>3. /\ chain[r] \in Seq(Listed) /\ at[r] \in 1..Len(chain[r])
        /\ m = chain[r][at[r]] /\ m \in Listed /\ <<r, at[r]>> \in Requests \X Positions
    <2>1. at[r] \in DOMAIN chain[r]
      BY DEF OnProxyRequest, Calls, Holds
    <2> QED BY <1>1, <2>1, ChainIsTyped, ListsAreTyped DEF Current, Positions
  <1>4. client[r] \in Asked /\ Correlated(m, client[r]) \in BOOLEAN
    BY <1>1 DEF TypeOK, Asked, Correlated
  <1>5. /\ client' \in [Requests -> Asked]
        /\ client'[r] = [client[r] EXCEPT !.correlated = Correlated(m, client[r])]
        /\ \A q \in Requests : q # r => client'[q] = client[q]
    <2>1. client' = [client EXCEPT ![r].correlated = Correlated(m, client[r])]
      BY DEF OnProxyRequest
    <2>2. [client[r] EXCEPT !.correlated = Correlated(m, client[r])] \in Asked
      BY <1>4 DEF Asked
    <2> QED BY <1>1, <2>1, <2>2 DEF TypeOK
  <1>6. /\ \A j : Status(j, client'[r]) = Status(j, client[r])
        /\ client'[r].accepts = client[r].accepts
        /\ client'[r].correlated = Correlated(m, client[r])
    <2>1. client'[r] \in Asked
      BY <1>5
    <2> QED BY <1>4, <1>5, <2>1, StatusIgnoresCorrelation
  <1>7. /\ accepts' \in [Requests \X Positions -> SUBSET Encodings]
        /\ \A i \in Positions : accepts'[<<r, i>>] =
             IF i = at[r] /\ m.type = "ContentEncoding" THEN client[r].accepts
             ELSE accepts[<<r, i>>]
        /\ \A q \in Requests, i \in Positions :
             q # r => accepts'[<<q, i>>] = accepts[<<q, i>>]
    <2>1. accepts' = [accepts EXCEPT ![<<r, at[r]>>] =
                        IF m.type = "ContentEncoding" THEN client[r].accepts ELSE @]
      BY DEF OnProxyRequest, Instance
    <2>2. client[r].accepts \in SUBSET Encodings
      BY <1>4 DEF Asked
    <2> QED BY <1>1, <1>3, <2>1, <2>2 DEF TypeOK
  <1>8. /\ ran' \in [Requests -> Seq(HookNames \X Nat)]
        /\ \A q \in Requests : q # r => ran'[q] = ran[q]
    <2>1. <<Hook[c], at[r]>> \in HookNames \X Nat
      BY <1>2, <1>3 DEF Hook, HookNames
    <2> QED BY <1>1, <1>2, <2>1 DEF TypeOK, Calls
  <1>9. /\ chain = [chain EXCEPT ![r] = chain[r]] /\ stage = [stage EXCEPT ![r] = c]
        /\ at = [at EXCEPT ![r] = at[r]] /\ sent = [sent EXCEPT ![r] = sent[r]]
        /\ response = [response EXCEPT ![r] = response[r]]
        /\ reply = [reply EXCEPT ![r] = reply[r]]
    BY <1>1, <1>2, SameExcept
  <1>10. /\ UNCHANGED <<lists, chain, sent, transformer, response>>
         /\ IF x = "none" THEN GoesOn(r) /\ UNCHANGED reply ELSE Answered(r, x)
    BY DEF OnProxyRequest, lists
  <1> HIDE DEF m, x
  <1>11. ASSUME NEW q \in Requests, q # r, NEW s, stage' = [stage EXCEPT ![r] = s],
                at'[q] = at[q], reply'[q] = reply[q]
         PROVE  Kept(q)
    <2>1. stage'[q] = stage[q]
      BY <1>1, <1>11 DEF TypeOK
    <2> QED BY <1>5, <1>7, <1>8, <1>10, <1>11, <2>1 DEF Kept
  <1>12. /\ Members(r)' = Members(r) /\ Interceptors(r)' = Interceptors(r)
         /\ Encoders(r)' = Encoders(r) /\ Applied(r)' = Applied(r)
    BY <1>6, <1>10 DEF Members, Interceptors, Encoders, Applied
  <1>13. LET n == Cardinality(Members(r)) IN
         n \in 0..Len(chain[r]) /\ Members(r) = 1..n /\ at[r] \in 1..n
    <2>1. Holds(r)
      BY <1>2 DEF Calls
    <2> QED BY <1>1, <1>2, <2>1, Place
  <1>14. CASE x = "none"
    <2>1. Step(r, chain[r], c, at[r] + 1, sent[r], response[r], reply[r])
      <3>1. /\ stage' = [stage EXCEPT ![r] = c] /\ at' = [at EXCEPT ![r] = at[r] + 1]
            /\ reply' = reply /\ running' = running
        BY <1>9, <1>10, <1>14 DEF GoesOn
      <3>2. \A q \in Requests \ {r} : Kept(q)
        BY <1>1, <1>11, <3>1 DEF TypeOK
      <3> QED BY <1>2, <1>9, <1>10, <3>1, <3>2 DEF Step, Chains
    <2>2. /\ stage'[r] = c /\ at'[r] = at[r] + 1 /\ sent'[r] = sent[r]
          /\ response'[r] = response[r] /\ chain'[r] = chain[r]
      BY <1>1, <2>1, StepValues
    <2>3. TypeOK'
      <3>1. /\ response[r] \in Responses /\ reply[r] \in Answers /\ reply[r] = "none"
            /\ sent[r] \in SUBSET {"correlation", "forwarded", "request"}
            /\ Len(chain[r]) <= IF c \in {"new", "global"} THEN MaxLength ELSE 2 * MaxLength
        BY <1>1, <1>2 DEF TypeOK
      <3>2. transformer' \in [Requests \X Positions -> Encodings \cup {Identity}]
        BY <1>1, <1>10 DEF TypeOK
      <3>3. c \in Chains \cup {"new", "awaiting", "ended"} /\ c # "ended"
        BY <1>2 DEF Chains
      <3>4. at[r] + 1 \in 1..(Len(chain[r]) + 1)
        BY <1>3
      <3>5. Fits(chain[r], c, at[r] + 1, sent[r], response[r], reply[r])
        BY <1>3, <3>1, <3>3, <3>4 DEF Fits
      <3>6. Typed
        BY <1>5, <1>7, <1>8, <3>2 DEF Typed
      <3> QED BY <1>1, <2>1, <3>5, <3>6, StepKeepsTypes
    <2>4. InTurn(r)'
      BY <1>1, <1>2, <2>2, <2>3, CallsKeepTurn
    <2>5. Spared(r)'
      <3>1. ASSUME NEW i \in 1..at[r]
            PROVE  /\ Status(chain[r][i], client[r]) = "none"
                   /\ chain[r][i].type = "CorrelationId" => client'[r].correlated
        <4>1. CASE i \in 1..(at[r] - 1)
          <5>1. /\ Status(chain[r][i], client[r]) = "none"
                /\ chain[r][i].type = "CorrelationId" => client[r].correlated
            BY <1>1, <1>2, <4>1 DEF Spared, Begins
          <5> QED BY <1>6, <5>1 DEF Correlated
        <4>2. CASE i = at[r]
          <5>1. chain[r][i] = m
            BY <1>3, <4>2
          <5>2. Status(chain[r][i], client[r]) = "none"
            BY <1>14, <5>1 DEF x
          <5>3. m.type = "CorrelationId" => client'[r].correlated
            BY <1>6 DEF Correlated
          <5> QED BY <5>1, <5>2, <5>3
        <4> QED BY <1>3, <4>1, <4>2
      <3>3. sent[r] = {}
        BY <1>1, <1>2 DEF Spared, Begins
      <3>4. stage'[r] \in Begins /\ Underway(r)' /\ sent'[r] = {}
        BY <1>2, <2>2, <3>3 DEF Begins, Underway
      <3>5. \A i \in 1..(at'[r] - 1) :
              /\ Status(chain'[r][i], client'[r]) = "none"
              /\ chain'[r][i].type = "CorrelationId" => client'[r].correlated
        <4>1. at'[r] - 1 = at[r]
          BY <1>3, <2>2
        <4> QED BY <1>6, <2>2, <3>1, <4>1
      <3>6. /\ stage'[r] \in Begins => sent'[r] = {} /\ \A i \in 1..(at'[r] - 1) :
                 /\ Status(chain'[r][i], client'[r]) = "none"
                 /\ chain'[r][i].type = "CorrelationId" => client'[r].correlated
            /\ stage'[r] # "preProxy" /\ "request" \notin sent'[r]
        BY <1>2, <2>2, <3>4, <3>5
      <3> HIDE DEF Begins
      <3> QED BY <3>4, <3>6 DEF Spared
    <2>6. Announced(r)'
      <3>1. /\ Called(r, "global")' \subseteq Called(r, "global") \cup {at[r]}
            /\ m.type # "ContentEncoding" => at[r] \notin Encoders(r)
            /\ Called(r, "postProxy")' = {} /\ Called(r, "postProxy") = {}
            /\ Called(r, "post")' = {} /\ Called(r, "post") = {}
        BY <1>2, <1>3, <1>12, <1>13, <2>2, SMTT(30) DEF Called, Encoders, Row
      <3>2. Encoders(r) \subseteq Positions
        BY <1>1, EncodersAre
      <3>3. \A i \in Called(r, "global")' : accepts'[<<r, i>>] = client'[r].accepts
        BY <1>2, <1>6, <1>7, <1>12, <3>1, <3>2 DEF Announced, Called
      <3> QED BY <1>2, <1>10, <1>12, <2>2, <3>1, <3>3 DEF Announced, Row
    <2> QED BY <2>1, <2>3, <2>4, <2>5, <2>6, StepPreserves DEF Sound
  <1>15. CASE x # "none"
    <2>1. Step(r, chain[r], "ended", at[r], sent[r], response[r], x)
      <3>1. /\ stage' = [stage EXCEPT ![r] = "ended"] /\ at' = at
            /\ reply' = [reply EXCEPT ![r] = x] /\ running' = NoRequest
        BY <1>10, <1>15 DEF Answered
      <3>2. \A q \in Requests \ {r} : Kept(q)
        BY <1>1, <1>11, <3>1 DEF TypeOK
      <3> QED BY <1>2, <1>9, <1>10, <3>1, <3>2 DEF Step, Chains
    <2>2. /\ stage'[r] = "ended" /\ at'[r] = at[r] /\ sent'[r] = sent[r]
          /\ response'[r] = response[r] /\ chain'[r] = chain[r] /\ reply'[r] = x
      BY <1>1, <2>1, StepValues
    <2>3. x \in Statuses
      BY <1>3, <1>15, MiddlewaresAssumption DEF Status, Statuses, x
    <2>4. TypeOK'
      <3>1. /\ response[r] \in Responses
            /\ sent[r] \in SUBSET {"correlation", "forwarded", "request"}
        BY <1>1 DEF TypeOK
      <3>4. at[r] \in 1..(Len(chain[r]) + 1) /\ Len(chain[r]) <= 2 * MaxLength
        BY <1>1, ChainIsTyped, ListsAreTyped
      <3>2. transformer' \in [Requests \X Positions -> Encodings \cup {Identity}]
        BY <1>1, <1>10 DEF TypeOK
      <3>3. x \in Answers /\ x # "none"
        BY <1>15, <2>3 DEF Answers
      <3>5. Fits(chain[r], "ended", at[r], sent[r], response[r], x)
        BY <1>3, <3>1, <3>3, <3>4 DEF Fits
      <3>6. Typed
        BY <1>5, <1>7, <1>8, <3>2 DEF Typed
      <3> QED BY <1>1, <2>1, <3>5, <3>6, StepKeepsTypes
    <2>5. InTurn(r)'
      BY <1>1, <1>2, <2>2, <2>3, <2>4, CallsKeepTurn DEF Statuses
    <2>6. Spared(r)'
      <3>1. \A i \in 1..(at[r] - 1) : Status(chain[r][i], client[r]) = "none"
        BY <1>1, <1>2 DEF Spared, Begins
      <3>2. at[r] \in Interceptors(r) /\ Interceptors(r) \subseteq Nat
        BY <1>3, <1>13, <1>15 DEF Interceptors, x
      <3>3. \A i \in Interceptors(r) : at[r] <= i
        BY <1>3, <1>13, <3>1 DEF Interceptors
      <3>4. Min(Interceptors(r)) = at[r]
        BY <3>2, <3>3, MinIs
      <3>5. sent[r] = {}
        BY <1>1, <1>2 DEF Spared, Begins
      <3> QED BY <1>3, <1>6, <1>12, <2>2, <2>3, <3>4, <3>5
              DEF Spared, Begins, Underway, Statuses, x
    <2>7. ~Underway(r)'
      BY <2>2, <2>3 DEF Underway, Statuses
    <2> QED BY <2>1, <2>4, <2>5, <2>6, <2>7, StepPreserves DEF Sound
  <1> QED BY <1>14, <1>15

-----------------------------------------------------------------------------
(* The stages.                                                             *)

\* A step that calls no hook.
Moves(r, l, s, a, h, v, b) ==
    /\ UNCHANGED <<lists, client, encoders, ran>>
    /\ chain' = [chain EXCEPT ![r] = l] /\ stage' = [stage EXCEPT ![r] = s]
    /\ at' = [at EXCEPT ![r] = a] /\ sent' = [sent EXCEPT ![r] = h]
    /\ response' = [response EXCEPT ![r] = v] /\ reply' = [reply EXCEPT ![r] = b]
    /\ running \in {r, NoRequest} /\ running' = IF s \in Chains THEN r ELSE NoRequest

\* Lemma: what holds of such a step.
LEMMA MovesAreSteps ==
    ASSUME TypeOK, NEW r \in Requests, NEW l, NEW s, NEW a, NEW h, NEW v, NEW b,
           Moves(r, l, s, a, h, v, b), Fits(l, s, a, h, v, b)
    PROVE  /\ Step(r, l, s, a, h, v, b) /\ TypeOK'
           /\ chain'[r] = l /\ stage'[r] = s /\ at'[r] = a /\ sent'[r] = h
           /\ response'[r] = v /\ reply'[r] = b
           /\ client' = client /\ accepts' = accepts /\ transformer' = transformer
           /\ ran' = ran
  <1>1. client' = client /\ accepts' = accepts /\ transformer' = transformer /\ ran' = ran
    BY DEF Moves, encoders
  <1>2. ASSUME NEW q \in Requests \ {r}
        PROVE  Kept(q)
    BY <1>1 DEF Moves, Kept, TypeOK
  <1>3. Step(r, l, s, a, h, v, b)
    BY <1>2 DEF Moves, Step
  <1>4. Typed
    BY <1>1 DEF TypeOK, Typed
  <1>5. TypeOK'
    BY <1>3, <1>4, StepKeepsTypes
  <1> QED BY <1>1, <1>3, <1>5, StepValues

\* Lemma: the types of the values of a request.
LEMMA RequestIsTyped ==
    ASSUME TypeOK, NEW r \in Requests
    PROVE  /\ sent[r] \in SUBSET {"correlation", "forwarded", "request"}
           /\ response[r] \in Responses /\ reply[r] \in Answers /\ client[r] \in Asked
           /\ reply[r] # "none" <=> stage[r] = "ended"
           /\ stage[r] \in Chains <=> running = r
           /\ stage[r] \in Chains \cup {"new", "awaiting", "ended"}
           /\ ran[r] \in Seq(HookNames \X Nat)
  BY DEF TypeOK

\* Lemma: a chain that is through is followed by the one of the next row, or waits.
LEMMA NextRow ==
    ASSUME TypeOK, NEW r \in Requests, InTurn(r), NEW n, n = Cardinality(Members(r)),
           n \in Nat, at[r] = n + 1, Underway(r),
           chain'[r] = chain[r], ran' = ran, NEW s, stage'[r] = s,
           \/ s \in {"preProxy", "postProxy", "post"} /\ at'[r] = 1
              /\ Row[s] = Row[stage[r]] + 1
           \/ s \in {"awaiting", "ended"} /\ at'[r] = at[r] /\ Row[s] = Row[stage[r]]
           \/ s = "ended" /\ reply'[r] # "upstream"
    PROVE  InTurn(r)'
  <1>1. Members(r)' = Members(r)
    BY DEF Members
  <1>2. Row[stage[r]] \in 0..3
    BY RequestIsTyped DEF Row, Chains
  <1>3. Len(ran[r]) = Row[stage[r]] * n + n
    <2>1. Len(ran[r]) = Row[stage[r]] * n + at[r] - 1
      BY DEF InTurn
    <2>2. CASE Row[stage[r]] = 0 BY <2>1, <2>2
    <2>3. CASE Row[stage[r]] = 1 BY <2>1, <2>3
    <2>4. CASE Row[stage[r]] = 2 BY <2>1, <2>4
    <2>5. CASE Row[stage[r]] = 3 BY <2>1, <2>5
    <2> QED BY <1>2, <2>2, <2>3, <2>4, <2>5
  <1>4. ASSUME Underway(r)'
        PROVE  /\ at'[r] <= n + 1 /\ Len(ran'[r]) = Row[s] * n + at'[r] - 1
               /\ s \in {"awaiting", "ended"} => at'[r] = n + 1
    <2>1. CASE s \in {"preProxy", "postProxy", "post"} /\ at'[r] = 1
               /\ Row[s] = Row[stage[r]] + 1
      <3>1. CASE Row[stage[r]] = 0 BY <1>3, <2>1, <3>1
      <3>2. CASE Row[stage[r]] = 1 BY <1>3, <2>1, <3>2
      <3>3. CASE Row[stage[r]] = 2 BY <1>3, <2>1, <3>3
      <3>4. CASE Row[stage[r]] = 3 BY <1>3, <2>1, <3>4
      <3> QED BY <1>2, <3>1, <3>2, <3>3, <3>4
    <2>2. CASE s \in {"awaiting", "ended"} /\ at'[r] = at[r] /\ Row[s] = Row[stage[r]]
      <3>1. CASE Row[stage[r]] = 0 BY <1>3, <2>2, <3>1
      <3>2. CASE Row[stage[r]] = 1 BY <1>3, <2>2, <3>2
      <3>3. CASE Row[stage[r]] = 2 BY <1>3, <2>2, <3>3
      <3>4. CASE Row[stage[r]] = 3 BY <1>3, <2>2, <3>4
      <3> QED BY <1>2, <3>1, <3>2, <3>3, <3>4
    <2> QED BY <1>4, <2>1, <2>2 DEF Underway
  <1>5. IsPrefix(ran'[r], Schedule(n)) /\ s # "new" /\ s # "global"
    BY DEF InTurn
  <1> QED BY <1>1, <1>4, <1>5 DEF InTurn

\* Lemma: the list of the gateway is appended, and the request is at its first position.
LEMMA EntersGatewayPreserves ==
    ASSUME IInv, NEW r \in Requests, EntersGateway(r)
    PROVE  IInv'
  <1> DEFINE n == Cardinality(Members(r))
             m == Cardinality(Members(r)')
             l == chain[r] \o own
  <1>1. TypeOK /\ InTurn(r) /\ Spared(r) /\ Sound(r)
    BY DEF IInv, Sound
  <1>2. /\ stage[r] = "global" /\ running = r /\ Underway(r) /\ at[r] = n + 1
        /\ Announced(r)
    BY <1>1, ThroughIsLast DEF EntersGateway, Chains, Sound
  <1>3. /\ n = Len(chain[r]) /\ Members(r) = 1..n /\ n \in Nat /\ chain[r] \in Seq(Listed)
        /\ n <= MaxLength /\ DOMAIN chain[r] = 1..n
    <2>1. /\ chain[r] \in Seq(Listed) /\ DOMAIN chain[r] = 1..Len(chain[r])
          /\ Len(chain[r]) \in Nat /\ Len(chain[r]) <= MaxLength
      BY <1>1, <1>2, ChainIsTyped, ListsAreTyped
    <2>2. Members(r) = 1..Len(chain[r])
      BY <1>1, <1>2, <2>1 DEF InTurn
    <2>3. Cardinality(1..Len(chain[r])) = Len(chain[r])
      BY <2>1, FS_Interval
    <2> QED BY <2>1, <2>2, <2>3
  <1>4. /\ l \in Seq(Listed) /\ Len(l) = n + Len(own) /\ Len(own) \in 0..MaxLength
        /\ MaxLength \in Nat /\ \A i \in 1..n : l[i] = chain[r][i]
    BY <1>1, <1>3, ListsAreTyped
  <1> HIDE DEF n, l
  <1>5. Moves(r, l, "own", n + 1, sent[r], response[r], reply[r])
    BY <1>1, <1>2, <1>3, SameExcept DEF EntersGateway, Starts, Moves, Chains, l
  <1>6. Fits(l, "own", n + 1, sent[r], response[r], reply[r])
    <2>1. reply[r] = "none"
      BY <1>1, <1>2, RequestIsTyped
    <2>2. Len(l) <= 2 * MaxLength /\ n + 1 \in 1..(Len(l) + 1)
      BY <1>3, <1>4
    <2> QED BY <1>1, <1>4, <2>1, <2>2, RequestIsTyped DEF Fits, Chains
  <1>7. /\ Step(r, l, "own", n + 1, sent[r], response[r], reply[r]) /\ TypeOK'
        /\ chain'[r] = l /\ stage'[r] = "own" /\ at'[r] = n + 1 /\ sent'[r] = sent[r]
        /\ response'[r] = response[r] /\ client' = client
        /\ accepts' = accepts /\ transformer' = transformer /\ ran' = ran
    BY <1>1, <1>5, <1>6, MovesAreSteps
  <1>8. /\ Members(r)' = 1..m /\ m \in Nat /\ n <= m
    <2>1. m \in 0..Len(chain'[r]) /\ Members(r)' = 1..m
      <3>1. chain'[r] \in Seq(Listed)
        BY <1>4, <1>7
      <3> QED BY <3>1, MembersAre, SMTT(30) DEF Members
    <2>2. ASSUME n \in Nat \ {0}
          PROVE  n \in Members(r)'
      <3>1. \A i \in 1..n : l[i].type \in Known
        BY <1>3, <1>4 DEF Members
      <3>2. n \in DOMAIN l
        BY <1>4, <2>2
      <3> QED BY <1>7, <3>1, <3>2 DEF Members
    <2>3. Len(chain'[r]) \in Nat
      BY <1>3, <1>4, <1>7
    <2> HIDE DEF m
    <2>4. m \in Nat
      BY <2>1, <2>3
    <2>5. CASE n = 0
      BY <2>1, <2>4, <2>5
    <2>6. CASE n # 0
      <3>1. n \in 1..m
        BY <1>3, <2>1, <2>2, <2>6
      <3> QED BY <1>3, <2>1, <2>4, <3>1
    <2> QED BY <2>5, <2>6
  <1>9. InTurn(r)'
    <2>1. Len(ran[r]) = n /\ \A i \in 1..n : ran[r][i] = <<Hooks[1], i>>
      <3>1. Len(ran[r]) = n /\ ran[r] \in Seq(HookNames \X Nat)
        <4>1. Len(ran[r]) = Row[stage[r]] * n + at[r] - 1
          BY <1>1, <1>2 DEF InTurn, n
        <4>2. Row[stage[r]] * n = 0
          BY <1>2, <1>3 DEF Row
        <4> QED BY <1>1, <1>2, <1>3, <4>1, <4>2, RequestIsTyped
      <3>2. \A i \in 1..n : ran[r][i] = Schedule(n)[i]
        <4>1. IsPrefix(ran[r], Schedule(n))
          BY <1>1 DEF InTurn, n
        <4> QED BY <1>3, <3>1, <4>1, PrefixOfSchedule
      <3>3. ASSUME NEW i \in 1..n
            PROVE  Schedule(n)[i] = <<Hooks[1], i>>
        BY <1>3, FirstRow
      <3> QED BY <1>3, <3>1, <3>2, <3>3
    <2>2. ASSUME NEW i \in 1..n
          PROVE  Schedule(m)[i] = <<Hooks[1], i>>
      <3> HIDE DEF m
      <3>1. i \in 1..m
        BY <1>3, <1>8
      <3> QED BY <1>8, <3>1, FirstRow
    <2>3. IsPrefix(ran'[r], Schedule(m))
      <3> HIDE DEF m
      <3>1. ran[r] \in Seq(HookNames \X Nat) /\ Len(ran[r]) <= 4 * m
        BY <1>1, <1>3, <1>8, <2>1, RequestIsTyped
      <3>2. \A i \in 1..Len(ran[r]) : ran[r][i] = Schedule(m)[i]
        BY <2>1, <2>2
      <3>3. IsPrefix(ran[r], Schedule(m))
        BY <1>8, <3>1, <3>2, PrefixOfSchedule
      <3> QED BY <1>7, <3>3
    <2>4. at'[r] <= m + 1 /\ Len(ran'[r]) = Row["own"] * m + at'[r] - 1
      <3> HIDE DEF m
      <3>1. Row["own"] * m = 0
        BY <1>8 DEF Row
      <3>2. at'[r] = n + 1 /\ Len(ran'[r]) = n
        BY <1>7, <2>1
      <3> QED BY <1>3, <1>8, <3>1, <3>2
    <2> QED BY <1>7, <2>3, <2>4 DEF InTurn
  <1>10. Spared(r)'
    <2>1. /\ sent[r] = {}
          /\ \A i \in 1..n : /\ Status(chain[r][i], client[r]) = "none"
                             /\ chain[r][i].type = "CorrelationId" => client[r].correlated
      BY <1>1, <1>2, <1>3 DEF Spared, Begins
    <2>2. at'[r] - 1 = n
      BY <1>3, <1>7
    <2>3. /\ stage'[r] \in Begins /\ Underway(r)' /\ sent'[r] = {}
          /\ stage'[r] # "preProxy" /\ "request" \notin sent'[r]
      BY <1>7, <2>1 DEF Begins, Underway
    <2>4. \A i \in 1..(at'[r] - 1) :
            /\ Status(chain'[r][i], client'[r]) = "none"
            /\ chain'[r][i].type = "CorrelationId" => client'[r].correlated
      <3> SUFFICES ASSUME NEW i \in 1..n
                   PROVE  /\ Status(l[i], client[r]) = "none"
                          /\ l[i].type = "CorrelationId" => client[r].correlated
        BY <1>7, <2>2
      <3>1. l[i] = chain[r][i]
        BY <1>4
      <3>2. /\ Status(chain[r][i], client[r]) = "none"
            /\ chain[r][i].type = "CorrelationId" => client[r].correlated
        BY <2>1
      <3> QED BY <3>1, <3>2
    <2> QED BY <2>3, <2>4 DEF Spared
  <1>11. Announced(r)'
    <2>1. /\ Called(r, "postProxy") = {} /\ Called(r, "post") = {}
          /\ Called(r, "postProxy")' = {} /\ Called(r, "post")' = {}
      BY <1>2, <1>7 DEF Called, Row
    <2>2. Called(r, "global")' \subseteq Called(r, "global")
      <3>1. \A i \in Encoders(r)' : i < n + 1 => i \in Encoders(r) /\ i < at[r]
        BY <1>2, <1>3, <1>4, <1>7, <1>8, SMTT(30) DEF Encoders
      <3> QED BY <1>2, <1>7, <3>1 DEF Called, Row
    <2> QED BY <1>2, <1>7, <2>1, <2>2 DEF Announced, Row, Applied
  <1> QED BY <1>7, <1>9, <1>10, <1>11, StepPreserves DEF Sound

\* Lemma: what is known of a request whose chain is through.
LEMMA ThroughIs ==
    ASSUME IInv, NEW r \in Requests, NEW c \in Chains, Through(r, c)
    PROVE  LET n == Cardinality(Members(r)) IN
           /\ TypeOK /\ InTurn(r) /\ Spared(r) /\ Announced(r) /\ Underway(r)
           /\ stage[r] = c /\ running = r /\ reply[r] = "none"
           /\ n \in Nat /\ Members(r) = 1..n /\ at[r] = n + 1
           /\ \A i \in Encoders(r) : i < at[r] /\ ~(i < 1)
           /\ chain[r] \in Seq(Listed) /\ Len(chain[r]) <= 2 * MaxLength
           /\ at[r] \in 1..(Len(chain[r]) + 1) /\ 1 \in 1..(Len(chain[r]) + 1)
  <1> DEFINE n == Cardinality(Members(r))
  <1>1. TypeOK /\ InTurn(r) /\ Spared(r) /\ Sound(r)
    BY DEF IInv, Sound
  <1>2. /\ stage[r] = c /\ running = r /\ Underway(r) /\ at[r] = n + 1 /\ Announced(r)
    BY <1>1, ThroughIsLast DEF Sound
  <1>3. n \in Nat /\ Members(r) = 1..n
    <2>1. n \in 0..Len(chain[r]) /\ Len(chain[r]) \in Nat /\ Members(r) = 1..n
      BY <1>1, <1>2, Place, ChainIsTyped
    <2> QED BY <2>1
  <1>4. reply[r] = "none"
    BY <1>1, <1>2, RequestIsTyped DEF Chains
  <1>5. /\ chain[r] \in Seq(Listed) /\ Len(chain[r]) <= 2 * MaxLength
        /\ at[r] \in 1..(Len(chain[r]) + 1) /\ 1 \in 1..(Len(chain[r]) + 1)
    BY <1>1, ChainIsTyped, ListsAreTyped
  <1> HIDE DEF n
  <1>6. \A i \in Encoders(r) : i < at[r] /\ ~(i < 1)
    BY <1>2, <1>3 DEF Encoders
  <1> QED BY <1>1, <1>2, <1>3, <1>4, <1>5, <1>6 DEF n

\* Lemma: the upstream request is made of the headers the first chain left.
LEMMA ResolvesUpstreamPreserves ==
    ASSUME IInv, NEW r \in Requests, ResolvesUpstream(r)
    PROVE  IInv'
  <1> DEFINE n == Cardinality(Members(r))
             h == IF client[r].correlated THEN {"correlation"} ELSE {}
  <1>1. /\ TypeOK /\ InTurn(r) /\ Spared(r) /\ Announced(r) /\ Underway(r)
        /\ stage[r] = "own" /\ running = r /\ reply[r] = "none"
        /\ n \in Nat /\ Members(r) = 1..n /\ at[r] = n + 1
        /\ \A i \in Encoders(r) : i < at[r] /\ ~(i < 1)
        /\ chain[r] \in Seq(Listed) /\ Len(chain[r]) <= 2 * MaxLength
        /\ 1 \in 1..(Len(chain[r]) + 1)
    BY ThroughIs DEF ResolvesUpstream, Chains
  <1> HIDE DEF n, h
  <1>2. Moves(r, chain[r], "preProxy", 1, h, response[r], reply[r])
    BY <1>1, SameExcept DEF ResolvesUpstream, Starts, Moves, Chains, h
  <1>3. Fits(chain[r], "preProxy", 1, h, response[r], reply[r])
    BY <1>1, RequestIsTyped DEF Fits, Chains, h
  <1>4. /\ Step(r, chain[r], "preProxy", 1, h, response[r], reply[r]) /\ TypeOK'
        /\ chain'[r] = chain[r] /\ stage'[r] = "preProxy" /\ at'[r] = 1 /\ sent'[r] = h
        /\ response'[r] = response[r] /\ client' = client
        /\ accepts' = accepts /\ transformer' = transformer /\ ran' = ran
    BY <1>1, <1>2, <1>3, MovesAreSteps
  <1>5. InTurn(r)'
    BY <1>1, <1>4, NextRow DEF Row, n
  <1>6. Members(r)' = Members(r) /\ Encoders(r)' = Encoders(r)
        /\ Interceptors(r)' = Interceptors(r) /\ Applied(r)' = Applied(r)
    BY <1>4 DEF Members, Encoders, Interceptors, Applied
  <1>7. Spared(r)'
    <2>1. ASSUME NEW i \in Members(r)
          PROVE  /\ Status(chain[r][i], client[r]) = "none"
                 /\ chain[r][i].type = "CorrelationId" => client[r].correlated
                 /\ ~(i < 1)
      <3>1. i \in 1..(at[r] - 1)
        BY <1>1
      <3> QED BY <1>1, <3>1 DEF Spared, Begins
    <2>2. Interceptors(r) = {}
      BY <2>1 DEF Interceptors
    <2>3. Underway(r)' /\ stage'[r] \notin Begins
      BY <1>4 DEF Underway, Begins
    <2>4. client[r].correlated => "correlation" \in h
      BY DEF h
    <2>5. "request" \notin h
      BY DEF h
    <2> QED BY <1>4, <1>6, <2>1, <2>2, <2>3, <2>4, <2>5 DEF Spared
  <1>8. Announced(r)'
    <2>1. /\ Called(r, "global")' = Called(r, "global")
          /\ Called(r, "postProxy")' = Called(r, "postProxy")
          /\ Called(r, "post")' = Called(r, "post")
      BY <1>1, <1>4, <1>6 DEF Called, Row
    <2> QED BY <1>1, <1>4, <1>6, <2>1 DEF Announced, Row
  <1> QED BY <1>4, <1>5, <1>7, <1>8, StepPreserves DEF Sound

\* Lemma: the request goes upstream when its second chain is through.
LEMMA SendsPreserves ==
    ASSUME IInv, NEW r \in Requests, Sends(r)
    PROVE  IInv'
  <1> DEFINE n == Cardinality(Members(r))
             h == sent[r] \cup {"request"}
  <1>1. /\ TypeOK /\ InTurn(r) /\ Spared(r) /\ Announced(r) /\ Underway(r)
        /\ stage[r] = "preProxy" /\ running = r /\ reply[r] = "none"
        /\ n \in Nat /\ Members(r) = 1..n /\ at[r] = n + 1
        /\ chain[r] \in Seq(Listed) /\ Len(chain[r]) <= 2 * MaxLength
        /\ at[r] \in 1..(Len(chain[r]) + 1)
    BY ThroughIs DEF Sends, Chains
  <1> HIDE DEF n, h
  <1>2. Moves(r, chain[r], "awaiting", at[r], h, response[r], reply[r])
    BY <1>1, SameExcept DEF Sends, Moves, Chains, h
  <1>3. Fits(chain[r], "awaiting", at[r], h, response[r], reply[r])
    BY <1>1, RequestIsTyped DEF Fits, h
  <1>4. /\ Step(r, chain[r], "awaiting", at[r], h, response[r], reply[r]) /\ TypeOK'
        /\ chain'[r] = chain[r] /\ stage'[r] = "awaiting" /\ at'[r] = at[r] /\ sent'[r] = h
        /\ response'[r] = response[r] /\ client' = client
        /\ accepts' = accepts /\ transformer' = transformer /\ ran' = ran
    BY <1>1, <1>2, <1>3, MovesAreSteps
  <1>5. InTurn(r)'
    BY <1>1, <1>4, NextRow DEF Row, n
  <1>6. Members(r)' = Members(r) /\ Encoders(r)' = Encoders(r)
        /\ Interceptors(r)' = Interceptors(r) /\ Applied(r)' = Applied(r)
    BY <1>4 DEF Members, Encoders, Interceptors, Applied
  <1>7. Spared(r)'
    <2>1. ASSUME NEW i \in Members(r)
          PROVE  /\ chain[r][i].type = "CorrelationId" => "correlation" \in h
                 /\ chain[r][i].type = "ForwardHeaders" => "forwarded" \in h
      <3>1. i < at[r]
        BY <1>1
      <3> QED BY <1>1, <3>1 DEF Spared, h
    <2>2. Interceptors(r) = {}
      BY <1>1 DEF Spared, Begins
    <2>3. Underway(r)' /\ stage'[r] \notin Begins
      BY <1>4 DEF Underway, Begins
    <2> QED BY <1>4, <1>6, <2>1, <2>2, <2>3 DEF Spared
  <1>8. Announced(r)'
    <2>1. \A c : Called(r, c)' = Called(r, c)
      BY <1>1, <1>4, <1>6 DEF Called, Row
    <2> QED BY <1>1, <1>4, <1>6, <2>1 DEF Announced, Row
  <1> QED BY <1>4, <1>5, <1>7, <1>8, StepPreserves DEF Sound

\* Lemma: what is known of a request that waits for its upstream.
LEMMA AwaitingIs ==
    ASSUME IInv, NEW r \in Requests, stage[r] = "awaiting", running = NoRequest
    PROVE  LET n == Cardinality(Members(r)) IN
           /\ TypeOK /\ InTurn(r) /\ Spared(r) /\ Announced(r) /\ Underway(r)
           /\ reply[r] = "none" /\ n \in Nat /\ Members(r) = 1..n /\ at[r] = n + 1
           /\ \A i \in Encoders(r) : i < at[r] /\ ~(i < 1)
           /\ chain[r] \in Seq(Listed) /\ Len(chain[r]) <= 2 * MaxLength
           /\ at[r] \in 1..(Len(chain[r]) + 1) /\ 1 \in 1..(Len(chain[r]) + 1)
  <1> DEFINE n == Cardinality(Members(r))
  <1>1. TypeOK /\ InTurn(r) /\ Spared(r) /\ Underway(r) /\ Announced(r)
    BY DEF IInv, Sound, Underway
  <1>2. n \in Nat /\ Members(r) = 1..n
    <2>1. n \in 0..Len(chain[r]) /\ Len(chain[r]) \in Nat /\ Members(r) = 1..n
      BY <1>1, Place, ChainIsTyped
    <2> QED BY <2>1
  <1>3. at[r] = n + 1
    BY <1>1 DEF InTurn
  <1>4. reply[r] = "none"
    BY <1>1, RequestIsTyped
  <1>5. /\ chain[r] \in Seq(Listed) /\ Len(chain[r]) <= 2 * MaxLength
        /\ at[r] \in 1..(Len(chain[r]) + 1) /\ 1 \in 1..(Len(chain[r]) + 1)
    BY <1>1, ChainIsTyped, ListsAreTyped
  <1> HIDE DEF n
  <1>6. \A i \in Encoders(r) : i < at[r] /\ ~(i < 1)
    BY <1>2, <1>3 DEF Encoders
  <1> QED BY <1>1, <1>2, <1>3, <1>4, <1>5, <1>6 DEF n

\* Lemma: the response comes as the upstream encoded it, and the third chain begins.
LEMMA UpstreamRespondsPreserves ==
    ASSUME IInv, NEW r \in Requests, NEW e \in {Identity} \cup Encodings,
           UpstreamResponds(r, e)
    PROVE  IInv'
  <1> DEFINE n == Cardinality(Members(r))
             v == [response[r] EXCEPT !.upstream = e, !.encoding = e]
  <1>1. /\ TypeOK /\ InTurn(r) /\ Spared(r) /\ Announced(r) /\ Underway(r)
        /\ stage[r] = "awaiting" /\ running = NoRequest /\ reply[r] = "none"
        /\ n \in Nat /\ Members(r) = 1..n /\ at[r] = n + 1
        /\ \A i \in Encoders(r) : i < at[r] /\ ~(i < 1)
        /\ chain[r] \in Seq(Listed) /\ Len(chain[r]) <= 2 * MaxLength
        /\ 1 \in 1..(Len(chain[r]) + 1)
    BY AwaitingIs DEF UpstreamResponds
  <1>2. /\ v \in Responses /\ v.upstream = e /\ v.encoding = e
        /\ v.length = response[r].length /\ v.transforms = response[r].transforms
    <2>1. response[r] \in Responses
      BY <1>1, RequestIsTyped
    <2> QED BY <2>1 DEF Responses
  <1>3. Moves(r, chain[r], "postProxy", 1, sent[r], v, reply[r])
    <2>1. response' = [response EXCEPT ![r] = v]
      BY <1>1 DEF UpstreamResponds, TypeOK
    <2> HIDE DEF v
    <2> QED BY <1>1, <2>1, SameExcept DEF UpstreamResponds, Starts, Moves, Chains
  <1> HIDE DEF n, v
  <1>4. Fits(chain[r], "postProxy", 1, sent[r], v, reply[r])
    BY <1>1, <1>2, RequestIsTyped DEF Fits, Chains
  <1>5. /\ Step(r, chain[r], "postProxy", 1, sent[r], v, reply[r]) /\ TypeOK'
        /\ chain'[r] = chain[r] /\ stage'[r] = "postProxy" /\ at'[r] = 1
        /\ sent'[r] = sent[r] /\ response'[r] = v /\ client' = client
        /\ accepts' = accepts /\ transformer' = transformer /\ ran' = ran
    BY <1>1, <1>3, <1>4, MovesAreSteps
  <1>6. InTurn(r)'
    BY <1>1, <1>5, NextRow DEF Row, n
  <1>7. /\ Members(r)' = Members(r) /\ Encoders(r)' = Encoders(r)
        /\ Interceptors(r)' = Interceptors(r)
    BY <1>5 DEF Members, Encoders, Interceptors
  <1>8. Spared(r)'
    BY <1>1, <1>5, <1>7 DEF Spared, Begins, Underway
  <1>9. Announced(r)'
    <2>1. Called(r, "global")' = Called(r, "global")
      BY <1>1, <1>5, <1>7 DEF Called, Row
    <2>2. Called(r, "postProxy")' = {} /\ Called(r, "postProxy") = {}
      BY <1>1, <1>5, <1>7 DEF Called, Row
    <2>3. Called(r, "post")' = {} /\ Called(r, "post") = {}
      BY <1>1, <1>5 DEF Called, Row
    <2> QED BY <1>1, <1>2, <1>5, <1>7, <2>1, <2>2, <2>3 DEF Announced, Row
  <1> QED BY <1>5, <1>6, <1>8, <1>9, StepPreserves DEF Sound

\* Lemma: the upstream fails, and the request is answered without its middlewares.
LEMMA UpstreamFailsPreserves ==
    ASSUME IInv, NEW r \in Requests, UpstreamFails(r)
    PROVE  IInv'
  <1> DEFINE n == Cardinality(Members(r))
  <1>1. /\ TypeOK /\ InTurn(r) /\ Spared(r) /\ Underway(r)
        /\ stage[r] = "awaiting" /\ running = NoRequest
        /\ n \in Nat /\ at[r] = n + 1
        /\ chain[r] \in Seq(Listed) /\ Len(chain[r]) <= 2 * MaxLength
        /\ at[r] \in 1..(Len(chain[r]) + 1)
    BY AwaitingIs DEF UpstreamFails
  <1> HIDE DEF n
  <1>2. Moves(r, chain[r], "ended", at[r], sent[r], response[r], "503")
    BY <1>1, SameExcept DEF UpstreamFails, Answered, Moves, Chains
  <1>3. Fits(chain[r], "ended", at[r], sent[r], response[r], "503")
    BY <1>1, RequestIsTyped DEF Fits, Answers, Statuses
  <1>4. /\ Step(r, chain[r], "ended", at[r], sent[r], response[r], "503") /\ TypeOK'
        /\ chain'[r] = chain[r] /\ stage'[r] = "ended" /\ at'[r] = at[r]
        /\ sent'[r] = sent[r] /\ reply'[r] = "503" /\ client' = client /\ ran' = ran
    BY <1>1, <1>2, <1>3, MovesAreSteps
  <1>5. InTurn(r)'
    BY <1>1, <1>4, NextRow DEF n
  <1>6. Members(r)' = Members(r) /\ Interceptors(r)' = Interceptors(r)
    BY <1>4 DEF Members, Interceptors
  <1>7. Spared(r)' /\ ~Underway(r)'
    BY <1>1, <1>4, <1>6 DEF Spared, Begins, Underway
  <1> QED BY <1>4, <1>5, <1>7, StepPreserves DEF Sound

\* Lemma: the last chain begins.
LEMMA PostBeginsPreserves ==
    ASSUME IInv, NEW r \in Requests, PostBegins(r)
    PROVE  IInv'
  <1> DEFINE n == Cardinality(Members(r))
  <1>1. /\ TypeOK /\ InTurn(r) /\ Spared(r) /\ Announced(r) /\ Underway(r)
        /\ stage[r] = "postProxy" /\ running = r /\ reply[r] = "none"
        /\ n \in Nat /\ Members(r) = 1..n /\ at[r] = n + 1
        /\ \A i \in Encoders(r) : i < at[r] /\ ~(i < 1)
        /\ chain[r] \in Seq(Listed) /\ Len(chain[r]) <= 2 * MaxLength
        /\ 1 \in 1..(Len(chain[r]) + 1)
    BY ThroughIs DEF PostBegins, Chains
  <1> HIDE DEF n
  <1>2. Moves(r, chain[r], "post", 1, sent[r], response[r], reply[r])
    BY <1>1, SameExcept DEF PostBegins, Starts, Moves, Chains
  <1>3. Fits(chain[r], "post", 1, sent[r], response[r], reply[r])
    BY <1>1, RequestIsTyped DEF Fits, Chains
  <1>4. /\ Step(r, chain[r], "post", 1, sent[r], response[r], reply[r]) /\ TypeOK'
        /\ chain'[r] = chain[r] /\ stage'[r] = "post" /\ at'[r] = 1
        /\ sent'[r] = sent[r] /\ response'[r] = response[r] /\ client' = client
        /\ accepts' = accepts /\ transformer' = transformer /\ ran' = ran
    BY <1>1, <1>2, <1>3, MovesAreSteps
  <1>5. InTurn(r)'
    BY <1>1, <1>4, NextRow DEF Row, n
  <1>6. /\ Members(r)' = Members(r) /\ Encoders(r)' = Encoders(r)
        /\ Interceptors(r)' = Interceptors(r) /\ Applied(r)' = Applied(r)
    BY <1>4 DEF Members, Encoders, Interceptors, Applied
  <1>7. Spared(r)'
    BY <1>1, <1>4, <1>6 DEF Spared, Begins, Underway
  <1>8. Announced(r)'
    <2>1. /\ Called(r, "global")' = Called(r, "global")
          /\ Called(r, "postProxy")' = Called(r, "postProxy")
          /\ Called(r, "post")' = Called(r, "post")
      BY <1>1, <1>4, <1>6 DEF Called, Row
    <2> QED BY <1>1, <1>4, <1>6, <2>1 DEF Announced, Row
  <1> QED BY <1>4, <1>5, <1>7, <1>8, StepPreserves DEF Sound

\* Lemma: the response is sent when the last chain is through.
LEMMA SendsResponsePreserves ==
    ASSUME IInv, NEW r \in Requests, SendsResponse(r)
    PROVE  IInv'
  <1> DEFINE n == Cardinality(Members(r))
  <1>1. /\ TypeOK /\ InTurn(r) /\ Spared(r) /\ Announced(r) /\ Underway(r)
        /\ stage[r] = "post" /\ running = r
        /\ n \in Nat /\ Members(r) = 1..n /\ at[r] = n + 1
        /\ chain[r] \in Seq(Listed) /\ Len(chain[r]) <= 2 * MaxLength
        /\ at[r] \in 1..(Len(chain[r]) + 1)
    BY ThroughIs DEF SendsResponse, Chains
  <1> HIDE DEF n
  <1>2. Moves(r, chain[r], "ended", at[r], sent[r], response[r], "upstream")
    BY <1>1, SameExcept DEF SendsResponse, Answered, Moves, Chains
  <1>3. Fits(chain[r], "ended", at[r], sent[r], response[r], "upstream")
    BY <1>1, RequestIsTyped DEF Fits, Answers
  <1>4. /\ Step(r, chain[r], "ended", at[r], sent[r], response[r], "upstream") /\ TypeOK'
        /\ chain'[r] = chain[r] /\ stage'[r] = "ended" /\ at'[r] = at[r]
        /\ sent'[r] = sent[r] /\ response'[r] = response[r] /\ client' = client
        /\ accepts' = accepts /\ transformer' = transformer /\ ran' = ran
        /\ reply'[r] = "upstream"
    BY <1>1, <1>2, <1>3, MovesAreSteps
  <1>5. InTurn(r)'
    BY <1>1, <1>4, NextRow DEF Row, n
  <1>6. /\ Members(r)' = Members(r) /\ Encoders(r)' = Encoders(r)
        /\ Interceptors(r)' = Interceptors(r) /\ Applied(r)' = Applied(r)
    BY <1>4 DEF Members, Encoders, Interceptors, Applied
  <1>7. Spared(r)'
    BY <1>1, <1>4, <1>6 DEF Spared, Begins, Underway
  <1>8. Announced(r)'
    <2>1. \A c : Called(r, c)' = Called(r, c)
      BY <1>1, <1>4, <1>6 DEF Called, Row
    <2> QED BY <1>1, <1>4, <1>6, <2>1 DEF Announced, Row
  <1> QED BY <1>4, <1>5, <1>7, <1>8, StepPreserves DEF Sound

-----------------------------------------------------------------------------
(* The hooks of the upstream request and of the response.                  *)

\* Lemma: what is known of a request one of whose later hooks is called, and what the
\* call leaves behind, whatever it does to what is sent and to the response.
LEMMA HookIs ==
    ASSUME IInv, NEW r \in Requests, NEW c \in {"preProxy", "postProxy", "post"},
           Calls(r, c), GoesOn(r), UNCHANGED <<lists, client, chain, accepts, reply>>,
           NEW h \in SUBSET {"correlation", "forwarded", "request"},
           sent' = [sent EXCEPT ![r] = h],
           NEW v \in Responses, response' = [response EXCEPT ![r] = v],
           transformer' \in [Requests \X Positions -> Encodings \cup {Identity}],
           \A q \in Requests, i \in Positions :
             q # r => transformer'[<<q, i>>] = transformer[<<q, i>>]
    PROVE  /\ TypeOK /\ Spared(r) /\ Announced(r) /\ Underway(r) /\ stage[r] = c
           /\ Step(r, chain[r], c, at[r] + 1, h, v, reply[r]) /\ TypeOK' /\ InTurn(r)'
           /\ stage'[r] = c /\ at'[r] = at[r] + 1 /\ sent'[r] = h /\ response'[r] = v
           /\ at[r] \in Members(r) /\ at[r] \in Positions
           /\ Encoders(r) \subseteq Positions
           /\ Members(r)' = Members(r) /\ Encoders(r)' = Encoders(r)
           /\ Interceptors(r)' = Interceptors(r)
           /\ \A i \in Positions : i < at[r] + 1 <=> i < at[r] \/ i = at[r]
  <1>1. /\ TypeOK /\ InTurn(r) /\ Spared(r) /\ Announced(r) /\ Underway(r)
        /\ stage[r] = c /\ running = r /\ c \in Chains
    BY DEF IInv, Sound, Calls, Underway, Chains
  <1>2. /\ at[r] \in 1..Len(chain[r]) /\ at[r] \in Positions /\ at[r] \in Members(r)
        /\ chain[r] \in Seq(Listed) /\ Len(chain[r]) <= 2 * MaxLength
        /\ at[r] + 1 \in 1..(Len(chain[r]) + 1) /\ at[r] \in Nat
    <2>1. at[r] \in DOMAIN chain[r] /\ Holds(r)
      BY DEF Calls, Holds
    <2>2. /\ at[r] \in 1..Len(chain[r]) /\ chain[r] \in Seq(Listed)
          /\ Len(chain[r]) \in 0..(2 * MaxLength) /\ MaxLength \in Nat
      BY <1>1, <2>1, ChainIsTyped, ListsAreTyped
    <2>3. at[r] \in Members(r)
      <3>1. /\ Cardinality(Members(r)) \in 0..Len(chain[r])
            /\ Members(r) = 1..Cardinality(Members(r))
            /\ at[r] <= Cardinality(Members(r))
        BY <1>1, <2>1, Place
      <3> QED BY <2>2, <3>1
    <2> QED BY <2>2, <2>3 DEF Positions
  <1>3. Typed
    <2>1. <<Hook[c], at[r]>> \in HookNames \X Nat
      BY <1>1, <1>2 DEF Hook, HookNames, Chains
    <2> QED BY <1>1, <2>1 DEF Typed, TypeOK, Calls
  <1>4. Step(r, chain[r], c, at[r] + 1, h, v, reply[r])
    <2>1. /\ stage' = [stage EXCEPT ![r] = c] /\ chain' = [chain EXCEPT ![r] = chain[r]]
          /\ at' = [at EXCEPT ![r] = at[r] + 1] /\ reply' = [reply EXCEPT ![r] = reply[r]]
          /\ running' = running
      BY <1>1, SameExcept DEF GoesOn
    <2>2. ASSUME NEW q \in Requests \ {r}
          PROVE  Kept(q)
      BY <1>1 DEF Kept, GoesOn, Calls, TypeOK
    <2> QED BY <1>1, <2>1, <2>2 DEF Step
  <1>5. Fits(chain[r], c, at[r] + 1, h, v, reply[r])
    <2>1. reply[r] = "none" /\ reply[r] \in Answers /\ c # "ended"
      BY <1>1, RequestIsTyped DEF Chains
    <2> QED BY <1>1, <1>2, <2>1 DEF Fits
  <1>6. TypeOK'
    BY <1>1, <1>3, <1>4, <1>5, StepKeepsTypes
  <1>7. stage'[r] = c /\ at'[r] = at[r] + 1 /\ sent'[r] = h /\ response'[r] = v
    BY <1>1, <1>4, StepValues
  <1>8. InTurn(r)'
    BY <1>1, <1>6, <1>7, CallsKeepTurn
  <1>9. /\ Members(r)' = Members(r) /\ Encoders(r)' = Encoders(r)
        /\ Interceptors(r)' = Interceptors(r) /\ Encoders(r) \subseteq Positions
    BY <1>1, EncodersAre DEF Members, Encoders, Interceptors
  <1>10. \A i \in Positions : i < at[r] + 1 <=> i < at[r] \/ i = at[r]
    BY <1>2 DEF Positions
  <1> QED BY <1>1, <1>2, <1>4, <1>6, <1>7, <1>8, <1>9, <1>10

\* Lemma: a hook of the upstream request may add a header to it.
LEMMA PreUpstreamRequestPreserves ==
    ASSUME IInv, NEW r \in Requests, PreUpstreamRequest(r)
    PROVE  IInv'
  <1> DEFINE h == IF Current(r).type = "ForwardHeaders" THEN sent[r] \cup {"forwarded"}
                                                       ELSE sent[r]
  <1>1. /\ response[r] \in Responses /\ response' = [response EXCEPT ![r] = response[r]]
        /\ h \in SUBSET {"correlation", "forwarded", "request"}
        /\ sent' = [sent EXCEPT ![r] = h]
        /\ transformer' \in [Requests \X Positions -> Encodings \cup {Identity}]
        /\ UNCHANGED <<lists, client, chain, accepts, transformer, reply>>
        /\ Calls(r, "preProxy") /\ GoesOn(r)
    <2>1. TypeOK
      BY DEF IInv
    <2> QED BY <2>1, RequestIsTyped, SameExcept DEF PreUpstreamRequest, encoders, TypeOK
  <1>2. /\ sent[r] \subseteq h /\ ("request" \in h <=> "request" \in sent[r])
        /\ Current(r).type = "ForwardHeaders" => "forwarded" \in h
    OBVIOUS
  <1> HIDE DEF h
  <1>3. /\ TypeOK /\ Spared(r) /\ Announced(r) /\ Underway(r) /\ stage[r] = "preProxy"
        /\ Step(r, chain[r], "preProxy", at[r] + 1, h, response[r], reply[r])
        /\ TypeOK' /\ InTurn(r)'
        /\ stage'[r] = "preProxy" /\ at'[r] = at[r] + 1 /\ sent'[r] = h
        /\ response'[r] = response[r]
        /\ Encoders(r) \subseteq Positions
        /\ Members(r)' = Members(r) /\ Encoders(r)' = Encoders(r)
        /\ Interceptors(r)' = Interceptors(r)
        /\ \A i \in Positions : i < at[r] + 1 <=> i < at[r] \/ i = at[r]
    BY <1>1, HookIs
  <1>4. Members(r) \subseteq Positions
    <2>1. DOMAIN chain[r] \subseteq Positions
      BY <1>3, ChainIsTyped, ListsAreTyped DEF Positions
    <2> QED BY <2>1 DEF Members
  <1>5. Spared(r)'
    <2>1. ASSUME NEW i \in Members(r), chain[r][i].type = "ForwardHeaders",
                 i < at[r] + 1
          PROVE  "forwarded" \in h
      <3>1. CASE i < at[r]
        BY <1>2, <1>3, <2>1, <3>1 DEF Spared
      <3>2. CASE i = at[r]
        BY <1>2, <2>1, <3>2 DEF Current
      <3> QED BY <1>3, <1>4, <2>1, <3>1, <3>2
    <2>2. \A i \in Members(r) : chain[r][i].type = "CorrelationId" => "correlation" \in h
      BY <1>2, <1>3 DEF Spared
    <2>3. "request" \notin h /\ Interceptors(r) = {}
      BY <1>2, <1>3 DEF Spared, Begins
    <2>4. stage'[r] \notin Begins /\ Underway(r)' /\ chain' = chain
      BY <1>1, <1>3 DEF Begins, Underway
    <2> QED BY <1>3, <2>1, <2>2, <2>3, <2>4 DEF Spared
  <1>6. Announced(r)'
    <2>1. /\ Called(r, "global")' = Called(r, "global")
          /\ Called(r, "postProxy")' = Called(r, "postProxy")
          /\ Called(r, "post")' = Called(r, "post")
      BY <1>3 DEF Called, Row
    <2>2. Applied(r)' = Applied(r)
      BY <1>1, <1>3 DEF Applied
    <2> QED BY <1>1, <1>3, <2>1, <2>2 DEF Announced, Row
  <1> QED BY <1>3, <1>5, <1>6, StepPreserves DEF Sound

\* Lemma: an encoder takes up the encoding it will apply, if there is one.
LEMMA PostUpstreamResponsePreserves ==
    ASSUME IInv, NEW r \in Requests, PostUpstreamResponse(r)
    PROVE  IInv'
  <1> DEFINE p == at[r]
             e == Chosen(accepts[<<r, p>>])
             picks == /\ Current(r).type = "ContentEncoding"
                      /\ response[r].upstream = Identity /\ e # Identity
             v == IF picks THEN [response[r] EXCEPT !.encoding = e] ELSE response[r]
  <1>1. /\ TypeOK /\ response[r] \in Responses
        /\ sent[r] \in SUBSET {"correlation", "forwarded", "request"}
    BY RequestIsTyped DEF IInv
  <1>2. e \in Encodings \cup {Identity}
    BY DEF Chosen, Encodings
  <1>3. /\ transformer' = IF picks THEN [transformer EXCEPT ![<<r, p>>] = e] ELSE transformer
        /\ response' = IF picks THEN [response EXCEPT ![r].encoding = e] ELSE response
        /\ UNCHANGED <<lists, client, chain, sent, accepts, reply>>
        /\ Calls(r, "postProxy") /\ GoesOn(r)
    BY Zenon DEF PostUpstreamResponse, Instance
  <1>4. /\ v \in Responses /\ v.upstream = response[r].upstream
        /\ v.length = response[r].length /\ v.transforms = response[r].transforms
        /\ v.encoding = IF picks THEN e ELSE response[r].encoding
    <2> HIDE DEF e
    <2> QED BY <1>1, <1>2 DEF Responses
  <1>5. /\ response' = [response EXCEPT ![r] = v]
        /\ sent' = [sent EXCEPT ![r] = sent[r]]
    <2> HIDE DEF e
    <2>1. CASE picks
      BY <1>1, <1>3, <2>1 DEF TypeOK
    <2>2. CASE ~picks
      BY <1>1, <1>3, <2>2, SameExcept
    <2>3. sent' = [sent EXCEPT ![r] = sent[r]]
      BY <1>1, <1>3, SameExcept
    <2> QED BY <2>1, <2>2, <2>3
  <1> HIDE DEF e, v, picks
  <1>6. /\ transformer' \in [Requests \X Positions -> Encodings \cup {Identity}]
        /\ \A q \in Requests, i \in Positions :
             transformer'[<<q, i>>] = IF picks /\ q = r /\ i = p THEN e
                                                            ELSE transformer[<<q, i>>]
    BY <1>1, <1>2, <1>3 DEF TypeOK
  <1>7. /\ Spared(r) /\ Announced(r) /\ Underway(r) /\ stage[r] = "postProxy"
        /\ Step(r, chain[r], "postProxy", p + 1, sent[r], v, reply[r])
        /\ TypeOK' /\ InTurn(r)'
        /\ stage'[r] = "postProxy" /\ at'[r] = p + 1 /\ sent'[r] = sent[r]
        /\ response'[r] = v /\ p \in Members(r) /\ p \in Positions
        /\ Encoders(r) \subseteq Positions
        /\ Members(r)' = Members(r) /\ Encoders(r)' = Encoders(r)
        /\ Interceptors(r)' = Interceptors(r)
        /\ \A i \in Positions : i < p + 1 <=> i < p \/ i = p
    <2>1. /\ v \in Responses /\ sent[r] \in SUBSET {"correlation", "forwarded", "request"}
          /\ response' = [response EXCEPT ![r] = v] /\ sent' = [sent EXCEPT ![r] = sent[r]]
          /\ UNCHANGED <<lists, client, chain, accepts, reply>>
          /\ Calls(r, "postProxy") /\ GoesOn(r)
      BY <1>1, <1>3, <1>4, <1>5
    <2>2. \A q \in Requests, i \in Positions :
            q # r => transformer'[<<q, i>>] = transformer[<<q, i>>]
      BY <1>6
    <2>3. transformer' \in [Requests \X Positions -> Encodings \cup {Identity}]
      BY <1>6
    <2> QED BY <2>1, <2>2, <2>3, HookIs, ZenonT(60)
  <1>8. Spared(r)'
    BY <1>3, <1>7 DEF Spared, Begins, Underway
  <1>9. Announced(r)'
    <2>1. Applied(r)' = Applied(r)
      BY <1>3, <1>4, <1>7 DEF Applied
    <2>2. Called(r, "global")' = Called(r, "global") /\ Called(r, "global") = Encoders(r)
      BY <1>7 DEF Called, Row
    <2>3. Called(r, "post")' = {} /\ Called(r, "post") = {}
      BY <1>7 DEF Called, Row
    <2>4. /\ p \notin Called(r, "postProxy")
          /\ Called(r, "postProxy")' =
               IF p \in Encoders(r) THEN Called(r, "postProxy") \cup {p}
                                    ELSE Called(r, "postProxy")
      BY <1>7 DEF Called, Row, Positions
    <2>5. p \in Encoders(r) <=> Current(r).type = "ContentEncoding"
      BY <1>7 DEF Encoders, Current
    <2>6. p \in Encoders(r) => accepts[<<r, p>>] = client[r].accepts
      BY <1>7, <2>2 DEF Announced
    <2>7. /\ picks <=> p \in Encoders(r) /\ Applied(r) # Identity
          /\ picks => e = Applied(r)
      BY <2>5, <2>6 DEF picks, e, Applied
    <2>8. \A i \in Called(r, "global")' : accepts'[<<r, i>>] = client'[r].accepts
      BY <1>3, <1>7, <2>2 DEF Announced
    <2>9. \A i \in Positions : transformer'[<<r, i>>] =
            IF i \in Called(r, "postProxy")' THEN Applied(r) ELSE Identity
      <3>1. \A i \in Positions : transformer[<<r, i>>] =
              IF i \in Called(r, "postProxy") THEN Applied(r) ELSE Identity
        BY <1>7 DEF Announced
      <3> QED BY <1>6, <2>4, <2>7, <3>1
    <2>10. v.encoding = IF Called(r, "postProxy")' # {} /\ Applied(r) # Identity
                          THEN Applied(r) ELSE v.upstream
      <3>1. response[r].encoding =
              IF Called(r, "postProxy") # {} /\ Applied(r) # Identity
                THEN Applied(r) ELSE response[r].upstream
        BY <1>7 DEF Announced
      <3> QED BY <1>4, <2>4, <2>7, <3>1
    <2>11. v.transforms = <<>> /\ v.length
      BY <1>4, <1>7, <2>3 DEF Announced
    <2> QED BY <1>7, <2>1, <2>3, <2>8, <2>9, <2>10, <2>11 DEF Announced, Row
  <1> QED BY <1>7, <1>8, <1>9, StepPreserves DEF Sound

\* Lemma: an encoder encodes the body, as it announced.
LEMMA OnProxyResponsePreserves ==
    ASSUME IInv, NEW r \in Requests, OnProxyResponse(r)
    PROVE  IInv'
  <1> DEFINE p == at[r]
             t == transformer[<<r, p>>]
             adds == Current(r).type = "ContentEncoding" /\ t # Identity
             v == IF adds THEN [response[r] EXCEPT !.length = FALSE,
                                                   !.transforms = Append(@, t)]
                          ELSE response[r]
  <1>1. /\ TypeOK /\ response[r] \in Responses
        /\ sent[r] \in SUBSET {"correlation", "forwarded", "request"}
    BY RequestIsTyped DEF IInv
  <1>2. /\ response' = IF adds THEN [response EXCEPT ![r].length = FALSE,
                                                     ![r].transforms = Append(@, t)]
                               ELSE response
        /\ UNCHANGED <<lists, client, chain, sent, accepts, transformer, reply>>
        /\ Calls(r, "post") /\ GoesOn(r)
    BY Zenon DEF OnProxyResponse, Instance, encoders
  <1>3. p \in Positions
    <2>1. p \in DOMAIN chain[r]
      BY <1>2 DEF Calls, Holds
    <2> QED BY <1>1, <2>1, ChainIsTyped, ListsAreTyped DEF Positions
  <1>4. t \in Encodings \cup {Identity}
    BY <1>1, <1>3 DEF TypeOK
  <1>5. /\ v \in Responses /\ v.upstream = response[r].upstream
        /\ v.encoding = response[r].encoding
        /\ v.length = IF adds THEN FALSE ELSE response[r].length
        /\ v.transforms = IF adds THEN Append(response[r].transforms, t)
                                  ELSE response[r].transforms
    <2> HIDE DEF t
    <2>1. CASE adds
      <3>1. Append(response[r].transforms, t) \in Seq(Encodings)
        BY <1>1, <1>4, <2>1 DEF Responses
      <3> QED BY <1>1, <2>1, <3>1 DEF Responses
    <2>2. CASE ~adds
      BY <1>1, <2>2
    <2> QED BY <2>1, <2>2
  <1>6. /\ response' = [response EXCEPT ![r] = v]
        /\ sent' = [sent EXCEPT ![r] = sent[r]]
    <2> HIDE DEF t
    <2>1. CASE adds
      BY <1>1, <1>2, <2>1 DEF TypeOK
    <2>2. CASE ~adds
      BY <1>1, <1>2, <2>2, SameExcept
    <2>3. sent' = [sent EXCEPT ![r] = sent[r]]
      BY <1>1, <1>2, SameExcept
    <2> QED BY <2>1, <2>2, <2>3
  <1> HIDE DEF t, v, adds
  <1>7. /\ Spared(r) /\ Announced(r) /\ Underway(r) /\ stage[r] = "post"
        /\ Step(r, chain[r], "post", p + 1, sent[r], v, reply[r])
        /\ TypeOK' /\ InTurn(r)'
        /\ stage'[r] = "post" /\ at'[r] = p + 1 /\ sent'[r] = sent[r]
        /\ response'[r] = v /\ p \in Members(r)
        /\ Encoders(r) \subseteq Positions
        /\ Members(r)' = Members(r) /\ Encoders(r)' = Encoders(r)
        /\ Interceptors(r)' = Interceptors(r)
        /\ \A i \in Positions : i < p + 1 <=> i < p \/ i = p
    <2>1. transformer' \in [Requests \X Positions -> Encodings \cup {Identity}]
      BY <1>1, <1>2 DEF TypeOK
    <2>2. \A q \in Requests, i \in Positions :
            q # r => transformer'[<<q, i>>] = transformer[<<q, i>>]
      BY <1>2
    <2>3. /\ v \in Responses /\ sent[r] \in SUBSET {"correlation", "forwarded", "request"}
          /\ response' = [response EXCEPT ![r] = v] /\ sent' = [sent EXCEPT ![r] = sent[r]]
          /\ UNCHANGED <<lists, client, chain, accepts, reply>>
          /\ Calls(r, "post") /\ GoesOn(r)
      BY <1>1, <1>2, <1>5, <1>6
    <2> QED BY <2>1, <2>2, <2>3, HookIs, ZenonT(60)
  <1>8. Spared(r)'
    BY <1>2, <1>7 DEF Spared, Begins, Underway
  <1>9. Announced(r)'
    <2>1. Applied(r)' = Applied(r)
      BY <1>2, <1>5, <1>7 DEF Applied
    <2>2. /\ Called(r, "global")' = Called(r, "global")
          /\ Called(r, "postProxy")' = Called(r, "postProxy")
          /\ Called(r, "postProxy") = Encoders(r)
      BY <1>7 DEF Called, Row
    <2>3. /\ Called(r, "post") \subseteq Encoders(r) /\ p \notin Called(r, "post")
          /\ Called(r, "post")' = IF p \in Encoders(r) THEN Called(r, "post") \cup {p}
                                                       ELSE Called(r, "post")
      BY <1>7 DEF Called, Row, Positions
    <2>4. p \in Encoders(r) <=> Current(r).type = "ContentEncoding"
      BY <1>7 DEF Encoders, Current
    <2>5. t = IF p \in Encoders(r) THEN Applied(r) ELSE Identity
      BY <1>3, <1>7, <2>2 DEF Announced, t
    <2>6. adds <=> p \in Encoders(r) /\ Applied(r) # Identity
      BY <2>4, <2>5 DEF adds
    <2>7. ASSUME Called(r, "post")' = {}
          PROVE  v.transforms = <<>> /\ v.length
      <3>1. Called(r, "post") = {} /\ ~adds
        BY <2>3, <2>6, <2>7
      <3> QED BY <1>5, <1>7, <3>1 DEF Announced
    <2>8. ASSUME Cardinality(Encoders(r)) <= 1
          PROVE  /\ v.transforms = IF Called(r, "post")' = {} \/ Applied(r) = Identity
                                     THEN <<>> ELSE <<Applied(r)>>
                 /\ v.length <=> v.transforms = <<>>
      <3>1. /\ response[r].transforms = IF Called(r, "post") = {} \/ Applied(r) = Identity
                                          THEN <<>> ELSE <<Applied(r)>>
            /\ response[r].length <=> response[r].transforms = <<>>
        BY <1>7, <2>8 DEF Announced
      <3>2. CASE p \notin Encoders(r)
        BY <1>5, <2>3, <2>6, <3>1, <3>2
      <3>3. CASE p \in Encoders(r)
        <4>1. Called(r, "post") = {}
          <5>1. IsFiniteSet(Encoders(r))
            <6>1. IsFiniteSet(Positions)
              BY <1>1, FS_Interval, ListsAreTyped DEF Positions
            <6> QED BY <1>7, <6>1, FS_Subset
          <5>2. \E x : Encoders(r) = {x}
            <6>1. Cardinality(Encoders(r)) \in Nat /\ Cardinality(Encoders(r)) # 0
              BY <3>3, <5>1, FS_CardinalityType, FS_EmptySet
            <6>2. Cardinality(Encoders(r)) = 1
              BY <2>8, <6>1
            <6> QED BY <5>1, <6>2, FS_Singleton
          <5> QED BY <2>3, <3>3, <5>2
        <4>2. response[r].transforms = <<>> /\ response[r].length
          BY <3>1, <4>1
        <4>3. CASE adds
          BY <1>5, <2>3, <2>5, <2>6, <3>3, <4>2, <4>3
        <4>4. CASE ~adds
          BY <1>5, <2>6, <3>3, <4>2, <4>4
        <4> QED BY <4>3, <4>4
      <3> QED BY <3>2, <3>3
    <2>9. \A i \in Called(r, "global")' : accepts'[<<r, i>>] = client'[r].accepts
      BY <1>2, <1>7, <2>2 DEF Announced
    <2>10. \A i \in Positions : transformer'[<<r, i>>] =
            IF i \in Called(r, "postProxy")' THEN Applied(r) ELSE Identity
      BY <1>2, <1>7, <2>2 DEF Announced
    <2>11. v.encoding = IF Called(r, "postProxy")' # {} /\ Applied(r) # Identity
                          THEN Applied(r) ELSE v.upstream
      BY <1>5, <1>7, <2>2 DEF Announced
    <2> QED BY <1>7, <2>1, <2>7, <2>8, <2>9, <2>10, <2>11 DEF Announced, Row
  <1> QED BY <1>7, <1>8, <1>9, StepPreserves DEF Sound

-----------------------------------------------------------------------------
(* The invariant.                                                          *)

\* Lemma: a request arrives, and gets the list of the proxy.
LEMMA ArrivesPreserves ==
    ASSUME IInv, NEW r \in Requests, Arrives(r)
    PROVE  IInv'
  <1>1. /\ TypeOK /\ InTurn(r) /\ Spared(r) /\ Underway(r) /\ Announced(r)
        /\ stage[r] = "new" /\ running = NoRequest /\ chain[r] = <<>> /\ reply[r] = "none"
    BY RequestIsTyped DEF IInv, Sound, Arrives, InTurn, Underway
  <1>2. /\ globals \in Seq(Listed) /\ Len(globals) <= MaxLength /\ MaxLength \in Nat
        /\ DOMAIN globals = 1..Len(globals) /\ Len(globals) \in Nat
        /\ \A i \in 1..Len(globals) : globals[i].type \in Known
    BY <1>1, ListsAreTyped
  <1>3. ran[r] = <<>>
    <2>1. Cardinality(Members(r)) \in 0..0 /\ at[r] \in 1..1
      BY <1>1, Place, ChainIsTyped
    <2>2. Len(ran[r]) = 0
      BY <1>1, <2>1 DEF InTurn, Row
    <2> QED BY <1>1, <2>2, RequestIsTyped
  <1>4. Moves(r, globals, "global", 1, sent[r], response[r], reply[r])
    BY <1>1, SameExcept DEF Arrives, Starts, Moves, Chains
  <1>5. Fits(globals, "global", 1, sent[r], response[r], reply[r])
    BY <1>1, <1>2, RequestIsTyped DEF Fits, Chains
  <1>6. /\ Step(r, globals, "global", 1, sent[r], response[r], reply[r]) /\ TypeOK'
        /\ chain'[r] = globals /\ stage'[r] = "global" /\ at'[r] = 1 /\ sent'[r] = sent[r]
        /\ response'[r] = response[r] /\ client' = client
        /\ accepts' = accepts /\ transformer' = transformer /\ ran' = ran
    BY <1>1, <1>4, <1>5, MovesAreSteps
  <1>7. /\ Members(r)' = 1..Len(globals) /\ Members(r)' = DOMAIN chain'[r]
        /\ Cardinality(Members(r)') = Len(globals)
    <2>1. Members(r)' = 1..Len(globals)
      BY <1>2, <1>6 DEF Members
    <2>2. \A n \in Nat : Cardinality(1..n) = n
      BY FS_Interval
    <2> QED BY <1>2, <1>6, <2>1, <2>2
  <1>8. InTurn(r)'
    <2> DEFINE n == Len(globals)
    <2>1. IsPrefix(ran'[r], Schedule(n))
      <3>1. n \in Nat
        BY <1>2
      <3> HIDE DEF n
      <3> QED BY <1>3, <1>6, <3>1, NoneIsPrefix
    <2>2. Len(ran'[r]) = Row["global"] * n + at'[r] - 1 /\ at'[r] <= n + 1
      BY <1>2, <1>3, <1>6 DEF Row
    <2> QED BY <1>6, <1>7, <2>1, <2>2 DEF InTurn
  <1>9. Spared(r)'
    <2>1. sent'[r] = {} /\ stage'[r] \in Begins /\ Underway(r)' /\ stage'[r] # "preProxy"
      BY <1>1, <1>6 DEF Spared, Begins, Underway
    <2>2. \A i \in 1..(at'[r] - 1) : FALSE
      BY <1>6
    <2> QED BY <2>1, <2>2 DEF Spared
  <1>10. Announced(r)'
    <2>1. /\ Called(r, "global")' = {} /\ Called(r, "postProxy")' = {}
          /\ Called(r, "post")' = {}
      BY <1>6, <1>7 DEF Called, Row, Encoders
    <2>2. Called(r, "postProxy") = {} /\ Called(r, "post") = {}
      BY <1>1 DEF Called, Row
    <2>3. Applied(r)' = Applied(r)
      BY <1>6 DEF Applied
    <2> QED BY <1>1, <1>6, <2>1, <2>2, <2>3 DEF Announced, Row
  <1> QED BY <1>6, <1>8, <1>9, <1>10, StepPreserves DEF Sound

\* Lemma: the gateway is replaced, and no request hears of it.
LEMMA UpdatesPreserves ==
    ASSUME IInv, NEW list \in OwnLists, Updates(list)
    PROVE  IInv'
  <1>1. TypeOK /\ \A q \in Requests : Sound(q)
    BY DEF IInv
  <1>2. \A q \in Requests : Kept(q)
    BY DEF Updates, Kept, encoders
  <1>3. TypeOK'
    BY <1>1, MiddlewaresAssumption DEF TypeOK, Updates, encoders
  <1> QED BY <1>1, <1>2, <1>3, KeptIsSound DEF IInv

\* Lemma: the initial states satisfy the invariant.
LEMMA InitEstablishes == Init => IInv
  <1> SUFFICES ASSUME Init
               PROVE  IInv
    OBVIOUS
  <1>1. TypeOK
    <2>1. /\ globals \in GlobalLists /\ own \in OwnLists /\ updates \in 0..MaxUpdates
          /\ running \in Requests \cup {NoRequest}
          /\ client \in [Requests -> Asked]
      BY MiddlewaresAssumption DEF Init
    <2>2. /\ chain \in [Requests -> Seq(Listed)]
          /\ ran \in [Requests -> Seq(HookNames \X Nat)]
      BY DEF Init
    <2>3. response \in [Requests -> Responses]
      <3>1. [upstream |-> Identity, encoding |-> Identity, length |-> TRUE,
             transforms |-> <<>>] \in Responses
        BY DEF Responses
      <3> QED BY <3>1 DEF Init
    <2>4. /\ stage \in [Requests -> Chains \cup {"new", "awaiting", "ended"}]
          /\ at \in [Requests -> Nat \ {0}]
          /\ sent \in [Requests -> SUBSET {"correlation", "forwarded", "request"}]
          /\ accepts \in [Requests \X Positions -> SUBSET Encodings]
          /\ transformer \in [Requests \X Positions -> Encodings \cup {Identity}]
          /\ reply \in [Requests -> Answers]
      BY DEF Init, Answers
    <2>5. \A r \in Requests :
            /\ stage[r] \in Chains <=> running = r
            /\ at[r] <= Len(chain[r]) + 1
            /\ Len(chain[r]) <= IF stage[r] \in {"new", "global"} THEN MaxLength
                                                                  ELSE 2 * MaxLength
            /\ reply[r] # "none" <=> stage[r] = "ended"
      BY MiddlewaresAssumption DEF Init, Chains
    <2> QED BY <2>1, <2>2, <2>3, <2>4, <2>5 DEF TypeOK
  <1>2. ASSUME NEW r \in Requests
        PROVE  Sound(r)
    <2>1. /\ chain[r] = <<>> /\ stage[r] = "new" /\ at[r] = 1 /\ sent[r] = {}
          /\ ran[r] = <<>> /\ reply[r] = "none"
          /\ response[r].upstream = Identity /\ response[r].encoding = Identity
          /\ response[r].length /\ response[r].transforms = <<>>
          /\ \A i \in Positions : transformer[<<r, i>>] = Identity
      BY DEF Init
    <2>2. Members(r) = {} /\ Encoders(r) = {} /\ Cardinality(Members(r)) = 0
      BY <2>1, FS_EmptySet DEF Members, Encoders
    <2>3. InTurn(r)
      <3>1. IsPrefix(<<>>, Schedule(0))
        BY NoneIsPrefix
      <3> QED BY <2>1, <2>2, <3>1 DEF InTurn, Row
    <2>4. Spared(r)
      BY <2>1, <2>2 DEF Spared, Begins, Underway
    <2>5. Announced(r)
      <3>1. \A c : Called(r, c) = {}
        BY <2>2 DEF Called
      <3> QED BY <2>1, <3>1 DEF Announced
    <2> QED BY <2>3, <2>4, <2>5 DEF Sound
  <1> QED BY <1>1, <1>2 DEF IInv

\* Lemma: every step preserves it.
LEMMA NextPreserves == IInv /\ [Next]_vars => IInv'
  <1> SUFFICES ASSUME IInv, [Next]_vars
               PROVE  IInv'
    OBVIOUS
  <1>1. CASE UNCHANGED vars
    <2>1. TypeOK /\ \A q \in Requests : Sound(q)
      BY DEF IInv
    <2>2. \A q \in Requests : Kept(q)
      BY <1>1 DEF vars, lists, encoders, Kept
    <2>3. TypeOK'
      BY <1>1, <2>1 DEF TypeOK, vars, lists, encoders
    <2> QED BY <2>1, <2>2, <2>3, KeptIsSound DEF IInv
  <1>2. ASSUME NEW list \in OwnLists, Updates(list)
        PROVE  IInv'
    BY <1>2, UpdatesPreserves
  <1>3. ASSUME NEW r \in Requests,
               \/ Arrives(r) \/ EntersGateway(r) \/ ResolvesUpstream(r) \/ Sends(r)
               \/ UpstreamFails(r) \/ PostBegins(r) \/ SendsResponse(r)
        PROVE  IInv'
    BY <1>3, ArrivesPreserves, EntersGatewayPreserves, ResolvesUpstreamPreserves,
       SendsPreserves, UpstreamFailsPreserves, PostBeginsPreserves, SendsResponsePreserves
  <1>4. ASSUME NEW r \in Requests,
               \/ \E c \in Chains : OnProxyRequest(r, c)
               \/ PreUpstreamRequest(r) \/ PostUpstreamResponse(r) \/ OnProxyResponse(r)
               \/ \E e \in {Identity} \cup Encodings : UpstreamResponds(r, e)
        PROVE  IInv'
    BY <1>4, OnProxyRequestPreserves, PreUpstreamRequestPreserves,
       PostUpstreamResponsePreserves, OnProxyResponsePreserves, UpstreamRespondsPreserves
  <1> QED BY <1>1, <1>2, <1>3, <1>4 DEF Next

\* Lemma: the hooks were called in turn.
LEMMA InTurnImplies == IInv => HooksInTurn
  <1> SUFFICES ASSUME IInv, NEW r \in Requests
               PROVE  LET n == Cardinality(Members(r)) IN
                      /\ IsPrefix(ran[r], Schedule(n))
                      /\ reply[r] = "upstream" => Len(ran[r]) = 4 * n
    BY DEF HooksInTurn
  <1> DEFINE n == Cardinality(Members(r))
  <1>1. TypeOK /\ InTurn(r)
    BY DEF IInv, Sound
  <1>2. ASSUME reply[r] = "upstream"
        PROVE  Len(ran[r]) = 4 * n
    <2>1. stage[r] = "ended" /\ Underway(r)
      BY <1>1, <1>2, RequestIsTyped DEF Underway
    <2>2. n \in 0..Len(chain[r]) /\ Len(chain[r]) \in Nat
      BY <1>1, <2>1, Place, ChainIsTyped
    <2>3. at[r] = n + 1 /\ Len(ran[r]) = 3 * n + at[r] - 1
      BY <1>1, <2>1 DEF InTurn, Row
    <2> HIDE DEF n
    <2> QED BY <2>2, <2>3
  <1> QED BY <1>1, <1>2 DEF InTurn

\* Lemma: what a middleware answers is never forwarded.
LEMMA SparedImplies == IInv => InterceptedNeverForwarded
  <1> SUFFICES ASSUME IInv, NEW r \in Requests
               PROVE  /\ Interceptors(r) # {} /\ stage[r] = "ended" =>
                           reply[r] = Status(chain[r][Min(Interceptors(r))], client[r])
                      /\ Interceptors(r) # {} => "request" \notin sent[r]
                      /\ "request" \in sent[r] => \A i \in Members(r) :
                           /\ chain[r][i].type = "CorrelationId" => "correlation" \in sent[r]
                           /\ chain[r][i].type = "ForwardHeaders" => "forwarded" \in sent[r]
    BY Zenon DEF InterceptedNeverForwarded
  <1>1. Spared(r)
    BY DEF IInv, Sound
  <1>2. stage[r] = "ended" => stage[r] \notin Begins
    BY DEF Begins
  <1> QED BY <1>1, <1>2 DEF Spared

\* Lemma: the body is encoded as announced.
LEMMA AnnouncedImplies == IInv => EncodedAsAnnounced
  <1> SUFFICES ASSUME IInv, NEW r \in Requests, reply[r] = "upstream",
                      Cardinality(Encoders(r)) <= 1
               PROVE  IF response[r].upstream # Identity
                        THEN response[r].transforms = <<>>
                        ELSE LET e == response[r].encoding IN
                             /\ response[r].transforms = IF e = Identity THEN <<>> ELSE <<e>>
                             /\ e # Identity => e \in client[r].accepts /\ ~response[r].length
                             /\ Encoders(r) # {} /\ client[r].accepts # {} => e # Identity
    BY DEF EncodedAsAnnounced
  <1>1. /\ TypeOK /\ InTurn(r) /\ stage[r] = "ended" /\ Underway(r) /\ Announced(r)
    BY RequestIsTyped DEF IInv, Sound, Underway
  <1>2. Called(r, "postProxy") = Encoders(r) /\ Called(r, "post") = Encoders(r)
    <2> DEFINE n == Cardinality(Members(r))
    <2>1. n \in Nat /\ Members(r) = 1..n /\ at[r] = n + 1
      <3>1. n \in 0..Len(chain[r]) /\ Len(chain[r]) \in Nat /\ Members(r) = 1..n
        BY <1>1, Place, ChainIsTyped
      <3> QED BY <1>1, <3>1 DEF InTurn
    <2> HIDE DEF n
    <2>2. \A i \in Encoders(r) : i < at[r]
      BY <2>1 DEF Encoders
    <2> QED BY <1>1, <2>2 DEF Called, Row
  <1>3. /\ response[r].encoding = IF Encoders(r) # {} /\ Applied(r) # Identity
                                    THEN Applied(r) ELSE response[r].upstream
        /\ response[r].transforms = IF Encoders(r) = {} \/ Applied(r) = Identity
                                      THEN <<>> ELSE <<Applied(r)>>
        /\ response[r].length <=> response[r].transforms = <<>>
    BY <1>1, <1>2 DEF Announced
  <1>4. client[r].accepts \subseteq Encodings
    BY <1>1, RequestIsTyped DEF Asked
  <1>5. /\ Chosen(client[r].accepts) # Identity =>
             Chosen(client[r].accepts) \in client[r].accepts
        /\ client[r].accepts # {} => Chosen(client[r].accepts) # Identity
    BY <1>4 DEF Chosen, Encodings, Identity
  <1>6. CASE response[r].upstream # Identity
    <2>1. Applied(r) = Identity
      BY <1>6 DEF Applied
    <2> QED BY <1>3, <1>6, <2>1
  <1>7. CASE response[r].upstream = Identity
    <2>1. Applied(r) = Chosen(client[r].accepts)
      BY <1>7 DEF Applied
    <2>2. CASE Encoders(r) = {} \/ Applied(r) = Identity
      BY <1>3, <1>5, <1>7, <2>1, <2>2
    <2>3. CASE Encoders(r) # {} /\ Applied(r) # Identity
      <3>1. <<Applied(r)>> # <<>>
        OBVIOUS
      <3> QED BY <1>3, <1>5, <1>7, <2>1, <2>3, <3>1
    <2> QED BY <2>2, <2>3
  <1> QED BY <1>6, <1>7

\* The chains of every request, whatever the lists, the clients, the other requests and
\* the replacements of the gateway: each hook is called once and in turn, a request a
\* middleware answers is not forwarded, and a body is encoded as its headers announce
\* and as this client accepts.
THEOREM Invariance ==
    Spec => [](TypeOK /\ HooksInTurn /\ InterceptedNeverForwarded /\ EncodedAsAnnounced)
  <1>1. IInv => TypeOK
    BY DEF IInv
  <1> QED BY <1>1, InitEstablishes, NextPreserves, InTurnImplies, SparedImplies,
             AnnouncedImplies, PTL DEF Spec
=============================================================================
