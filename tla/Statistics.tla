----------------------------- MODULE Statistics -----------------------------
(***************************************************************************)
(* The statistics of one gateway: saveResponseStatus of both repositories. *)
(* In memory, which is that of one process, a record is saved within the   *)
(* macrotask that made it.  Redis                                          *)
(* is shared by the worker processes: the latency and the number of        *)
(* requests are read in one transaction and the result is written in       *)
(* another, with whatever other records do in between.  The commands of a  *)
(* process go over one connection and are executed in the order they were  *)
(* sent.                                                                   *)
(***************************************************************************)
EXTENDS Integers, FiniteSets, FiniteSetsExt

CONSTANTS
    Backends,       \* the repositories considered: "memory", "redis"
    Processes,      \* the processes that serve requests
    Statuses,       \* the statuses of the responses
    Timings,        \* how many milliseconds a request takes
    MaxServed       \* bound on the requests served

ASSUME StatisticsAssumption ==
    /\ Backends \subseteq {"memory", "redis"}
    /\ Timings \subseteq Nat
    /\ MaxServed \in Nat

VARIABLES
    backend,        \* the repository in use
    stats,          \* the hash 'stats', or the map _stats
    pending,        \* the records whose saving is under way
    served,         \* how many requests were served; the clock of the dates
    saved,          \* history: the records saved
    spent           \* history: their timings, added up

vars == <<backend, stats, pending, served, saved, spent>>

\* ResponseStats; the date of a record is the order it was made in.
Records == [date : 1..MaxServed, by : Processes, status : Statuses, timing : Timings]

TypeOK ==
    /\ backend \in Backends
    /\ stats \in [latency : Nat, req : Nat, last : 0..served, count : [Statuses -> Nat]]
    /\ pending \subseteq [record : Records, read : BOOLEAN, latency : Nat, req : Nat]
    /\ served \in 0..MaxServed
    /\ saved \subseteq Records
    /\ spent \in Nat

\* A field that is not there reads as 0.
Init ==
    /\ backend \in Backends
    /\ stats = [latency |-> 0, req |-> 0, last |-> 0, count |-> [s \in Statuses |-> 0]]
    /\ pending = {}
    /\ served = 0
    /\ saved = {}
    /\ spent = 0

-----------------------------------------------------------------------------
\* Mutant of NewAverage: divides by the requests there were.
NewAverageOffByOne(average, total, timing) ==
    (average * total + timing) \div (IF total = 0 THEN 1 ELSE total)

\* Math.trunc of the weighted mean; nothing is negative here.
NewAverage(average, total, timing) == (average * total + timing) \div (total + 1)

\* Mutant of Updated: the number of requests is computed from what was read.
UpdatedFromRead(latency, req, r) ==
    [latency |-> NewAverage(latency, req, r.timing),
     req |-> req + 1,
     last |-> r.date,
     count |-> [stats.count EXCEPT ![r.status] = @ + 1]]

\* Mutant of Updated: the date is only set when there is none.
UpdatedKeepsDate(latency, req, r) ==
    [latency |-> NewAverage(latency, req, r.timing),
     req |-> stats.req + 1,
     last |-> IF stats.last = 0 THEN r.date ELSE stats.last,
     count |-> [stats.count EXCEPT ![r.status] = @ + 1]]

\* Mutant of Updated: the counts of the other statuses are overwritten.
UpdatedCountsAlone(latency, req, r) ==
    [latency |-> NewAverage(latency, req, r.timing),
     req |-> stats.req + 1,
     last |-> r.date,
     count |-> [s \in {r.status} |-> stats.count[s] + 1]]

\* What a save leaves, given what it read before; the counters are incremented
\* in place.
Updated(latency, req, r) ==
    [latency |-> NewAverage(latency, req, r.timing),
     req |-> stats.req + 1,
     last |-> r.date,
     count |-> [stats.count EXCEPT ![r.status] = @ + 1]]

\* The collector's report becomes a record (requestServed), and 'stats' saves
\* it: at once in memory, by a first round trip to Redis otherwise.
Serves(p, status, timing) ==
    /\ served < MaxServed
    /\ served' = served + 1
    /\ LET r == [date |-> served + 1, by |-> p, status |-> status, timing |-> timing] IN
         \/ /\ backend = "memory" /\ \A q \in saved : q.by = p
            /\ stats' = Updated(stats.latency, stats.req, r)
            /\ saved' = saved \cup {r}
            /\ spent' = spent + timing
            /\ UNCHANGED pending
         \/ /\ backend = "redis"
            /\ pending' = pending \cup
                 {[record |-> r, read |-> FALSE, latency |-> 0, req |-> 0]}
            /\ UNCHANGED <<stats, saved, spent>>
    /\ UNCHANGED backend

Earlier(q, p) == q.record.by = p.record.by /\ q.record.date < p.record.date

\* The first transaction: both fields are read together.
Reads(p) ==
    /\ ~p.read
    /\ \A q \in pending : Earlier(q, p) => q.read
    /\ pending' = (pending \ {p}) \cup
         {[p EXCEPT !.read = TRUE, !.latency = stats.latency, !.req = stats.req]}
    /\ UNCHANGED <<backend, stats, served, saved, spent>>

\* The second transaction.
Writes(p) ==
    /\ p.read
    /\ \A q \in pending : ~Earlier(q, p)
    /\ stats' = Updated(p.latency, p.req, p.record)
    /\ saved' = saved \cup {p.record}
    /\ spent' = spent + p.record.timing
    /\ pending' = pending \ {p}
    /\ UNCHANGED <<backend, served>>

\* The connection of a process breaks: commands on their way are rejected, and
\* the record is given up with a line in the log.
Disconnects(by) ==
    /\ \E lost \in SUBSET {p \in pending : p.record.by = by} :
         lost # {} /\ pending' = pending \ lost
    /\ UNCHANGED <<backend, stats, served, saved, spent>>

Next ==
    \/ \E p \in Processes, s \in Statuses, t \in Timings : Serves(p, s, t)
    \/ \E p \in pending : Reads(p) \/ Writes(p)
    \/ \E by \in Processes : Disconnects(by)

Spec == Init /\ [][Next]_vars

-----------------------------------------------------------------------------
\* However the records of the workers interleave, none that was saved is
\* missing from the number of requests or from the count of its status.
CountsAddUp ==
    /\ stats.req = Cardinality(saved)
    /\ \A s \in Statuses : stats.count[s] = Cardinality({r \in saved : r.status = s})

Within(latency) ==
    /\ \E r \in saved : r.timing <= latency
    /\ \E r \in saved : latency <= r.timing

\* The latency shown is never outside of what was measured, though it may be
\* computed from an average and a number that are both stale.
LatencyWithinTimings == saved # {} => Within(stats.latency)

\* "Last request timestamp" (response-stats.ts): the date shown is that of the
\* last request some process has saved, though not the last one of all when the
\* later request of another process was saved first.
LastRequestOfProcess ==
    saved # {} =>
       \E p \in Processes : stats.last = Max({0} \cup {r.date : r \in {q \in saved : q.by = p}})

\* In memory, where nothing comes between reading and writing, the latency is
\* never above the mean of the timings.  The truncated mean is what the next one
\* starts from, so the fractions add up: the latency may fall behind the mean,
\* by up to half a millisecond for each request before the last, and no more.
LatencyDrifts ==
    LET n == Cardinality(saved)
        behind == spent - n * stats.latency IN
    backend = "memory" => 0 <= behind /\ 2 * behind <= n * (n - 1)

-----------------------------------------------------------------------------
(* Why they hold.                                                          *)

\* The dates tell the records apart, and those of a process are saved in order.
DatesInOrder ==
    /\ \A r \in saved : r.date <= served
    /\ \A p \in pending : p.record.date <= served
    /\ \A p, q \in pending : p.record.date = q.record.date => p = q
    /\ \A p \in pending, r \in saved :
         /\ r.date # p.record.date
         /\ r.by = p.record.by => r.date < p.record.date

\* What was read is an average of records that are saved, or there was none.
ReadIsOld == \A p \in pending : p.read => p.req = 0 \/ Within(p.latency)

\* The inductive invariant.
IInv ==
    /\ TypeOK /\ IsFiniteSet(saved)
    /\ backend = "memory" => pending = {}
    /\ CountsAddUp /\ LatencyWithinTimings /\ LastRequestOfProcess /\ LatencyDrifts
    /\ DatesInOrder /\ ReadIsOld
=============================================================================
