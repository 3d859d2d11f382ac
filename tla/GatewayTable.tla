---------------------------- MODULE GatewayTable ----------------------------
(***************************************************************************)
(* What GatewayHostService promises: one gateway per domain, the last one  *)
(* that was added; a request gets the gateway of its domain, or a clone of *)
(* the matching wildcard gateway that has been there longest since it was  *)
(* last added, and the clone becomes the gateway of that domain.           *)
(***************************************************************************)
EXTENDS Integers

CONSTANTS
    Exact,          \* domains without a "*"
    Wild,           \* domains with a "*"
    Matches,        \* pairs of a wildcard domain and a domain it matches
    Versions        \* contents of gateways; 0 is none

VARIABLES
    held,           \* the gateway of each domain
    before,         \* pairs of wildcard domains, in the order they are asked
    answer          \* what the last request for a gateway got

vars == <<held, before, answer>>

Init ==
    /\ held = [d \in Exact \cup Wild |-> 0]
    /\ before = {}
    /\ answer = 0

\* No wildcard gateway is before or after itself, or one that is not there.
Without(w) == {p \in before : w \notin {p[1], p[2]}}

Add(d, v) ==
    /\ v # 0
    /\ held' = [held EXCEPT ![d] = v]
    /\ before' = IF d \in Exact THEN before
                 ELSE Without(d) \cup {<<w, d>> : w \in {x \in Wild \ {d} : held[x] # 0}}
    /\ UNCHANGED answer

Remove(d) ==
    /\ held' = [held EXCEPT ![d] = 0]
    /\ before' = Without(d)
    /\ UNCHANGED answer

Candidates(d) == {w \in Wild : held[w] # 0 /\ <<w, d>> \in Matches}

Resolve(d) ==
    /\ \/ /\ held[d] # 0
          /\ answer' = held[d] /\ UNCHANGED held
       \/ /\ held[d] = 0
          /\ \E w \in Candidates(d) :
               /\ \A x \in Candidates(d) \ {w} : <<w, x>> \in before
               /\ answer' = held[w] /\ held' = [held EXCEPT ![d] = held[w]]
       \/ /\ held[d] = 0 /\ Candidates(d) = {}
          /\ answer' = 0 /\ UNCHANGED held
    /\ UNCHANGED before

Next ==
    \/ \E d \in Exact \cup Wild : Remove(d) \/ \E v \in Versions : Add(d, v)
    \/ \E d \in Exact : Resolve(d)

Spec == Init /\ [][Next]_vars
=============================================================================
