---------------------------- MODULE GatewayHosts ----------------------------
(***************************************************************************)
(* GatewayHostService: a Map of the gateways of exact domains and an array *)
(* of the wildcard gateways, searched from its start.                      *)
(***************************************************************************)
EXTENDS Integers, Sequences, SequencesExt

CONSTANTS
    Names,          \* host names without "www."
    Wild,           \* domains with a "*"
    MatchesName,    \* pairs of a wildcard domain and a name it matches
    Saved,          \* the exact domains gateways are saved for
    MaxChanges      \* bound on the gateways added

\* A domain is a name, with "www." before it or without.
Exact == [name : Names, www : BOOLEAN]
Domain(n, www) == [name |-> n, www |-> www]

ASSUME HostsAssumption ==
    /\ Wild \cap Exact = {}
    /\ Saved \subseteq Exact
    /\ MatchesName \subseteq Wild \X Names
    /\ MaxChanges \in Nat

\* A Host header: a domain, and a port or none.
Headers == [domain : Exact, port : BOOLEAN]

VARIABLES
    wellDefinedHosts,   \* the version of the gateway of an exact domain, or 0
    regexBasedHosts,    \* the wildcard gateways, in the order they are asked
    changes,            \* how many gateways were added
    answer              \* what the last resolveGateway gave; 0 when it threw

hostsVars == <<wellDefinedHosts, regexBasedHosts, changes, answer>>

HostVersions == 0..MaxChanges

HostsTypeOK ==
    /\ wellDefinedHosts \in [Exact -> HostVersions]
    /\ regexBasedHosts \in Seq([domain : Wild, version : HostVersions \ {0}])
    /\ changes \in HostVersions
    /\ answer \in HostVersions

HostsInit ==
    /\ wellDefinedHosts = [d \in Exact |-> 0]
    /\ regexBasedHosts = <<>>
    /\ changes = 0
    /\ answer = 0

-----------------------------------------------------------------------------
\* find, indexOf and splice: the first gateway of the domain goes.
Spliced(domain) ==
    IF \E g \in ToSet(regexBasedHosts) : g.domain = domain
      THEN RemoveAt(regexBasedHosts,
                    SelectInSeq(regexBasedHosts, LAMBDA g : g.domain = domain))
      ELSE regexBasedHosts

\* Mutant of AddWildcard: an update does not take the old gateway out.
AddWildcardTwice(w) ==
    /\ changes < MaxChanges
    /\ changes' = changes + 1
    /\ regexBasedHosts' = Append(regexBasedHosts, [domain |-> w, version |-> changes + 1])
    /\ UNCHANGED <<wellDefinedHosts, answer>>

\* addGatewayHost, of a gateway that is regex based and of one that is not.
AddWildcard(w) ==
    /\ changes < MaxChanges
    /\ changes' = changes + 1
    /\ regexBasedHosts' = Append(Spliced(w), [domain |-> w, version |-> changes + 1])
    /\ UNCHANGED <<wellDefinedHosts, answer>>

AddExact(d) ==
    /\ changes < MaxChanges
    /\ changes' = changes + 1
    /\ wellDefinedHosts' = [wellDefinedHosts EXCEPT ![d] = changes + 1]
    /\ UNCHANGED <<regexBasedHosts, answer>>

\* Mutant of RemoveByKey: the wildcard gateway is blanked in its place.
RemoveByKeyBlanks ==
    /\ \/ \E d \in Exact : /\ wellDefinedHosts[d] # 0
                           /\ wellDefinedHosts' = [wellDefinedHosts EXCEPT ![d] = 0]
                           /\ UNCHANGED regexBasedHosts
       \/ \E i \in DOMAIN regexBasedHosts :
            /\ regexBasedHosts' = [regexBasedHosts EXCEPT ![i].version = 0]
            /\ UNCHANGED wellDefinedHosts
    /\ UNCHANGED <<changes, answer>>

\* removeVirtualHostByKey
RemoveByKey ==
    /\ \/ \E d \in Exact : /\ wellDefinedHosts[d] # 0
                           /\ wellDefinedHosts' = [wellDefinedHosts EXCEPT ![d] = 0]
                           /\ UNCHANGED regexBasedHosts
       \/ \E w \in Wild : /\ regexBasedHosts' = Spliced(w)
                          /\ UNCHANGED wellDefinedHosts
    /\ UNCHANGED <<changes, answer>>

\* The domain that is looked up: without a "www." and a port.
LookedUp(header) == Domain(header.domain.name, FALSE)

Match(g, d) == <<g.domain, d.name>> \in MatchesName

\* The first of the wildcard gateways that matches, 0 for none.
FirstMatch(d) == SelectInSeq(regexBasedHosts, LAMBDA g : Match(g, d))

\* resolveGateway
ResolveGateway(header) ==
    LET d == LookedUp(header)
        first == FirstMatch(d) IN
    /\ \/ /\ wellDefinedHosts[d] # 0
          /\ answer' = wellDefinedHosts[d]
          /\ UNCHANGED wellDefinedHosts
       \/ /\ wellDefinedHosts[d] = 0 /\ first # 0
          /\ answer' = regexBasedHosts[first].version
          /\ wellDefinedHosts' =
               [wellDefinedHosts EXCEPT ![d] = regexBasedHosts[first].version]
       \/ /\ wellDefinedHosts[d] = 0 /\ first = 0
          /\ answer' = 0
          /\ UNCHANGED wellDefinedHosts
    /\ UNCHANGED <<regexBasedHosts, changes>>

HostsNext ==
    \/ \E w \in Wild : AddWildcard(w)
    \/ \E d \in Saved : AddExact(d)
    \/ RemoveByKey
    \/ \E header \in Headers : ResolveGateway(header)

HostsSpec == HostsInit /\ [][HostsNext]_hostsVars

-----------------------------------------------------------------------------
\* The Map and the array are one table: whatever is added, updated, removed and
\* cloned, a request gets the last gateway of its domain, or a clone of the
\* matching wildcard gateway that has been there longest.
Positions == DOMAIN regexBasedHosts

Before == {<<regexBasedHosts[p[1]].domain, regexBasedHosts[p[2]].domain>> :
             p \in {q \in Positions \X Positions : q[1] < q[2]}}

Held(d) ==
    IF d \in Exact THEN wellDefinedHosts[d]
    ELSE IF \E i \in Positions : regexBasedHosts[i].domain = d
      THEN LET i == CHOOSE j \in Positions : regexBasedHosts[j].domain = d IN
           regexBasedHosts[i].version
      ELSE 0

Table == INSTANCE GatewayTable
    WITH Matches <- {p \in Wild \X Exact : <<p[1], p[2].name>> \in MatchesName},
         held <- [d \in Exact \cup Wild |-> Held(d)],
         before <- Before,
         Versions <- HostVersions

KeepsTable == Table!Spec
=============================================================================
