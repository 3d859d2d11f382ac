------------------------------ MODULE Exchange ------------------------------
(***************************************************************************)
(* What the proxy promises one request: "The handler function is           *)
(* responsible for processing the request and generating the appropriate   *)
(* response" (proxy.ts).  The appropriate response is told by what became  *)
(* of the upstream: the proxy refuses only what it has not forwarded; it   *)
(* reports a failure when the upstream is lost before it answered, then    *)
(* and at no other time; and what it relays ends as a whole only when the  *)
(* upstream's answer was whole.                                            *)
(***************************************************************************)
CONSTANTS
    Refusals,   \* the statuses of the proxy and its middlewares
    Failures,   \* the statuses that report a lost upstream
    Relayed,    \* the status of an upstream that answers
    None        \* no status yet

VARIABLES
    phase,      \* the response: open, answered, complete, broken; client gone
    status,     \* its status
    source,     \* the upstream: none, connecting, pending, whole or lost
    quiet       \* the upstream may be lost without any error

vars == <<phase, status, source, quiet>>

Init == phase = "open" /\ status = None /\ source = "none" /\ quiet \in BOOLEAN

Refuse ==
    /\ phase = "open" /\ source = "none"
    /\ phase' = "complete" /\ status' \in Refusals
    /\ UNCHANGED source

Ask ==
    /\ phase \in {"open", "gone"} /\ source = "none"
    /\ source' \in {"connecting", "pending"}
    /\ UNCHANGED <<phase, status>>

Reach ==
    /\ source = "connecting" /\ source' = "pending"
    /\ UNCHANGED <<phase, status>>

\* The client is told in the very step in which the upstream is lost.
Fail ==
    /\ phase = "open" /\ source \in {"connecting", "pending"}
    /\ source' = "lost"
    /\ phase' = "complete" /\ status' \in Failures

LoseQuietly ==
    /\ quiet /\ phase = "open" /\ source = "pending"
    /\ source' = "lost"
    /\ UNCHANGED <<phase, status>>

Relay ==
    /\ phase = "open" /\ source = "pending"
    /\ phase' \in {"answered", "complete"} /\ status' = Relayed
    /\ UNCHANGED source

Finish ==
    /\ phase = "answered" /\ source = "pending"
    /\ source' = "whole" /\ phase' = "complete"
    /\ UNCHANGED status

\* A body that lost its source is cut, or waits until the client leaves.
Break ==
    /\ phase = "answered" /\ source = "pending"
    /\ source' = "lost" /\ phase' \in {"broken", "answered"}
    /\ UNCHANGED status

Leave ==
    /\ phase \in {"open", "answered"}
    /\ phase' = "gone" /\ status' = None
    /\ source' = source \/ (source = "pending" /\ source' = "lost")

\* When the response is over, the upstream may still come to its end.
Settle ==
    /\ phase \in {"complete", "broken", "gone"}
    /\ source \in {"connecting", "pending"} /\ source' \in {"whole", "lost"}
    /\ UNCHANGED <<phase, status>>

Next ==
    /\ \/ Refuse \/ Ask \/ Reach \/ Fail \/ LoseQuietly
       \/ Relay \/ Finish \/ Break \/ Leave \/ Settle
    /\ UNCHANGED quiet

Safety == Init /\ [][Next]_vars
=============================================================================
