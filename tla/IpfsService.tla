----------------------------- MODULE IpfsService -----------------------------
(***************************************************************************)
(* What ipfs_request_start and ipfs_response_wait promise an offchain      *)
(* worker: every request has an identifier of its own, its answer is       *)
(* handed out at most once, and only to a wait for it.  A wait may be for  *)
(* any identifiers, also for some that were waited for or never handed out.*)
(***************************************************************************)
EXTENDS FrameStorage

CONSTANTS Requests, Ids

VARIABLES
    asked,      \* id -> request
    outcome,    \* id -> what the IPFS node made of it
    crashed,    \* the background worker is gone
    finished,   \* the requests whose response was handed out
    returned    \* the statuses returned by the last wait, and whether it had a deadline

vars == <<asked, outcome, crashed, finished, returned>>

Init ==
    /\ asked = << >> /\ outcome = << >>
    /\ crashed = FALSE
    /\ finished = {}
    /\ returned = [statuses |-> << >>, deadline |-> FALSE]

Start(id, request) ==
    /\ id \notin DOMAIN asked
    /\ asked' = Insert(asked, id, request)
    /\ UNCHANGED <<outcome, crashed, finished, returned>>

Answer(id, result) ==
    /\ id \in DOMAIN asked \ DOMAIN outcome
    /\ outcome' = Insert(outcome, id, result)
    /\ UNCHANGED <<asked, crashed, finished, returned>>

Crash ==
    /\ crashed' = TRUE
    /\ UNCHANGED <<asked, outcome, finished, returned>>

\* A status that a wait may return for id.  A request that failed may be forgotten, one
\* whose response was handed out, or lost in the crash of the worker, looks as if its
\* deadline had been reached.
Justified(id, status, deadline) ==
    LET failed == id \in DOMAIN outcome /\ outcome[id] = "err"
    IN  \/ /\ status[1] = "Finished"
           /\ id \in DOMAIN outcome \ finished
           /\ outcome[id] = "ok" /\ status[2] = asked[id]
        \/ status[1] = "IoError" /\ (crashed \/ failed)
        \/ /\ status[1] = "DeadlineReached"
           /\ id \in DOMAIN asked
           /\ deadline \/ id \in finished \/ (crashed /\ id \in DOMAIN outcome)
        \/ status[1] = "Invalid" /\ (id \notin DOMAIN asked \/ failed)

Return ==
    /\ \A id \in DOMAIN returned'.statuses :
         Justified(id, returned'.statuses[id], returned'.deadline)
    /\ finished' = finished \cup
         {id \in DOMAIN returned'.statuses : returned'.statuses[id][1] = "Finished"}
    /\ UNCHANGED <<asked, outcome, crashed>>

Next ==
    \/ \E id \in Ids, request \in Requests : Start(id, request)
    \/ \E id \in Ids, result \in {"ok", "err"} : Answer(id, result)
    \/ Crash
    \/ Return

Spec == Init /\ [][Next]_vars
=============================================================================
