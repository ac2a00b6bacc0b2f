---------------------------- MODULE IpfsOffchain ----------------------------
(***************************************************************************)
(* IpfsApi and IpfsWorker of client/offchain: the thread of an offchain    *)
(* worker starts IPFS requests and blocks for their responses, a           *)
(* background task drives them, and two channels connect the two.  The     *)
(* thread, the task, the IPFS node and the clock interleave; the task is   *)
(* polled only when it has been woken.                                     *)
(***************************************************************************)
EXTENDS FrameStorage

CONSTANTS
    Requests,     \* IpfsRequest, identified with the response to it
    FirstIds,     \* rand::random::<u16>() % 2000
    MaxId,        \* u16::MAX
    RawIds,       \* identifiers a caller waits for without a PendingRequest
    None

ASSUME IdsAssumption ==
    MaxId \in Nat /\ FirstIds \subseteq 0 .. MaxId /\ RawIds \subseteq 0 .. MaxId

VARIABLES
    \* IpfsApi and its caller
    next_id,
    requests,     \* id -> IpfsApiRequest
    held,         \* the PendingRequests of the caller
    wait,         \* the call of response_wait that is blocked, or NoWait
    api,          \* the offchain worker still runs, IpfsApi is not dropped
    \* the channels
    to_worker, from_worker,
    \* IpfsWorker
    working,      \* its vector of requests
    n,            \* request to poll next in this call of poll; 0: the channel; -1: no call
    woken,        \* the task will be polled again
    listening,    \* the channel holds the task's waker
    worker,       \* the task is alive
    \* the IPFS node
    begun,        \* futures that were polled
    answer,       \* id -> what the node made of it
    \* history
    asked, outcome, finished, returned

apiVars == <<next_id, requests, held, wait, api, asked, finished, returned>>
workerVars == <<working, n, worker, begun, outcome>>
vars == <<next_id, requests, held, wait, api, to_worker, from_worker, working, n, woken,
          listening, worker, begun, answer, asked, outcome, finished, returned>>

Ids == 0 .. MaxId

\* IpfsApiRequest; Success is the placeholder for a response that was handed out.
Dispatched == <<"Dispatched", None>>
Response(value) == <<"Response", value>>
Fail == <<"Fail", None>>
Success == <<"Success", None>>

\* A call of response_wait: what it waits for, its deadline and its output so far.
Blocked(ids, deadline, statuses) == [ids |-> ids, deadline |-> deadline, statuses |-> statuses]
NoWait == Blocked({}, "none", << >>)

Init ==
    /\ next_id \in FirstIds /\ requests = << >> /\ held = {} /\ wait = NoWait /\ api = TRUE
    /\ to_worker = <<>> /\ from_worker = <<>>
    /\ working = <<>> /\ n = -1 /\ woken = TRUE /\ listening = FALSE /\ worker = TRUE
    /\ begun = {} /\ answer = << >>
    /\ asked = << >> /\ outcome = << >> /\ finished = {}
    /\ returned = [statuses |-> << >>, deadline |-> FALSE]

-----------------------------------------------------------------------------
\* The thread of the offchain worker

Running == api /\ wait = NoWait

\* checked_add(1) is Some; otherwise request_start is an error.
CanStart == next_id < MaxId

\* Mutant of FreshId: the identifier wraps.
WrappedId == (next_id + 1) % MaxId

FreshId == next_id + 1

\* request_start: the message goes to the worker, if there is one, and wakes it.
request_start(request) ==
    /\ Running
    /\ CanStart
    /\ next_id' = FreshId
    /\ to_worker' = IF worker THEN Append(to_worker, <<next_id, request>>) ELSE to_worker
    /\ woken' = (woken \/ (worker /\ listening))
    /\ listening' = FALSE
    /\ requests' = Insert(requests, next_id, Dispatched)
    /\ held' = held \cup {next_id}
    /\ asked' = Insert(asked, next_id, request)
    /\ UNCHANGED <<wait, api, finished, returned, from_worker, workerVars, answer>>

\* Mutant of Statuses: every pass starts from DeadlineReached.
StatusesAnew(reqs, w) ==
    [id \in w.ids |->
        IF id \notin DOMAIN reqs THEN <<"Invalid", None>>
        ELSE IF reqs[id] = Fail THEN <<"IoError", None>>
        ELSE IF reqs[id][1] = "Response" THEN <<"Finished", reqs[id][2]>>
        ELSE <<"DeadlineReached", None>>]

\* One pass over ids: the statuses, kept from the pass before where nothing is new ...
Statuses(reqs, w) ==
    [id \in w.ids |->
        IF id \notin DOMAIN reqs THEN <<"Invalid", None>>
        ELSE IF reqs[id] = Fail THEN <<"IoError", None>>
        ELSE IF reqs[id][1] = "Response" THEN <<"Finished", reqs[id][2]>>
        ELSE w.statuses[id]]

\* ... and the requests, where a response that is handed out becomes the placeholder.
Taken(reqs, ids) ==
    [id \in DOMAIN reqs |->
        IF id \in ids /\ reqs[id][1] = "Response" THEN Success ELSE reqs[id]]

MustWaitMore(reqs, ids) == \E id \in ids \cap DOMAIN reqs : reqs[id] = Dispatched

\* response_wait returns: PendingRequest::try_wait_all gives back the requests whose
\* deadline was reached.
ReturnStatuses(statuses, deadline) ==
    /\ wait' = NoWait
    /\ returned' = [statuses |-> statuses, deadline |-> deadline # "none"]
    /\ held' = {id \in held : id \in DOMAIN statuses => statuses[id][1] = "DeadlineReached"}
    /\ finished' = finished \cup {id \in DOMAIN statuses : statuses[id][1] = "Finished"}

\* The body of the loop up to the point where it blocks or returns; failed requests
\* are purged on return.
Pass(reqs, w) ==
    LET statuses == Statuses(reqs, w)
        kept == Taken(reqs, w.ids)
    IN  IF w.deadline = "done" \/ ~MustWaitMore(reqs, w.ids)
        THEN /\ ReturnStatuses(statuses, w.deadline)
             /\ requests' = [id \in {i \in DOMAIN kept :
                                       i \in w.ids => statuses[i][1] # "IoError"} |-> kept[id]]
        ELSE /\ wait' = Blocked(w.ids, w.deadline, statuses)
             /\ requests' = kept
             /\ UNCHANGED <<returned, held, finished>>

\* response_wait is called; deadline is "none", or "ahead" until its time comes.
response_wait(ids, deadline) ==
    /\ Running
    /\ ids # {} /\ ids \subseteq held \cup RawIds
    /\ Pass(requests, Blocked(ids, deadline, [id \in ids |-> <<"DeadlineReached", None>>]))
    /\ UNCHANGED <<next_id, api, asked, to_worker, from_worker, workerVars, woken, listening, answer>>

\* What a message from the worker makes of requests: a request that is not in the
\* state Dispatched is dropped, "State mismatch between the API and worker".
Updated(reqs, msg) ==
    IF msg[1] \in DOMAIN reqs /\ reqs[msg[1]] = Dispatched
    THEN Insert(reqs, msg[1], msg[2])
    ELSE RemoveKey(reqs, msg[1])

\* The next message arrives at a blocked response_wait, and the loop goes round.
Receive ==
    /\ wait # NoWait /\ from_worker # <<>>
    /\ from_worker' = Tail(from_worker)
    /\ Pass(Updated(requests, Head(from_worker)), wait)
    /\ UNCHANGED <<next_id, api, asked, to_worker, workerVars, woken, listening, answer>>

\* Mutant of DeadlineNoticed: the deadline is polled again in the next pass.
DeadlineForgotten ==
    /\ wait # NoWait /\ from_worker = <<>> /\ worker
    /\ wait.deadline = "passed"
    /\ Pass(requests, wait)
    /\ UNCHANGED <<next_id, api, asked, to_worker, from_worker, workerVars, woken, listening, answer>>

\* select looks at the messages first: the deadline is noticed when there is none.
DeadlineNoticed ==
    /\ wait # NoWait /\ from_worker = <<>> /\ worker
    /\ wait.deadline = "passed"
    /\ Pass(requests, Blocked(wait.ids, "done", wait.statuses))
    /\ UNCHANGED <<next_id, api, asked, to_worker, from_worker, workerVars, woken, listening, answer>>

\* "The IPFS worker has crashed!": every status is an error, and nothing is purged.
CrashNoticed ==
    /\ wait # NoWait /\ from_worker = <<>> /\ ~worker
    /\ ReturnStatuses([id \in wait.ids |-> <<"IoError", None>>], wait.deadline)
    /\ UNCHANGED <<next_id, requests, api, asked, to_worker, from_worker, workerVars, woken,
                   listening, answer>>

\* The clock reaches the deadline of the blocked call.
DeadlinePasses ==
    /\ wait # NoWait /\ wait.deadline = "ahead"
    /\ wait' = Blocked(wait.ids, "passed", wait.statuses)
    /\ UNCHANGED <<next_id, requests, held, api, asked, finished, returned, to_worker,
                   from_worker, workerVars, woken, listening, answer>>

\* The offchain worker ends, and IpfsApi is dropped with it.
DropApi ==
    /\ Running
    /\ api' = FALSE
    /\ woken' = (woken \/ (worker /\ listening)) /\ listening' = FALSE
    /\ UNCHANGED <<next_id, requests, held, wait, asked, finished, returned, to_worker,
                   from_worker, workerVars, answer>>

-----------------------------------------------------------------------------
\* The task of the worker

\* The executor calls poll.
Poll ==
    /\ worker /\ woken /\ n = -1
    /\ woken' = FALSE
    /\ n' = Len(working)
    /\ UNCHANGED <<apiVars, to_worker, from_worker, working, listening, worker, begun, answer,
                   outcome>>

\* Request n is polled and is pending: it is swapped out and pushed back.
PollPending ==
    /\ n > 0
    /\ working[n][1] \notin DOMAIN answer
    /\ working' = Append(SwapRemove(working, n), working[n])
    /\ begun' = begun \cup {working[n][1]}
    /\ n' = n - 1
    /\ UNCHANGED <<apiVars, to_worker, from_worker, woken, listening, worker, answer, outcome>>

\* The result of a future that is ready: it has an answer, or needs none to be awaited.
ReadyWith(id, result) ==
    IF id \in DOMAIN answer THEN answer[id] = result ELSE id \notin begun

\* Request n is ready: the message goes to the API, if it is there.  The task wakes
\* itself after a response, and not after a failure.
PollReady(result) ==
    /\ n > 0
    /\ ReadyWith(working[n][1], result)
    /\ LET id == working[n][1]
           msg == <<id, IF result = "ok" THEN Response(working[n][2]) ELSE Fail>>
       IN  /\ from_worker' = IF api THEN Append(from_worker, msg) ELSE from_worker
           /\ outcome' = Insert(outcome, id, result)
    /\ working' = SwapRemove(working, n)
    /\ woken' = (woken \/ result = "ok")
    /\ n' = n - 1
    /\ UNCHANGED <<apiVars, to_worker, listening, worker, begun, answer>>

\* Mutant of Accept: the task does not wake itself.
AcceptAsleep ==
    /\ n = 0 /\ to_worker # <<>>
    /\ working' = Append(working, Head(to_worker))
    /\ to_worker' = Tail(to_worker)
    /\ n' = -1
    /\ UNCHANGED <<apiVars, from_worker, woken, listening, worker, begun, answer, outcome>>

\* One message from the API is accepted in each call of poll.
Accept ==
    /\ n = 0 /\ to_worker # <<>>
    /\ working' = Append(working, Head(to_worker))
    /\ to_worker' = Tail(to_worker)
    /\ woken' = TRUE
    /\ n' = -1
    /\ UNCHANGED <<apiVars, from_worker, listening, worker, begun, answer, outcome>>

\* There is none: the channel keeps the waker.
Listen ==
    /\ n = 0 /\ to_worker = <<>> /\ api
    /\ listening' = TRUE
    /\ n' = -1
    /\ UNCHANGED <<apiVars, to_worker, from_worker, working, woken, worker, begun, answer, outcome>>

\* Mutant of Stop: requests in progress are finished first.
StopWhenIdle ==
    /\ n = 0 /\ to_worker = <<>> /\ ~api /\ working = <<>>
    /\ worker' = FALSE /\ n' = -1
    /\ UNCHANGED <<apiVars, to_worker, from_worker, working, woken, listening, begun, answer,
                   outcome>>

\* The API is gone: the task ends, and the futures in progress are dropped.
Stop ==
    /\ n = 0 /\ to_worker = <<>> /\ ~api
    /\ worker' = FALSE /\ n' = -1 /\ working' = <<>>
    /\ UNCHANGED <<apiVars, to_worker, from_worker, woken, listening, begun, answer, outcome>>

\* The executor drops the task, as when the node shuts down, or poll panics.
Crash ==
    /\ worker
    /\ worker' = FALSE /\ n' = -1 /\ working' = <<>> /\ to_worker' = <<>>
    /\ UNCHANGED <<apiVars, from_worker, woken, listening, begun, answer, outcome>>

\* The IPFS node completes what a polled future awaits, and wakes the task.
NodeAnswers(id, result) ==
    /\ worker /\ \E i \in DOMAIN working : working[i][1] = id
    /\ id \in begun \ DOMAIN answer
    /\ answer' = Insert(answer, id, result)
    /\ woken' = TRUE
    /\ UNCHANGED <<apiVars, to_worker, from_worker, workerVars, listening>>

-----------------------------------------------------------------------------
Results == {"ok", "err"}

PollStep == PollPending \/ (\E result \in Results : PollReady(result)) \/ Accept \/ Listen \/ Stop

WaitStep == Receive \/ DeadlineNoticed \/ CrashNoticed

Next ==
    \/ \E request \in Requests : request_start(request)
    \/ \E ids \in SUBSET Ids, deadline \in {"none", "ahead"} : response_wait(ids, deadline)
    \/ WaitStep \/ DeadlinePasses \/ DropApi
    \/ Poll \/ PollStep \/ Crash
    \/ \E id \in Ids, result \in Results : NodeAnswers(id, result)

Spec == Init /\ [][Next]_vars

\* The executor polls a task that is woken, the thread is scheduled, the clock ticks.
FairSpec ==
    Spec /\ WF_vars(Poll) /\ WF_vars(PollStep) /\ WF_vars(WaitStep) /\ WF_vars(DeadlinePasses)

\* The IPFS node answers every request.
NodeAnswering == \A id \in Ids : WF_vars(\E result \in Results : NodeAnswers(id, result))

-----------------------------------------------------------------------------
\* Properties

Places == Requests \cup {None}

\* The state has its type; identifiers never pass u16::MAX.
TypeOK ==
    /\ next_id \in Ids
    /\ DOMAIN requests \subseteq Ids
    /\ \A id \in DOMAIN requests :
         requests[id] \in {"Dispatched", "Response", "Fail", "Success"} \X Places
    /\ held \subseteq Ids /\ finished \subseteq Ids
    /\ \A q \in Elements(to_worker) \cup Elements(working) : q \in Ids \X Requests
    /\ \A m \in Elements(from_worker) : m \in Ids \X ({"Response", "Fail"} \X Places)
    /\ n \in -1 .. Len(working)
    /\ {api, worker, woken, listening} \subseteq BOOLEAN

\* The identifiers in the channel to the worker, in its vector and in the channel back.
InFlight == Firsts(to_worker) \o Firsts(working) \o Firsts(from_worker)

\* While both sides live, every request the API believes dispatched is in exactly one
\* place on its way to the worker and back, and nothing else is: no message meets
\* "State mismatch between the API and worker", and the debug assertions that an
\* identifier is new to requests hold.
NoRequestLost ==
    /\ api /\ worker =>
         {id \in DOMAIN requests : requests[id] = Dispatched} = Elements(InFlight)
    /\ NoRepeat(InFlight)
    /\ next_id \notin DOMAIN requests

\* For a caller that waits through PendingRequest, the API and its worker are the
\* service: answers match requests, none is handed out twice, and without a deadline
\* DeadlineReached is never returned.
Service == INSTANCE IpfsService WITH crashed <- ~worker

ServiceSpec == Service!Spec

\* A wait with a deadline returns, even if the IPFS node never answers.
DeadlinedWaitReturns == (wait # NoWait /\ wait.deadline # "none") ~> (wait = NoWait)

\* The task does not outlive the offchain worker, whatever futures are in progress.
WorkerStops == ~api ~> ~worker

\* Every wait returns when the node answers: no wake-up of the task is lost.
EveryWaitReturns == NodeAnswering => ((wait # NoWait) ~> (wait = NoWait))
=============================================================================
