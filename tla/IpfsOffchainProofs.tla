------------------------- MODULE IpfsOffchainProofs -------------------------
(***************************************************************************)
(* Proofs about IpfsApi and IpfsWorker, for any requests and identifiers:  *)
(* no request is lost or doubled on its way between the two, and together  *)
(* they implement IpfsService.                                             *)
(***************************************************************************)
EXTENDS IpfsOffchain, TLAPS

ToWorker == Elements(Firsts(to_worker))
AtWorker == Elements(Firsts(working))
FromWorker == Elements(Firsts(from_worker))

Queries == Ids \X Requests
Messages == Ids \X ({"Response", "Fail"} \X Places)

\* Identifiers are handed out in order, and every map and set is about those.
FreshInv ==
    /\ next_id \in Ids
    /\ \A id \in DOMAIN asked : id \in Ids /\ id < next_id /\ asked[id] \in Requests
    /\ DOMAIN requests \subseteq DOMAIN asked /\ DOMAIN outcome \subseteq DOMAIN asked
    /\ held \subseteq DOMAIN asked /\ finished \subseteq DOMAIN outcome

\* The two channels and the worker's vector: no identifier is in two places.
LinesInv ==
    /\ to_worker \in Seq(Queries) /\ working \in Seq(Queries) /\ from_worker \in Seq(Messages)
    /\ NoRepeat(Firsts(to_worker)) /\ NoRepeat(Firsts(working)) /\ NoRepeat(Firsts(from_worker))
    /\ ToWorker \cap AtWorker = {} /\ ToWorker \cap FromWorker = {} /\ AtWorker \cap FromWorker = {}
    /\ n \in -1 .. Len(working)

FlagsInv ==
    /\ api \in BOOLEAN /\ worker \in BOOLEAN /\ woken \in BOOLEAN /\ listening \in BOOLEAN

\* A request on its way to the worker is the one that was asked for, and has no outcome.
QueryOK(q) == q[1] \in DOMAIN asked \ DOMAIN outcome /\ q[2] = asked[q[1]]

\* A message on its way back says what the node made of it.
MessageOK(m) ==
    /\ m[1] \in DOMAIN outcome
    /\ \/ outcome[m[1]] = "ok" /\ m[2] = Response(asked[m[1]])
       \/ outcome[m[1]] = "err" /\ m[2] = Fail

MovingInv ==
    /\ \A q \in Elements(to_worker) : QueryOK(q)
    /\ \A q \in Elements(working) : QueryOK(q)
    /\ \A m \in Elements(from_worker) : MessageOK(m)

\* What is on its way is Dispatched, and while both sides live nothing else is.
DispatchedIn(reqs) == {id \in DOMAIN reqs : reqs[id] = Dispatched}

PlacesInv ==
    /\ ToWorker \cup AtWorker \cup FromWorker \subseteq DispatchedIn(requests)
    /\ api /\ worker => DispatchedIn(requests) \subseteq ToWorker \cup AtWorker \cup FromWorker

\* What the state of a request says of its outcome, done being the ones handed out.
RequestOK(id, r, done) ==
    \/ r = Dispatched /\ id \notin done
    \/ r = Response(asked[id]) /\ id \in DOMAIN outcome \ done /\ outcome[id] = "ok"
    \/ r = Fail /\ id \in DOMAIN outcome /\ outcome[id] = "err"
    \/ r = Success /\ id \in DOMAIN outcome /\ outcome[id] = "ok"

RequestsOK(reqs, done) ==
    /\ DOMAIN reqs \subseteq DOMAIN asked
    /\ \A id \in DOMAIN reqs : RequestOK(id, reqs[id], done)
    /\ \A id \in DOMAIN asked \ DOMAIN reqs : id \in DOMAIN outcome /\ outcome[id] = "err"

\* A response is taken out by a wait that has it in its statuses, or has returned it, or
\* has lost it to the crash of the worker.
TakenOK(reqs, done, statuses) ==
    \A id \in DOMAIN reqs :
      reqs[id] = Success => \/ id \in done
                            \/ id \in DOMAIN statuses /\ statuses[id][1] = "Finished"
                            \/ ~worker

\* The statuses of a blocked wait, as far as later passes keep them.
StatusesOK(reqs, done, statuses) ==
    \A id \in DOMAIN statuses :
      /\ id \in DOMAIN reqs /\ reqs[id] = Dispatched => statuses[id][1] = "DeadlineReached"
      /\ id \in DOMAIN reqs /\ reqs[id] = Success => statuses[id][1] \in {"DeadlineReached", "Finished"}
      /\ statuses[id][1] = "Finished" =>
           /\ id \in DOMAIN reqs /\ reqs[id] = Success
           /\ id \notin done /\ statuses[id][2] = asked[id]

WaitInv ==
    /\ wait.ids \subseteq Ids /\ DOMAIN wait.statuses = wait.ids
    /\ TakenOK(requests, finished, wait.statuses)
    /\ StatusesOK(requests, finished, wait.statuses)

IInv ==
    /\ FreshInv /\ LinesInv /\ FlagsInv /\ MovingInv /\ PlacesInv
    /\ RequestsOK(requests, finished) /\ WaitInv

-----------------------------------------------------------------------------
\* Lines of messages

\* The identifiers of a line, by index and as a set.
LEMMA LineIds ==
    ASSUME NEW S, NEW vec \in Seq(S)
    PROVE  /\ DOMAIN vec = 1 .. Len(vec) /\ DOMAIN Firsts(vec) = 1 .. Len(vec)
           /\ \A i \in 1 .. Len(vec) : Firsts(vec)[i] = vec[i][1]
           /\ Elements(Firsts(vec)) = {q[1] : q \in Elements(vec)}
           /\ Elements(vec) \subseteq S
BY DEF Elements, Firsts

\* Sending appends to a line.
LEMMA PushLine ==
    ASSUME NEW S, NEW vec \in Seq(S), NEW q \in S
    PROVE  /\ Append(vec, q) \in Seq(S)
           /\ Elements(Append(vec, q)) = Elements(vec) \cup {q}
           /\ Elements(Firsts(Append(vec, q))) = Elements(Firsts(vec)) \cup {q[1]}
           /\ NoRepeat(Firsts(vec)) /\ q[1] \notin Elements(Firsts(vec)) => NoRepeat(Firsts(Append(vec, q)))
<1> DEFINE res == Append(vec, q)
           ids == Firsts(vec)
           more == Firsts(res)
<1>1. /\ res \in Seq(S) /\ Len(res) = Len(vec) + 1 /\ Len(vec) \in Nat
      /\ \A i \in 1 .. Len(vec) : res[i] = vec[i]
      /\ res[Len(vec) + 1] = q
  OBVIOUS
<1>2. 1 .. Len(vec) + 1 = (1 .. Len(vec)) \cup {Len(vec) + 1} /\ Len(vec) + 1 \notin 1 .. Len(vec)
  OBVIOUS
<1>3. DOMAIN vec = 1 .. Len(vec) /\ DOMAIN ids = 1 .. Len(vec) /\ \A i \in 1 .. Len(vec) : ids[i] = vec[i][1]
  BY LineIds
<1> HIDE DEF res, ids
<1>4. DOMAIN res = 1 .. Len(res) /\ DOMAIN more = 1 .. Len(res) /\ \A i \in 1 .. Len(res) : more[i] = res[i][1]
  BY <1>1, LineIds
<1> HIDE DEF more
<1>5. Elements(res) = Elements(vec) \cup {q} /\ Elements(more) = Elements(ids) \cup {q[1]}
  BY <1>1, <1>2, <1>3, <1>4 DEF Elements
<1>6. NoRepeat(ids) /\ q[1] \notin Elements(ids) => NoRepeat(more)
  BY <1>1, <1>2, <1>3, <1>4 DEF Elements, NoRepeat
<1> QED BY <1>1, <1>5, <1>6 DEF res, ids, more

\* Line b is line a without what a has at i; from tells where the others were.
Drops(a, b, i, from) ==
    /\ i \in DOMAIN a
    /\ \A j \in DOMAIN b : from[j] \in DOMAIN a /\ from[j] # i /\ b[j] = a[from[j]]
    /\ \A j, k \in DOMAIN b : from[j] = from[k] => j = k
    /\ \A j \in DOMAIN a : j # i => \E k \in DOMAIN b : from[k] = j

\* What is left of a line without one of its places.
LEMMA LessOne ==
    ASSUME NEW a, NEW b, NEW i, NEW from, Drops(a, b, i, from)
    PROVE  /\ Elements(a) = Elements(b) \cup {a[i]}
           /\ NoRepeat(a) => NoRepeat(b) /\ a[i] \notin Elements(b)
<1>1. Elements(b) \subseteq Elements(a) /\ a[i] \in Elements(a)
  BY DEF Drops, Elements
<1>2. \A x \in Elements(a) : x = a[i] \/ x \in Elements(b)
  BY DEF Drops, Elements
<1>3. NoRepeat(a) => NoRepeat(b)
  BY DEF Drops, NoRepeat
<1>4. NoRepeat(a) => a[i] \notin Elements(b)
  BY DEF Drops, NoRepeat, Elements
<1> QED BY <1>1, <1>2, <1>3, <1>4

\* The same for a line of messages and the line of its identifiers.
LEMMA LineLessOne ==
    ASSUME NEW S, NEW vec \in Seq(S), NEW rest \in Seq(S), NEW i, NEW from, Drops(vec, rest, i, from)
    PROVE  /\ Elements(vec) = Elements(rest) \cup {vec[i]}
           /\ Elements(Firsts(vec)) = Elements(Firsts(rest)) \cup {vec[i][1]}
           /\ NoRepeat(Firsts(vec)) => NoRepeat(Firsts(rest)) /\ vec[i][1] \notin Elements(Firsts(rest))
<1>1. Drops(Firsts(vec), Firsts(rest), i, from) /\ Firsts(vec)[i] = vec[i][1]
  BY Zenon DEF Drops, Firsts
<1>2. Elements(vec) = Elements(rest) \cup {vec[i]}
  BY LessOne, Zenon
<1>3. /\ Elements(Firsts(vec)) = Elements(Firsts(rest)) \cup {Firsts(vec)[i]}
      /\ NoRepeat(Firsts(vec)) => NoRepeat(Firsts(rest)) /\ Firsts(vec)[i] \notin Elements(Firsts(rest))
  BY <1>1, LessOne, Zenon
<1> QED BY <1>1, <1>2, <1>3, Zenon

\* Receiving takes the head of a line.
LEMMA PopLine ==
    ASSUME NEW S, NEW vec \in Seq(S), vec # <<>>
    PROVE  /\ Tail(vec) \in Seq(S) /\ Head(vec) \in S
           /\ Elements(vec) = Elements(Tail(vec)) \cup {Head(vec)}
           /\ Elements(Firsts(vec)) = Elements(Firsts(Tail(vec))) \cup {Head(vec)[1]}
           /\ NoRepeat(Firsts(vec)) => /\ NoRepeat(Firsts(Tail(vec)))
                                       /\ Head(vec)[1] \notin Elements(Firsts(Tail(vec)))
<1>1. PICK rest : rest = Tail(vec)
  BY Zenon
<1>2. /\ Len(vec) \in Nat /\ Len(vec) > 0 /\ rest \in Seq(S) /\ Len(rest) = Len(vec) - 1
      /\ \A j \in 1 .. Len(vec) - 1 : rest[j] = vec[j + 1]
      /\ Head(vec) = vec[1] /\ Head(vec) \in S
  BY <1>1
<1>3. PICK from : from = [j \in 1 .. Len(vec) - 1 |-> j + 1]
  BY Zenon
<1>4. /\ 1 \in 1 .. Len(vec) /\ DOMAIN vec = 1 .. Len(vec) /\ DOMAIN rest = 1 .. Len(rest)
      /\ \A j, k \in 1 .. Len(rest) : from[j] = from[k] => j = k
      /\ \A j \in 1 .. Len(rest) : from[j] \in 1 .. Len(vec) /\ from[j] # 1 /\ rest[j] = vec[from[j]]
  BY <1>2, <1>3
<1>5. \A j \in 1 .. Len(vec) : j # 1 => \E k \in 1 .. Len(rest) : from[k] = j
  <2>1. \A j \in 1 .. Len(vec) : j # 1 => j - 1 \in 1 .. Len(rest) /\ from[j - 1] = j
    BY <1>2, <1>3
  <2> QED BY <2>1, Zenon
<1>6. Drops(vec, rest, 1, from)
  BY <1>4, <1>5, Zenon DEF Drops
<1>7. /\ Elements(vec) = Elements(rest) \cup {vec[1]}
      /\ Elements(Firsts(vec)) = Elements(Firsts(rest)) \cup {vec[1][1]}
      /\ NoRepeat(Firsts(vec)) => NoRepeat(Firsts(rest)) /\ vec[1][1] \notin Elements(Firsts(rest))
  BY <1>2, <1>6, LineLessOne, Zenon
<1> QED BY <1>1, <1>2, <1>7, Zenon

\* The worker swaps a request out of its vector.
LEMMA TakeLine ==
    ASSUME NEW S, NEW vec \in Seq(S), NEW i \in 1 .. Len(vec)
    PROVE  /\ SwapRemove(vec, i) \in Seq(S) /\ vec[i] \in S
           /\ Len(SwapRemove(vec, i)) = Len(vec) - 1
           /\ Elements(vec) = Elements(SwapRemove(vec, i)) \cup {vec[i]}
           /\ Elements(Firsts(vec)) = Elements(Firsts(SwapRemove(vec, i))) \cup {vec[i][1]}
           /\ NoRepeat(Firsts(vec)) => /\ NoRepeat(Firsts(SwapRemove(vec, i)))
                                       /\ vec[i][1] \notin Elements(Firsts(SwapRemove(vec, i)))
<1>1. PICK rest : rest = SwapRemove(vec, i)
  OBVIOUS
<1>2. PICK from : from = [j \in 1 .. Len(vec) - 1 |-> IF j = i THEN Len(vec) ELSE j]
  BY Zenon
<1>3. /\ Len(vec) \in Nat /\ Len(vec) > 0 /\ rest \in Seq(S) /\ Len(rest) = Len(vec) - 1
      /\ \A j \in 1 .. Len(vec) - 1 : rest[j] = IF j = i THEN vec[Len(vec)] ELSE vec[j]
      /\ vec[i] \in S
  BY <1>1 DEF SwapRemove
<1>4. /\ DOMAIN vec = 1 .. Len(vec) /\ DOMAIN rest = 1 .. Len(rest)
      /\ \A j, k \in 1 .. Len(rest) : from[j] = from[k] => j = k
      /\ \A j \in 1 .. Len(rest) : from[j] \in 1 .. Len(vec) /\ from[j] # i /\ rest[j] = vec[from[j]]
  BY <1>2, <1>3
<1>5. \A j \in 1 .. Len(vec) : j # i => \E k \in 1 .. Len(rest) : from[k] = j
  <2> SUFFICES ASSUME NEW j \in 1 .. Len(vec), j # i PROVE \E k \in 1 .. Len(rest) : from[k] = j
    OBVIOUS
  <2>1. CASE j = Len(vec)
    <3>1. i \in 1 .. Len(rest) /\ from[i] = j
      BY <1>2, <1>3, <2>1
    <3> QED BY <3>1
  <2>2. CASE j # Len(vec)
    <3>1. j \in 1 .. Len(rest) /\ from[j] = j
      BY <1>2, <1>3, <2>2
    <3> QED BY <3>1
  <2> QED BY <2>1, <2>2
<1>6. Drops(vec, rest, i, from)
  BY <1>4, <1>5, Zenon DEF Drops
<1>7. /\ Elements(vec) = Elements(rest) \cup {vec[i]}
      /\ Elements(Firsts(vec)) = Elements(Firsts(rest)) \cup {vec[i][1]}
      /\ NoRepeat(Firsts(vec)) => NoRepeat(Firsts(rest)) /\ vec[i][1] \notin Elements(Firsts(rest))
  BY <1>3, <1>6, LineLessOne, Zenon
<1> QED BY <1>1, <1>3, <1>7, Zenon

\* Two lines one after the other.
LEMMA ConcatLines ==
    ASSUME NEW S, NEW a \in Seq(S), NEW b \in Seq(S)
    PROVE  /\ a \o b \in Seq(S)
           /\ Elements(a \o b) = Elements(a) \cup Elements(b)
           /\ NoRepeat(a) /\ NoRepeat(b) /\ Elements(a) \cap Elements(b) = {} => NoRepeat(a \o b)
<1>1. /\ a \o b \in Seq(S) /\ Len(a \o b) = Len(a) + Len(b)
      /\ DOMAIN (a \o b) = 1 .. Len(a) + Len(b) /\ DOMAIN a = 1 .. Len(a) /\ DOMAIN b = 1 .. Len(b)
      /\ \A i \in 1 .. Len(a) + Len(b) :
           (a \o b)[i] = IF i <= Len(a) THEN a[i] ELSE b[i - Len(a)]
  OBVIOUS
<1>2. \A i \in 1 .. Len(a) + Len(b) : i \in 1 .. Len(a) \/ i - Len(a) \in 1 .. Len(b)
  OBVIOUS
<1>3. \A i \in 1 .. Len(a) : i \in 1 .. Len(a) + Len(b) /\ (a \o b)[i] = a[i]
  BY <1>1
<1>4. \A i \in 1 .. Len(b) : Len(a) + i \in 1 .. Len(a) + Len(b) /\ (a \o b)[Len(a) + i] = b[i]
  BY <1>1
<1>5. Elements(a \o b) = Elements(a) \cup Elements(b)
  <2>1. Elements(a \o b) \subseteq Elements(a) \cup Elements(b)
    BY <1>1, <1>2 DEF Elements
  <2>2. Elements(a) \subseteq Elements(a \o b)
    BY <1>1, <1>3, Zenon DEF Elements
  <2>3. Elements(b) \subseteq Elements(a \o b)
    <3>1. \A i \in DOMAIN b : Len(a) + i \in DOMAIN (a \o b) /\ (a \o b)[Len(a) + i] = b[i]
      BY <1>1, <1>4
    <3>2. \A i \in DOMAIN b : \E k \in DOMAIN (a \o b) : b[i] = (a \o b)[k]
      BY <3>1, Zenon
    <3> QED BY <3>2, Zenon DEF Elements
  <2> QED BY <2>1, <2>2, <2>3
<1>6. ASSUME NoRepeat(a), NoRepeat(b), Elements(a) \cap Elements(b) = {},
             NEW i \in 1 .. Len(a) + Len(b), NEW j \in 1 .. Len(a) + Len(b), (a \o b)[i] = (a \o b)[j]
      PROVE  i = j
  <2>1. CASE i <= Len(a) /\ j <= Len(a)
    BY <1>1, <1>6, <2>1 DEF NoRepeat
  <2>2. CASE i > Len(a) /\ j > Len(a)
    <3>1. /\ i - Len(a) \in 1 .. Len(b) /\ j - Len(a) \in 1 .. Len(b)
          /\ b[i - Len(a)] = b[j - Len(a)]
      BY <1>1, <1>6, <2>2
    <3>2. i - Len(a) = j - Len(a)
      BY <1>1, <1>6, <3>1, Zenon DEF NoRepeat
    <3> QED BY <3>2
  <2>3. CASE i <= Len(a) /\ j > Len(a)
    <3>1. a[i] \in Elements(a) /\ b[j - Len(a)] \in Elements(b) /\ a[i] = b[j - Len(a)]
      BY <1>1, <1>6, <2>3 DEF Elements
    <3> QED BY <1>6, <3>1, Zenon
  <2>4. CASE i > Len(a) /\ j <= Len(a)
    <3>1. a[j] \in Elements(a) /\ b[i - Len(a)] \in Elements(b) /\ a[j] = b[i - Len(a)]
      BY <1>1, <1>6, <2>4 DEF Elements
    <3> QED BY <1>6, <3>1, Zenon
  <2> QED BY <2>1, <2>2, <2>3, <2>4
<1>7. NoRepeat(a) /\ NoRepeat(b) /\ Elements(a) \cap Elements(b) = {} => NoRepeat(a \o b)
  BY <1>1, <1>6, Zenon DEF NoRepeat
<1> QED BY <1>1, <1>5, <1>7

-----------------------------------------------------------------------------
\* One pass of response_wait

\* The four states of a request are told apart by their first part.
LEMMA Tags ==
    /\ Dispatched[1] = "Dispatched" /\ Fail[1] = "Fail" /\ Success[1] = "Success"
    /\ Dispatched # Fail /\ Dispatched # Success /\ Fail # Success
    /\ \A v : /\ Response(v)[1] = "Response" /\ Response(v)[2] = v
              /\ Response(v) # Dispatched /\ Response(v) # Fail /\ Response(v) # Success
BY DEF Dispatched, Fail, Success, Response

\* The status of each request after a pass, by the state the request was in.
LEMMA StatusOf ==
    ASSUME NEW reqs, NEW w, RequestsOK(reqs, finished), StatusesOK(reqs, finished, w.statuses),
           DOMAIN w.statuses = w.ids, NEW id \in w.ids
    PROVE  /\ id \notin DOMAIN reqs => Statuses(reqs, w)[id][1] = "Invalid"
           /\ id \in DOMAIN reqs =>
                /\ reqs[id] = Fail => Statuses(reqs, w)[id][1] = "IoError"
                /\ reqs[id] = Response(asked[id]) =>
                     Statuses(reqs, w)[id][1] = "Finished" /\ Statuses(reqs, w)[id][2] = asked[id]
                /\ reqs[id] = Dispatched => Statuses(reqs, w)[id][1] = "DeadlineReached"
                /\ reqs[id] = Success =>
                     /\ Statuses(reqs, w)[id] = w.statuses[id]
                     /\ Statuses(reqs, w)[id][1] \in {"DeadlineReached", "Finished"}
<1>1. Statuses(reqs, w)[id] =
        IF id \notin DOMAIN reqs THEN <<"Invalid", None>>
        ELSE IF reqs[id] = Fail THEN <<"IoError", None>>
        ELSE IF reqs[id][1] = "Response" THEN <<"Finished", reqs[id][2]>>
        ELSE w.statuses[id]
  BY DEF Statuses
<1>2. id \notin DOMAIN reqs => Statuses(reqs, w)[id][1] = "Invalid"
  BY <1>1
<1>3. id \in DOMAIN reqs /\ reqs[id] = Fail => Statuses(reqs, w)[id][1] = "IoError"
  BY <1>1
<1>4. id \in DOMAIN reqs /\ reqs[id] = Response(asked[id]) =>
        Statuses(reqs, w)[id][1] = "Finished" /\ Statuses(reqs, w)[id][2] = asked[id]
  BY <1>1, Tags
<1>5. id \in DOMAIN reqs /\ reqs[id] \in {Dispatched, Success} => Statuses(reqs, w)[id] = w.statuses[id]
  BY <1>1, Tags
<1>6. /\ id \in DOMAIN reqs /\ reqs[id] = Dispatched => w.statuses[id][1] = "DeadlineReached"
      /\ id \in DOMAIN reqs /\ reqs[id] = Success => w.statuses[id][1] \in {"DeadlineReached", "Finished"}
  BY DEF StatusesOK
<1> QED BY <1>2, <1>3, <1>4, <1>5, <1>6

\* What a status of a pass tells of the state of the request.
LEMMA StatusMeans ==
    ASSUME NEW reqs, NEW w, RequestsOK(reqs, finished), StatusesOK(reqs, finished, w.statuses),
           DOMAIN w.statuses = w.ids, NEW id \in w.ids
    PROVE  /\ Statuses(reqs, w)[id][1] = "IoError" => id \in DOMAIN reqs /\ reqs[id] = Fail
           /\ Statuses(reqs, w)[id][1] = "Finished" =>
                /\ id \in DOMAIN reqs /\ id \notin finished
                /\ reqs[id] \in {Response(asked[id]), Success}
                /\ Statuses(reqs, w)[id][2] = asked[id]
<1>1. id \in DOMAIN reqs => RequestOK(id, reqs[id], finished)
  BY DEF RequestsOK
<1>2. id \in DOMAIN reqs => reqs[id] \in {Dispatched, Response(asked[id]), Fail, Success}
  BY <1>1 DEF RequestOK
<1>3. id \in DOMAIN reqs /\ reqs[id] = Response(asked[id]) => id \notin finished
  BY <1>1, Tags DEF RequestOK
<1>4. w.statuses[id][1] = "Finished" => id \notin finished /\ w.statuses[id][2] = asked[id]
  BY DEF StatusesOK
<1>5. id \notin DOMAIN reqs => Statuses(reqs, w)[id][1] = "Invalid"
  BY StatusOf
<1>6. id \in DOMAIN reqs =>
        /\ reqs[id] = Fail => Statuses(reqs, w)[id][1] = "IoError"
        /\ reqs[id] = Response(asked[id]) =>
             Statuses(reqs, w)[id][1] = "Finished" /\ Statuses(reqs, w)[id][2] = asked[id]
        /\ reqs[id] = Dispatched => Statuses(reqs, w)[id][1] = "DeadlineReached"
        /\ reqs[id] = Success =>
             /\ Statuses(reqs, w)[id] = w.statuses[id]
             /\ Statuses(reqs, w)[id][1] \in {"DeadlineReached", "Finished"}
  BY StatusOf
<1>7. CASE id \notin DOMAIN reqs
  BY <1>5, <1>7
<1>8. CASE id \in DOMAIN reqs /\ reqs[id] = Dispatched
  BY <1>6, <1>8
<1>9. CASE id \in DOMAIN reqs /\ reqs[id] = Fail
  BY <1>6, <1>9
<1>10. CASE id \in DOMAIN reqs /\ reqs[id] = Response(asked[id])
  BY <1>3, <1>6, <1>10
<1>11. CASE id \in DOMAIN reqs /\ reqs[id] = Success
  BY <1>4, <1>6, <1>11
<1> QED BY <1>2, <1>7, <1>8, <1>9, <1>10, <1>11

\* Taken by id: a response that is asked for becomes the placeholder.
LEMMA TakenFacts ==
    ASSUME NEW reqs, NEW ids, \A id \in DOMAIN reqs : RequestOK(id, reqs[id], finished)
    PROVE  /\ DOMAIN Taken(reqs, ids) = DOMAIN reqs
           /\ \A id \in DOMAIN reqs :
                /\ id \in ids /\ reqs[id] = Response(asked[id]) => Taken(reqs, ids)[id] = Success
                /\ id \notin ids \/ reqs[id] # Response(asked[id]) => Taken(reqs, ids)[id] = reqs[id]
<1>1. DOMAIN Taken(reqs, ids) = DOMAIN reqs
  BY DEF Taken
<1>2. ASSUME NEW id \in DOMAIN reqs
      PROVE  /\ id \in ids /\ reqs[id] = Response(asked[id]) => Taken(reqs, ids)[id] = Success
             /\ id \notin ids \/ reqs[id] # Response(asked[id]) => Taken(reqs, ids)[id] = reqs[id]
  <2>1. Taken(reqs, ids)[id] = IF id \in ids /\ reqs[id][1] = "Response" THEN Success ELSE reqs[id]
    BY DEF Taken
  <2>2. reqs[id] \in {Dispatched, Response(asked[id]), Fail, Success}
    BY DEF RequestOK
  <2>3. reqs[id][1] = "Response" <=> reqs[id] = Response(asked[id])
    BY <2>2, Tags
  <2> QED BY <2>1, <2>3
<1> QED BY <1>1, <1>2

\* The state a request is in after a pass: the loop keeps it, hands its response out, or,
\* when it returns, forgets it because it failed.
LEMMA KeptAfterPass ==
    ASSUME NEW reqs, NEW w, RequestsOK(reqs, finished), StatusesOK(reqs, finished, w.statuses),
           TakenOK(reqs, finished, w.statuses), DOMAIN w.statuses = w.ids
    PROVE  /\ RequestsOK(Taken(reqs, w.ids), finished)
           /\ TakenOK(Taken(reqs, w.ids), finished, Statuses(reqs, w))
           /\ StatusesOK(Taken(reqs, w.ids), finished, Statuses(reqs, w))
           /\ DispatchedIn(Taken(reqs, w.ids)) = DispatchedIn(reqs)
           /\ DOMAIN Statuses(reqs, w) = w.ids
<1> DEFINE kept == Taken(reqs, w.ids)
           statuses == Statuses(reqs, w)
<1>1. \A id \in DOMAIN reqs : RequestOK(id, reqs[id], finished)
  BY DEF RequestsOK
<1>2. /\ DOMAIN kept = DOMAIN reqs
      /\ \A id \in DOMAIN reqs :
           /\ id \in w.ids /\ reqs[id] = Response(asked[id]) => kept[id] = Success
           /\ id \notin w.ids \/ reqs[id] # Response(asked[id]) => kept[id] = reqs[id]
  BY <1>1, TakenFacts, Zenon
<1>3. DOMAIN statuses = w.ids
  BY DEF Statuses
<1>4. \A id \in w.ids : id \in DOMAIN reqs /\ reqs[id] = Response(asked[id]) =>
        statuses[id][1] = "Finished" /\ statuses[id][2] = asked[id]
  BY StatusOf
<1>5. \A id \in w.ids : id \in DOMAIN reqs /\ reqs[id] = Success =>
        statuses[id] = w.statuses[id] /\ statuses[id][1] \in {"DeadlineReached", "Finished"}
  BY StatusOf
<1>6. \A id \in w.ids : id \in DOMAIN reqs /\ reqs[id] = Dispatched => statuses[id][1] = "DeadlineReached"
  BY StatusOf
<1>7. \A id \in w.ids : statuses[id][1] = "Finished" =>
        /\ id \in DOMAIN reqs /\ id \notin finished
        /\ reqs[id] \in {Response(asked[id]), Success}
        /\ statuses[id][2] = asked[id]
  BY StatusMeans
<1> HIDE DEF kept, statuses
<1>8. ASSUME NEW id \in DOMAIN reqs
      PROVE  /\ RequestOK(id, kept[id], finished)
             /\ kept[id] = Dispatched <=> reqs[id] = Dispatched
             /\ kept[id] = Success => reqs[id] = Success \/ (id \in w.ids /\ reqs[id] = Response(asked[id]))
  <2>1. RequestOK(id, reqs[id], finished)
    BY <1>1
  <2>2. CASE id \in w.ids /\ reqs[id] = Response(asked[id])
    <3>1. kept[id] = Success
      BY <1>2, <2>2
    <3>2. id \in DOMAIN outcome /\ outcome[id] = "ok"
      BY <2>1, <2>2, Tags DEF RequestOK
    <3> QED BY <2>2, <3>1, <3>2, Tags DEF RequestOK
  <2>3. CASE ~(id \in w.ids /\ reqs[id] = Response(asked[id]))
    <3>1. kept[id] = reqs[id]
      BY <1>2, <2>3
    <3> QED BY <2>1, <3>1
  <2> QED BY <2>2, <2>3
<1>9. RequestsOK(kept, finished)
  BY <1>2, <1>8, Zenon DEF RequestsOK
<1>10. TakenOK(kept, finished, statuses)
  <2> SUFFICES ASSUME NEW id \in DOMAIN reqs, kept[id] = Success
               PROVE  \/ id \in finished
                      \/ id \in DOMAIN statuses /\ statuses[id][1] = "Finished"
                      \/ ~worker
    BY <1>2, Zenon DEF TakenOK
  <2>1. CASE reqs[id] = Success
    <3>1. \/ id \in finished
          \/ id \in w.ids /\ w.statuses[id][1] = "Finished"
          \/ ~worker
      BY <2>1, Zenon DEF TakenOK
    <3> QED BY <1>3, <1>5, <2>1, <3>1
  <2>2. CASE id \in w.ids /\ reqs[id] = Response(asked[id])
    BY <1>3, <1>4, <2>2
  <2> QED BY <1>8, <2>1, <2>2
<1>11. StatusesOK(kept, finished, statuses)
  <2> SUFFICES ASSUME NEW id \in w.ids
               PROVE  /\ id \in DOMAIN kept /\ kept[id] = Dispatched => statuses[id][1] = "DeadlineReached"
                      /\ id \in DOMAIN kept /\ kept[id] = Success =>
                           statuses[id][1] \in {"DeadlineReached", "Finished"}
                      /\ statuses[id][1] = "Finished" =>
                           /\ id \in DOMAIN kept /\ kept[id] = Success
                           /\ id \notin finished /\ statuses[id][2] = asked[id]
    BY <1>3, Zenon DEF StatusesOK
  <2>1. id \in DOMAIN kept /\ kept[id] = Dispatched => statuses[id][1] = "DeadlineReached"
    BY <1>2, <1>6, <1>8
  <2>2. id \in DOMAIN kept /\ kept[id] = Success => statuses[id][1] \in {"DeadlineReached", "Finished"}
    BY <1>2, <1>4, <1>5, <1>8
  <2>3. ASSUME statuses[id][1] = "Finished"
        PROVE  /\ id \in DOMAIN kept /\ kept[id] = Success
               /\ id \notin finished /\ statuses[id][2] = asked[id]
    BY <1>2, <1>7, <2>3
  <2> QED BY <2>1, <2>2, <2>3
<1>12. DispatchedIn(kept) = DispatchedIn(reqs)
  BY <1>2, <1>8, Zenon DEF DispatchedIn
<1> QED BY <1>3, <1>9, <1>10, <1>11, <1>12 DEF kept, statuses

\* The requests a pass leaves when it returns: failed ones are purged.
Purged(reqs, w) ==
    LET kept == Taken(reqs, w.ids)
    IN  [id \in {i \in DOMAIN kept : i \in w.ids => Statuses(reqs, w)[i][1] # "IoError"} |-> kept[id]]

\* The identifiers whose response has been handed out when a pass returns.
DoneAfter(reqs, w) ==
    finished \cup {id \in DOMAIN Statuses(reqs, w) : Statuses(reqs, w)[id][1] = "Finished"}

\* What holds of the requests when response_wait returns.
LEMMA PurgedAfterPass ==
    ASSUME NEW reqs, NEW w, RequestsOK(reqs, finished), StatusesOK(reqs, finished, w.statuses),
           TakenOK(reqs, finished, w.statuses), DOMAIN w.statuses = w.ids
    PROVE  /\ RequestsOK(Purged(reqs, w), DoneAfter(reqs, w))
           /\ TakenOK(Purged(reqs, w), DoneAfter(reqs, w), << >>)
           /\ DispatchedIn(Purged(reqs, w)) = DispatchedIn(reqs)
           /\ DoneAfter(reqs, w) \subseteq finished \cup DOMAIN outcome
<1> DEFINE kept == Taken(reqs, w.ids)
           statuses == Statuses(reqs, w)
           left == Purged(reqs, w)
           done == DoneAfter(reqs, w)
<1>1. /\ RequestsOK(kept, finished) /\ TakenOK(kept, finished, statuses)
      /\ StatusesOK(kept, finished, statuses)
      /\ DispatchedIn(kept) = DispatchedIn(reqs) /\ DOMAIN statuses = w.ids
  BY KeptAfterPass
<1>2. /\ DOMAIN left = {i \in DOMAIN kept : i \in w.ids => statuses[i][1] # "IoError"}
      /\ \A id \in DOMAIN left : left[id] = kept[id]
  BY DEF Purged
<1>3. done = finished \cup {id \in w.ids : statuses[id][1] = "Finished"}
  BY <1>1, Zenon DEF DoneAfter
<1>4. \A id \in w.ids : statuses[id][1] = "IoError" => id \in DOMAIN reqs /\ reqs[id] = Fail
  BY StatusMeans
<1>5. DOMAIN kept = DOMAIN reqs
  BY DEF Taken
<1>6. \A id \in DOMAIN reqs : RequestOK(id, reqs[id], finished)
  BY DEF RequestsOK
<1> HIDE DEF kept, statuses, left, done
<1>7. \A id \in DOMAIN kept : RequestOK(id, kept[id], finished)
  BY <1>1 DEF RequestsOK
<1>8. \A id \in w.ids : statuses[id][1] = "Finished" => id \in DOMAIN kept /\ kept[id] = Success
  BY <1>1 DEF StatusesOK
<1>9. ASSUME NEW id \in DOMAIN left PROVE RequestOK(id, left[id], done)
  <2>1. RequestOK(id, kept[id], finished) /\ left[id] = kept[id]
    BY <1>2, <1>7
  <2>2. kept[id] # Success => (id \in done <=> id \in finished)
    BY <1>3, <1>8
  <2>3. kept[id] = Success => RequestOK(id, kept[id], done)
    BY <2>1, Tags DEF RequestOK
  <2> QED BY <2>1, <2>2, <2>3 DEF RequestOK
<1>10. ASSUME NEW id \in DOMAIN asked \ DOMAIN left PROVE id \in DOMAIN outcome /\ outcome[id] = "err"
  <2>1. CASE id \in DOMAIN kept
    <3>1. id \in w.ids /\ statuses[id][1] = "IoError"
      BY <1>2, <2>1
    <3>2. id \in DOMAIN reqs /\ reqs[id] = Fail
      BY <1>4, <3>1
    <3>3. RequestOK(id, reqs[id], finished)
      BY <1>6, <3>2
    <3> QED BY <3>2, <3>3, Tags DEF RequestOK
  <2>2. CASE id \notin DOMAIN kept
    BY <1>1, <2>2 DEF RequestsOK
  <2> QED BY <2>1, <2>2
<1>11. RequestsOK(left, done)
  <2>1. DOMAIN left \subseteq DOMAIN asked
    BY <1>1, <1>2 DEF RequestsOK
  <2> QED BY <1>9, <1>10, <2>1, Zenon DEF RequestsOK
<1>12. TakenOK(left, done, << >>)
  <2> SUFFICES ASSUME NEW id \in DOMAIN left, left[id] = Success PROVE id \in done \/ ~worker
    BY Zenon DEF TakenOK
  <2>1. \/ id \in finished
        \/ id \in w.ids /\ statuses[id][1] = "Finished"
        \/ ~worker
    BY <1>1, <1>2, Zenon DEF TakenOK
  <2> QED BY <1>3, <2>1
<1>13. DispatchedIn(left) = DispatchedIn(reqs)
  <2>1. \A id \in DOMAIN kept : kept[id] = Dispatched => id \in DOMAIN left
    <3> SUFFICES ASSUME NEW id \in DOMAIN kept, kept[id] = Dispatched, id \in w.ids
                 PROVE  statuses[id][1] # "IoError"
      BY <1>2
    <3>1. statuses[id][1] = "DeadlineReached"
      BY <1>1 DEF StatusesOK
    <3> QED BY <3>1
  <2>2. DispatchedIn(left) = DispatchedIn(kept)
    BY <1>2, <2>1, Zenon DEF DispatchedIn
  <2> QED BY <1>1, <2>2
<1>14. done \subseteq finished \cup DOMAIN outcome
  <2>1. \A id \in DOMAIN kept : kept[id] = Success => id \in DOMAIN outcome
    BY <1>7, Tags DEF RequestOK
  <2> QED BY <1>3, <1>8, <2>1
<1> QED BY <1>11, <1>12, <1>13, <1>14 DEF left, done

\* Every status a pass returns is one the service may return.
LEMMA ReturnJustified ==
    ASSUME NEW reqs, NEW w, RequestsOK(reqs, finished), StatusesOK(reqs, finished, w.statuses),
           TakenOK(reqs, finished, w.statuses), DOMAIN w.statuses = w.ids,
           w.deadline = "done" \/ ~MustWaitMore(reqs, w.ids), NEW id \in w.ids
    PROVE  Service!Justified(id, Statuses(reqs, w)[id], w.deadline # "none")
<1> DEFINE status == Statuses(reqs, w)[id]
           deadline == w.deadline # "none"
<1>1. /\ id \notin DOMAIN reqs => status[1] = "Invalid"
      /\ id \in DOMAIN reqs =>
           /\ reqs[id] = Fail => status[1] = "IoError"
           /\ reqs[id] = Response(asked[id]) => status[1] = "Finished" /\ status[2] = asked[id]
           /\ reqs[id] = Dispatched => status[1] = "DeadlineReached"
           /\ reqs[id] = Success =>
                status = w.statuses[id] /\ status[1] \in {"DeadlineReached", "Finished"}
  BY StatusOf
<1>2. status[1] = "Finished" => id \notin finished /\ status[2] = asked[id]
  BY StatusMeans
<1>3. /\ id \in DOMAIN reqs => RequestOK(id, reqs[id], finished) /\ id \in DOMAIN asked
      /\ id \in DOMAIN asked \ DOMAIN reqs => id \in DOMAIN outcome /\ outcome[id] = "err"
  BY DEF RequestsOK
<1>4. id \in DOMAIN reqs /\ reqs[id] = Success =>
        id \in finished \/ status[1] = "Finished" \/ ~worker
  BY <1>1, Zenon DEF TakenOK
<1>5. id \in DOMAIN reqs /\ reqs[id] = Dispatched => deadline
  BY DEF MustWaitMore
<1> HIDE DEF status, deadline
<1>6. Service!Justified(id, status, deadline)
  <2>1. CASE id \notin DOMAIN reqs
    BY <1>1, <1>3, <2>1, Zenon DEF Service!Justified
  <2>2. CASE id \in DOMAIN reqs /\ reqs[id] = Dispatched
    BY <1>1, <1>3, <1>5, <2>2, Zenon DEF Service!Justified
  <2>3. CASE id \in DOMAIN reqs /\ reqs[id] = Fail
    <3>1. id \in DOMAIN outcome /\ outcome[id] = "err"
      BY <1>3, <2>3, Tags DEF RequestOK
    <3> QED BY <1>1, <2>3, <3>1, Zenon DEF Service!Justified
  <2>4. CASE id \in DOMAIN reqs /\ reqs[id] = Response(asked[id])
    <3>1. id \in DOMAIN outcome /\ outcome[id] = "ok"
      BY <1>3, <2>4, Tags DEF RequestOK
    <3> QED BY <1>1, <1>2, <2>4, <3>1, Zenon DEF Service!Justified
  <2>5. CASE id \in DOMAIN reqs /\ reqs[id] = Success
    <3>1. id \in DOMAIN outcome /\ outcome[id] = "ok"
      BY <1>3, <2>5, Tags DEF RequestOK
    <3>2. CASE status[1] = "Finished"
      BY <1>2, <3>1, <3>2, Zenon DEF Service!Justified
    <3>3. CASE status[1] = "DeadlineReached"
      <4>1. id \in finished \/ ~worker
        BY <1>4, <2>5, <3>3
      <4> QED BY <1>3, <2>5, <3>1, <3>3, <4>1, Zenon DEF Service!Justified
    <3> QED BY <1>1, <2>5, <3>2, <3>3
  <2>6. id \in DOMAIN reqs => reqs[id] \in {Dispatched, Response(asked[id]), Fail, Success}
    BY <1>3 DEF RequestOK
  <2> QED BY <2>1, <2>2, <2>3, <2>4, <2>5, <2>6
<1> QED BY <1>6 DEF status, deadline

\* A pass, whether it blocks or returns.
LEMMA PassFacts ==
    ASSUME NEW reqs, NEW w, RequestsOK(reqs, finished), StatusesOK(reqs, finished, w.statuses),
           TakenOK(reqs, finished, w.statuses), DOMAIN w.statuses = w.ids, w.ids \subseteq Ids,
           finished \subseteq DOMAIN outcome, Pass(reqs, w), UNCHANGED <<asked, outcome, worker>>
    PROVE  /\ RequestsOK(requests, finished)' /\ WaitInv'
           /\ DispatchedIn(requests') = DispatchedIn(reqs)
           /\ held' \subseteq held /\ finished' \subseteq DOMAIN outcome
           /\ Service!Return \/ UNCHANGED <<finished, returned>>
<1>1. CASE w.deadline = "done" \/ ~MustWaitMore(reqs, w.ids)
  <2>1. ReturnStatuses(Statuses(reqs, w), w.deadline) /\ requests' = Purged(reqs, w)
    BY <1>1 DEF Pass, Purged
  <2>2. /\ wait' = NoWait /\ held' \subseteq held /\ finished' = DoneAfter(reqs, w)
        /\ returned' = [statuses |-> Statuses(reqs, w), deadline |-> w.deadline # "none"]
    BY <2>1 DEF ReturnStatuses, DoneAfter
  <2>3. /\ RequestsOK(requests', finished') /\ TakenOK(requests', finished', << >>)
        /\ DispatchedIn(requests') = DispatchedIn(reqs)
        /\ finished' \subseteq finished \cup DOMAIN outcome
    BY <2>1, <2>2, PurgedAfterPass
  <2>4. wait'.ids = {} /\ wait'.statuses = << >> /\ DOMAIN wait'.statuses = {}
    BY <2>2, SMTT(30) DEF NoWait, Blocked
  <2>5. RequestsOK(requests, finished)' /\ WaitInv'
    BY <2>3, <2>4, SMTT(30) DEF RequestsOK, RequestOK, WaitInv, TakenOK, StatusesOK
  <2>6. Service!Return
    <3>1. DOMAIN returned'.statuses = w.ids
      BY <2>2 DEF Statuses
    <3>2. \A id \in w.ids : Service!Justified(id, returned'.statuses[id], returned'.deadline)
      BY <1>1, <2>2, ReturnJustified
    <3>3. finished' = finished \cup
            {id \in DOMAIN returned'.statuses : returned'.statuses[id][1] = "Finished"}
      BY <2>2 DEF DoneAfter
    <3> QED BY <3>1, <3>2, <3>3 DEF Service!Return
  <2> QED BY <2>2, <2>3, <2>5, <2>6
<1>2. CASE ~(w.deadline = "done" \/ ~MustWaitMore(reqs, w.ids))
  <2>1. /\ wait' = Blocked(w.ids, w.deadline, Statuses(reqs, w)) /\ requests' = Taken(reqs, w.ids)
        /\ UNCHANGED <<returned, held, finished>>
    BY <1>2 DEF Pass
  <2>2. wait'.ids = w.ids /\ wait'.statuses = Statuses(reqs, w)
    BY <2>1, SMTT(30) DEF Blocked
  <2>3. /\ RequestsOK(requests', finished) /\ TakenOK(requests', finished, wait'.statuses)
        /\ StatusesOK(requests', finished, wait'.statuses)
        /\ DispatchedIn(requests') = DispatchedIn(reqs) /\ DOMAIN wait'.statuses = wait'.ids
    BY <2>1, <2>2, KeptAfterPass, SMTT(30)
  <2>4. RequestsOK(requests, finished)'
    BY <2>1, <2>3, SMTT(30) DEF RequestsOK, RequestOK
  <2>5. WaitInv'
    BY <2>1, <2>2, <2>3 DEF WaitInv, TakenOK, StatusesOK
  <2> QED BY <2>1, <2>3, <2>4, <2>5
<1> QED BY <1>1, <1>2

-----------------------------------------------------------------------------
\* The steps

\* A step of the service, or none.
Promised == [Service!Next]_(Service!vars)

\* What the steps that leave the service alone do to it.
LEMMA Stutters ==
    ASSUME UNCHANGED <<asked, outcome, worker, finished, returned>>
    PROVE  Promised
BY DEF Promised, Service!vars

\* Initially nothing was asked.
LEMMA Initially ==
    ASSUME Init
    PROVE  IInv /\ Service!Init
<1>1. Elements(<<>>) = {} /\ Firsts(<<>>) = <<>> /\ NoRepeat(<<>>)
  BY DEF Elements, Firsts, NoRepeat
<1>2. FreshInv
  BY IdsAssumption DEF Init, FreshInv, Ids
<1>3. LinesInv
  BY <1>1 DEF Init, LinesInv, ToWorker, AtWorker, FromWorker
<1>4. FlagsInv
  BY Zenon DEF Init, FlagsInv
<1>5. MovingInv
  BY <1>1 DEF Init, MovingInv
<1>6. PlacesInv
  BY <1>1 DEF Init, PlacesInv, ToWorker, AtWorker, FromWorker, DispatchedIn
<1>7. RequestsOK(requests, finished)
  BY DEF Init, RequestsOK
<1>8. WaitInv
  BY DEF Init, WaitInv, NoWait, Blocked, TakenOK, StatusesOK
<1>9. Service!Init
  BY DEF Init, Service!Init
<1> QED BY <1>2, <1>3, <1>4, <1>5, <1>6, <1>7, <1>8, <1>9 DEF IInv

\* request_start: the identifier is new everywhere.
LEMMA StartStep ==
    ASSUME IInv, NEW request \in Requests, request_start(request)
    PROVE  IInv' /\ Promised
<1>0. PICK id, msg : id = next_id /\ msg = <<next_id, request>>
  BY Zenon
<1>1. /\ next_id \in Ids /\ next_id + 1 \in Ids /\ next_id' = next_id + 1 /\ msg \in Queries
  BY <1>0, IdsAssumption DEF IInv, FreshInv, request_start, CanStart, FreshId, Ids, Queries
<1>2. next_id \notin DOMAIN asked
  BY <1>1 DEF IInv, FreshInv, Ids
<1>3. /\ next_id \notin DOMAIN requests /\ next_id \notin DOMAIN outcome /\ next_id \notin finished
  BY <1>2 DEF IInv, FreshInv
<1>4. /\ DOMAIN asked' = DOMAIN asked \cup {next_id} /\ asked'[next_id] = request
      /\ \A i \in DOMAIN asked : asked'[i] = asked[i]
  BY <1>2 DEF request_start, Insert
<1>5. /\ DOMAIN requests' = DOMAIN requests \cup {next_id} /\ requests'[next_id] = Dispatched
      /\ \A i \in DOMAIN requests : requests'[i] = requests[i]
  BY <1>3 DEF request_start, Insert
<1>6. UNCHANGED <<wait, api, finished, returned, from_worker, working, n, worker, begun, outcome, answer>>
  BY DEF request_start, workerVars
<1>7. held' = held \cup {next_id}
  BY DEF request_start
<1>8. FreshInv'
  <2>1. \A i \in DOMAIN asked' : i \in Ids /\ i < next_id' /\ asked'[i] \in Requests
    BY <1>1, <1>4 DEF IInv, FreshInv, Ids
  <2> QED BY <1>1, <1>4, <1>5, <1>6, <1>7, <2>1 DEF IInv, FreshInv
<1>9. next_id \notin ToWorker \cup AtWorker \cup FromWorker
  BY <1>3 DEF IInv, PlacesInv, DispatchedIn
<1>10. /\ to_worker' \in Seq(Queries) /\ NoRepeat(Firsts(to_worker'))
       /\ worker => /\ ToWorker' = ToWorker \cup {next_id}
                    /\ Elements(to_worker') = Elements(to_worker) \cup {msg}
       /\ ~worker => ToWorker' = ToWorker /\ Elements(to_worker') = Elements(to_worker)
  <2>1. CASE worker
    <3>1. to_worker' = Append(to_worker, msg)
      BY <1>0, <2>1 DEF request_start
    <3>2. to_worker \in Seq(Queries) /\ NoRepeat(Firsts(to_worker)) /\ msg[1] = next_id
      BY <1>0 DEF IInv, LinesInv
    <3>3. /\ Append(to_worker, msg) \in Seq(Queries)
          /\ Elements(Append(to_worker, msg)) = Elements(to_worker) \cup {msg}
          /\ Elements(Firsts(Append(to_worker, msg))) = Elements(Firsts(to_worker)) \cup {msg[1]}
          /\ NoRepeat(Firsts(to_worker)) /\ msg[1] \notin Elements(Firsts(to_worker)) =>
               NoRepeat(Firsts(Append(to_worker, msg)))
      BY <1>1, <3>2, PushLine
    <3> QED BY <1>9, <2>1, <3>1, <3>2, <3>3 DEF ToWorker
  <2>2. CASE ~worker
    BY <2>2 DEF IInv, LinesInv, request_start, ToWorker
  <2> QED BY <2>1, <2>2
<1>11. UNCHANGED <<AtWorker, FromWorker>>
  BY <1>6 DEF AtWorker, FromWorker
<1>12. LinesInv'
  BY <1>6, <1>9, <1>10, <1>11 DEF IInv, LinesInv
<1>13. FlagsInv'
  BY <1>6, Zenon DEF IInv, FlagsInv, request_start
<1>14. MovingInv'
  <2>1. \A q : QueryOK(q) => QueryOK(q)'
    BY <1>4, <1>6 DEF QueryOK
  <2>2. \A m : MessageOK(m) => MessageOK(m)'
    BY <1>4, <1>6, Zenon DEF MessageOK, IInv, FreshInv
  <2>3. QueryOK(msg)'
    BY <1>3, <1>4, <1>6, <1>0 DEF QueryOK
  <2>4. \A q \in Elements(to_worker') : q \in Elements(to_worker) \/ q = msg
    BY <1>10
  <2> QED BY <1>6, <2>1, <2>2, <2>3, <2>4, SMTT(30) DEF IInv, MovingInv
<1>15. PlacesInv'
  <2>1. DispatchedIn(requests)' = DispatchedIn(requests) \cup {next_id}
    BY <1>5, SMTT(30) DEF DispatchedIn
  <2> QED BY <1>6, <1>10, <1>11, <2>1 DEF IInv, PlacesInv
<1>16. RequestsOK(requests, finished)'
  <2>1. RequestOK(id, requests[id], finished)'
    BY <1>3, <1>5, <1>6, <1>0 DEF RequestOK, Dispatched
  <2>2. \A i \in DOMAIN requests : RequestOK(i, requests[i], finished)'
    BY <1>4, <1>5, <1>6, SMTT(30) DEF IInv, RequestsOK, RequestOK, Dispatched, Response, Fail, Success
  <2> QED BY <1>3, <1>4, <1>5, <1>6, <1>0, <2>1, <2>2, SMTT(30) DEF IInv, RequestsOK, RequestOK
<1>17. WaitInv'
  <2>1. wait = NoWait
    BY DEF request_start, Running
  <2> QED BY <1>5, <1>6, <2>1, Tags DEF IInv, WaitInv, TakenOK, StatusesOK, NoWait, Blocked
<1>18. Promised
  <2>1. Service!Start(next_id, request)
    BY <1>2, <1>6, SMTT(30) DEF Service!Start, request_start, Insert, Service!Insert
  <2> QED BY <1>1, <2>1 DEF Promised, Service!Next
<1> QED BY <1>8, <1>12, <1>13, <1>14, <1>15, <1>16, <1>17, <1>18 DEF IInv

\* A pass leaves the lines to the step it is part of.
LEMMA PassStep ==
    ASSUME IInv, NEW reqs, NEW w, RequestsOK(reqs, finished),
           StatusesOK(reqs, finished, w.statuses), TakenOK(reqs, finished, w.statuses),
           DOMAIN w.statuses = w.ids, w.ids \subseteq Ids,
           Pass(reqs, w), UNCHANGED <<next_id, api, asked, outcome, worker, woken, listening>>,
           LinesInv', MovingInv',
           ToWorker' \cup AtWorker' \cup FromWorker' \subseteq DispatchedIn(reqs),
           api /\ worker => DispatchedIn(reqs) \subseteq ToWorker' \cup AtWorker' \cup FromWorker'
    PROVE  IInv' /\ Promised
<1>1. finished \subseteq DOMAIN outcome
  BY DEF IInv, FreshInv
<1>2. /\ RequestsOK(requests, finished)' /\ WaitInv'
      /\ DispatchedIn(requests') = DispatchedIn(reqs)
      /\ held' \subseteq held /\ finished' \subseteq DOMAIN outcome
      /\ Service!Return \/ UNCHANGED <<finished, returned>>
  BY <1>1, PassFacts, SMTT(30)
<1>3. FreshInv'
  <2>1. DOMAIN requests' \subseteq DOMAIN asked'
    BY <1>2, SMTT(30) DEF RequestsOK
  <2> QED BY <1>2, <2>1, SMTT(30) DEF IInv, FreshInv
<1>4. FlagsInv'
  BY DEF IInv, FlagsInv
<1>5. PlacesInv'
  BY <1>2, Zenon DEF PlacesInv, DispatchedIn, Dispatched
<1>6. Promised
  BY <1>2 DEF Promised, Service!Next, Service!vars
<1> QED BY <1>2, <1>3, <1>4, <1>5, <1>6, SMTT(30) DEF IInv

\* Steps that leave the lines and the history alone leave their invariants alone.
LEMMA LinesKept ==
    ASSUME IInv, UNCHANGED <<to_worker, working, from_worker, n, asked, outcome>>
    PROVE  /\ LinesInv' /\ MovingInv'
           /\ ToWorker' = ToWorker /\ AtWorker' = AtWorker /\ FromWorker' = FromWorker
<1>1. ToWorker' = ToWorker /\ AtWorker' = AtWorker /\ FromWorker' = FromWorker
  BY DEF ToWorker, AtWorker, FromWorker
<1>2. LinesInv'
  BY <1>1 DEF IInv, LinesInv
<1>3. MovingInv'
  BY SMTT(30) DEF IInv, MovingInv, QueryOK, MessageOK, Response, Fail
<1> QED BY <1>1, <1>2, <1>3

\* response_wait is called.
LEMMA WaitCallStep ==
    ASSUME IInv, NEW ids \in SUBSET Ids, NEW deadline, response_wait(ids, deadline)
    PROVE  IInv' /\ Promised
<1>1. PICK w : w = Blocked(ids, deadline, [id \in ids |-> <<"DeadlineReached", None>>])
  OBVIOUS
<1>2. /\ w.ids = ids /\ DOMAIN w.statuses = ids
      /\ \A id \in ids : w.statuses[id][1] = "DeadlineReached"
  BY <1>1 DEF Blocked
<1>3. /\ Pass(requests, w) /\ wait = NoWait
      /\ UNCHANGED <<next_id, api, asked, outcome, worker, woken, listening>>
      /\ UNCHANGED <<to_worker, working, from_worker, n, asked, outcome>>
  BY <1>1 DEF response_wait, Running, workerVars
<1>4. TakenOK(requests, finished, w.statuses)
  BY <1>3, ZenonT(30) DEF IInv, WaitInv, TakenOK, NoWait, Blocked
<1>5. StatusesOK(requests, finished, w.statuses)
  BY <1>2 DEF StatusesOK
<1>6. /\ LinesInv' /\ MovingInv'
      /\ ToWorker' = ToWorker /\ AtWorker' = AtWorker /\ FromWorker' = FromWorker
  BY <1>3, LinesKept
<1>7. RequestsOK(requests, finished) /\ PlacesInv
  BY SMTT(30) DEF IInv
<1> QED BY <1>2, <1>3, <1>4, <1>5, <1>6, <1>7, PassStep DEF PlacesInv

\* The deadline is noticed.
LEMMA DeadlineStep ==
    ASSUME IInv, DeadlineNoticed
    PROVE  IInv' /\ Promised
<1>1. PICK w : w = Blocked(wait.ids, "done", wait.statuses)
  OBVIOUS
<1>2. w.ids = wait.ids /\ w.statuses = wait.statuses
  BY <1>1 DEF Blocked
<1>3. /\ Pass(requests, w)
      /\ UNCHANGED <<next_id, api, asked, outcome, worker, woken, listening>>
      /\ UNCHANGED <<to_worker, working, from_worker, n, asked, outcome>>
  BY <1>1 DEF DeadlineNoticed, workerVars
<1>4. /\ TakenOK(requests, finished, w.statuses) /\ StatusesOK(requests, finished, w.statuses)
      /\ DOMAIN w.statuses = w.ids /\ w.ids \subseteq Ids
  BY <1>2 DEF IInv, WaitInv
<1>5. /\ LinesInv' /\ MovingInv'
      /\ ToWorker' = ToWorker /\ AtWorker' = AtWorker /\ FromWorker' = FromWorker
  BY <1>3, LinesKept
<1>6. RequestsOK(requests, finished) /\ PlacesInv
  BY SMTT(30) DEF IInv
<1> QED BY <1>3, <1>4, <1>5, <1>6, PassStep DEF PlacesInv

\* A message arrives: it is about a Dispatched request, which gets its outcome.
LEMMA ReceiveStep ==
    ASSUME IInv, Receive
    PROVE  IInv' /\ Promised
<1>1. PICK msg : msg = Head(from_worker)
  OBVIOUS
<1>2. PICK reqs : reqs = Updated(requests, msg)
  OBVIOUS
<1>3. /\ from_worker # <<>> /\ from_worker' = Tail(from_worker) /\ Pass(reqs, wait)
      /\ UNCHANGED <<next_id, api, asked, outcome, worker, woken, listening, to_worker, working, n>>
  BY <1>1, <1>2 DEF Receive, workerVars
<1>4. /\ from_worker \in Seq(Messages) /\ NoRepeat(Firsts(from_worker))
  BY DEF IInv, LinesInv
<1>5. /\ from_worker' \in Seq(Messages) /\ msg \in Messages
      /\ Elements(from_worker) = Elements(from_worker') \cup {msg}
      /\ FromWorker = FromWorker' \cup {msg[1]}
      /\ NoRepeat(Firsts(from_worker')) /\ msg[1] \notin FromWorker'
  BY <1>1, <1>3, <1>4, PopLine DEF FromWorker
<1>6. ToWorker' = ToWorker /\ AtWorker' = AtWorker
  BY <1>3 DEF ToWorker, AtWorker
<1>7. msg[1] \in DOMAIN requests /\ requests[msg[1]] = Dispatched
  BY <1>5 DEF IInv, PlacesInv, DispatchedIn
<1>8. MessageOK(msg)
  BY <1>5 DEF IInv, MovingInv
<1>9. reqs = Insert(requests, msg[1], msg[2])
  BY <1>2, <1>7 DEF Updated
<1>10. /\ DOMAIN reqs = DOMAIN requests /\ reqs[msg[1]] = msg[2]
       /\ \A id \in DOMAIN requests : id # msg[1] => reqs[id] = requests[id]
  BY <1>7, <1>9 DEF Insert
<1>11. msg[2] # Dispatched /\ msg[2] # Success
  BY <1>8, Tags DEF MessageOK
<1>12. DispatchedIn(reqs) = DispatchedIn(requests) \ {msg[1]}
  BY <1>10, <1>11, SMTT(30) DEF DispatchedIn
<1>13. RequestsOK(reqs, finished)
  <2>1. \A id \in DOMAIN requests : RequestOK(id, requests[id], finished)
    BY DEF IInv, RequestsOK
  <2>2. msg[1] \notin finished
    BY <1>7, <2>1, Tags DEF RequestOK
  <2>3. RequestOK(msg[1], reqs[msg[1]], finished)
    BY <1>8, <1>10, <2>2 DEF MessageOK, RequestOK
  <2> QED BY <1>10, <2>1, <2>3 DEF IInv, RequestsOK
<1>14. TakenOK(reqs, finished, wait.statuses)
  BY <1>10, <1>11, SMTT(30) DEF IInv, WaitInv, TakenOK
<1>15. StatusesOK(reqs, finished, wait.statuses)
  <2>1. \A id \in DOMAIN wait.statuses : id = msg[1] => wait.statuses[id][1] = "DeadlineReached"
    BY <1>7 DEF IInv, WaitInv, StatusesOK
  <2> QED BY <1>10, <1>11, <2>1 DEF IInv, WaitInv, StatusesOK
<1>16. LinesInv'
  BY <1>3, <1>5, <1>6 DEF IInv, LinesInv
<1>17. MovingInv'
  BY <1>3, <1>5 DEF IInv, MovingInv, QueryOK, MessageOK, Response, Fail
<1>18. /\ ToWorker' \cup AtWorker' \cup FromWorker' \subseteq DispatchedIn(reqs)
       /\ api /\ worker => DispatchedIn(reqs) \subseteq ToWorker' \cup AtWorker' \cup FromWorker'
  BY <1>5, <1>6, <1>12, Zenon DEF IInv, PlacesInv, LinesInv
<1>19. DOMAIN wait.statuses = wait.ids /\ wait.ids \subseteq Ids
  BY DEF IInv, WaitInv
<1> QED BY <1>3, <1>13, <1>14, <1>15, <1>16, <1>17, <1>18, <1>19, PassStep

\* The crash of the worker is noticed: an error is what the service may return then.
LEMMA CrashNoticedStep ==
    ASSUME IInv, CrashNoticed
    PROVE  IInv' /\ Promised
<1>1. PICK statuses : statuses = [id \in wait.ids |-> <<"IoError", None>>]
  BY Zenon
<1>2. /\ wait' = NoWait /\ ~worker
      /\ returned' = [statuses |-> statuses, deadline |-> wait.deadline # "none"]
      /\ held' \subseteq held
      /\ finished' = finished \cup {id \in DOMAIN statuses : statuses[id][1] = "Finished"}
      /\ UNCHANGED <<next_id, requests, api, asked, to_worker, from_worker, working, n, worker,
                     outcome, woken, listening>>
  BY <1>1 DEF CrashNoticed, ReturnStatuses, workerVars
<1>3. DOMAIN statuses = wait.ids /\ \A id \in wait.ids : statuses[id][1] = "IoError"
  BY <1>1
<1>4. finished' = finished
  BY <1>2, <1>3
<1>5. /\ LinesInv' /\ MovingInv'
      /\ ToWorker' = ToWorker /\ AtWorker' = AtWorker /\ FromWorker' = FromWorker
  BY <1>2, LinesKept, SMTT(30)
<1>6. FreshInv' /\ FlagsInv' /\ RequestsOK(requests, finished)'
  BY <1>2, <1>4 DEF IInv, FreshInv, FlagsInv, RequestsOK, RequestOK, Dispatched, Response, Fail, Success
<1>7. PlacesInv'
  BY <1>2, <1>5, ZenonT(30) DEF IInv, PlacesInv, DispatchedIn, Dispatched
<1>8. WaitInv'
  <2>1. NoWait.ids = {} /\ NoWait.statuses = <<>>
    BY DEF NoWait, Blocked
  <2>2. wait'.ids = {} /\ DOMAIN wait'.statuses = {}
    BY <1>2, <2>1
  <2>3. ~worker'
    BY <1>2
  <2> QED BY <2>2, <2>3 DEF WaitInv, TakenOK, StatusesOK
<1>9. Service!Return
  <2>1. returned'.statuses = statuses
    BY <1>2, SMTT(30)
  <2>2. \A id \in DOMAIN statuses : Service!Justified(id, statuses[id], returned'.deadline)
    BY <1>2, <1>3 DEF Service!Justified
  <2> QED BY <1>2, <2>1, <2>2, SMTT(30) DEF Service!Return
<1> QED BY <1>5, <1>6, <1>7, <1>8, <1>9 DEF IInv, Promised, Service!Next

\* The clock, the executor's call of poll and a poll that finds no message change nothing
\* that is promised.
LEMMA QuietSteps ==
    ASSUME IInv, DeadlinePasses \/ Poll \/ Listen
    PROVE  IInv' /\ Promised
<1>1. UNCHANGED <<next_id, requests, held, api, asked, finished, returned, to_worker, from_worker,
                  working, worker, outcome>>
  BY DEF DeadlinePasses, Poll, Listen, apiVars, workerVars
<1>2. n' \in -1 .. Len(working)
  BY DEF IInv, LinesInv, DeadlinePasses, Poll, Listen, workerVars
<1>3. ToWorker' = ToWorker /\ AtWorker' = AtWorker /\ FromWorker' = FromWorker
  BY <1>1 DEF ToWorker, AtWorker, FromWorker
<1>4. LinesInv'
  BY <1>1, <1>2, <1>3, SMTT(30) DEF IInv, LinesInv
<1>5. MovingInv'
  BY <1>1, SMTT(30) DEF IInv, MovingInv, QueryOK, MessageOK, Response, Fail
<1>6. FreshInv' /\ RequestsOK(requests, finished)'
  BY <1>1 DEF IInv, FreshInv, RequestsOK, RequestOK, Dispatched, Response, Fail, Success
<1>7. FlagsInv'
  BY <1>1, Zenon DEF IInv, FlagsInv, DeadlinePasses, Poll, Listen
<1>8. PlacesInv'
  BY <1>1, <1>3, Zenon DEF IInv, PlacesInv, DispatchedIn, Dispatched
<1>9. wait'.ids = wait.ids /\ wait'.statuses = wait.statuses
  BY SMTT(30) DEF DeadlinePasses, Poll, Listen, apiVars, Blocked
<1>10. WaitInv'
  BY <1>1, <1>9 DEF IInv, WaitInv, TakenOK, StatusesOK, Dispatched, Success
<1>11. Promised
  BY <1>1, Stutters
<1> QED BY <1>4, <1>5, <1>6, <1>7, <1>8, <1>10, <1>11 DEF IInv

\* IpfsApi is dropped.
LEMMA DropStep ==
    ASSUME IInv, DropApi
    PROVE  IInv' /\ Promised
<1>1. /\ UNCHANGED <<next_id, requests, held, wait, asked, finished, returned, to_worker,
                     from_worker, working, n, worker, outcome>>
      /\ api' = FALSE
  BY DEF DropApi, workerVars
<1>2. /\ LinesInv' /\ MovingInv'
      /\ ToWorker' = ToWorker /\ AtWorker' = AtWorker /\ FromWorker' = FromWorker
  BY <1>1, LinesKept, SMTT(30)
<1>3. FreshInv' /\ RequestsOK(requests, finished)'
  BY <1>1 DEF IInv, FreshInv, RequestsOK, RequestOK, Dispatched, Response, Fail, Success
<1>4. FlagsInv'
  BY <1>1, Zenon DEF IInv, FlagsInv, DropApi
<1>5. PlacesInv'
  BY <1>1, <1>2, ZenonT(30) DEF IInv, PlacesInv, DispatchedIn, Dispatched
<1>6. WaitInv'
  BY <1>1 DEF IInv, WaitInv, TakenOK, StatusesOK, Dispatched, Success
<1>7. Promised
  BY <1>1, Stutters
<1> QED BY <1>2, <1>3, <1>4, <1>5, <1>6, <1>7 DEF IInv

\* What the worker does to the lines leaves what the API knows alone.
LEMMA WorkerStep ==
    ASSUME IInv, UNCHANGED <<apiVars, outcome>>, FlagsInv', worker' => worker, LinesInv', MovingInv',
           ToWorker' \cup AtWorker' \cup FromWorker' \subseteq ToWorker \cup AtWorker \cup FromWorker,
           worker' => ToWorker \cup AtWorker \cup FromWorker \subseteq
                        ToWorker' \cup AtWorker' \cup FromWorker'
    PROVE  IInv'
<1>1. FreshInv' /\ RequestsOK(requests, finished)'
  BY DEF IInv, FreshInv, RequestsOK, RequestOK, Dispatched, Response, Fail, Success, apiVars
<1>2. PlacesInv'
  BY Zenon DEF IInv, PlacesInv, DispatchedIn, Dispatched, apiVars
<1>3. WaitInv'
  BY Zenon DEF IInv, WaitInv, TakenOK, StatusesOK, Dispatched, Success, apiVars
<1> QED BY <1>1, <1>2, <1>3, SMTT(30) DEF IInv

\* A pending request is put back at the end of the vector.
LEMMA PendingStep ==
    ASSUME IInv, PollPending
    PROVE  IInv' /\ Promised
<1>1. /\ n \in 1 .. Len(working) /\ n' = n - 1
      /\ working' = Append(SwapRemove(working, n), working[n])
      /\ UNCHANGED <<apiVars, to_worker, from_worker, woken, listening, worker, outcome>>
  <2>1. n \in -1 .. Len(working)
    BY Zenon DEF IInv, LinesInv
  <2>2. /\ n > 0 /\ n' = n - 1
        /\ working' = Append(SwapRemove(working, n), working[n])
        /\ UNCHANGED <<apiVars, to_worker, from_worker, woken, listening, worker, outcome>>
    BY Zenon DEF PollPending
  <2>3. n \in 1 .. Len(working)
    BY <2>1, <2>2
  <2> QED BY <2>2, <2>3, Zenon
<1>2. working \in Seq(Queries) /\ NoRepeat(Firsts(working))
  BY DEF IInv, LinesInv
<1>3. PICK q, rest : q = working[n] /\ rest = SwapRemove(working, n)
  OBVIOUS
<1>4. /\ rest \in Seq(Queries) /\ q \in Queries
      /\ Len(rest) = Len(working) - 1
      /\ Elements(working) = Elements(rest) \cup {q}
      /\ AtWorker = Elements(Firsts(rest)) \cup {q[1]}
      /\ NoRepeat(Firsts(rest)) /\ q[1] \notin Elements(Firsts(rest))
  <2>1. /\ SwapRemove(working, n) \in Seq(Queries) /\ working[n] \in Queries
        /\ Len(SwapRemove(working, n)) = Len(working) - 1
        /\ Elements(working) = Elements(SwapRemove(working, n)) \cup {working[n]}
        /\ Elements(Firsts(working)) = Elements(Firsts(SwapRemove(working, n))) \cup {working[n][1]}
        /\ NoRepeat(Firsts(working)) => /\ NoRepeat(Firsts(SwapRemove(working, n)))
                                        /\ working[n][1] \notin Elements(Firsts(SwapRemove(working, n)))
    BY <1>1, <1>2, TakeLine, Zenon
  <2> QED BY <1>2, <1>3, <2>1, Zenon DEF AtWorker
<1>5. working' = Append(rest, q)
  BY <1>1, <1>3
<1>6. /\ working' \in Seq(Queries) /\ NoRepeat(Firsts(working'))
      /\ Elements(working') = Elements(rest) \cup {q}
      /\ AtWorker' = Elements(Firsts(rest)) \cup {q[1]}
  BY <1>4, <1>5, PushLine DEF AtWorker
<1>7. n' \in -1 .. Len(working')
  BY <1>1, <1>4, <1>5
<1>8. ToWorker' = ToWorker /\ AtWorker' = AtWorker /\ FromWorker' = FromWorker
  BY <1>1, <1>4, <1>6 DEF ToWorker, FromWorker
<1>9. LinesInv'
  BY <1>1, <1>6, <1>7, <1>8, SMTT(30) DEF IInv, LinesInv
<1>10. MovingInv'
  <2>1. Elements(working') = Elements(working)
    BY <1>4, <1>6
  <2> QED BY <1>1, <2>1 DEF IInv, MovingInv, QueryOK, MessageOK, Response, Fail, apiVars
<1>11. FlagsInv'
  BY <1>1 DEF IInv, FlagsInv, apiVars
<1>12. IInv'
  BY <1>1, <1>8, <1>9, <1>10, <1>11, WorkerStep
<1>13. Promised
  BY <1>1, Stutters DEF apiVars
<1> QED BY <1>12, <1>13

\* A request that is ready leaves the vector, and its message goes to the API.
LEMMA ReadyStep ==
    ASSUME IInv, NEW result \in Results, PollReady(result)
    PROVE  IInv' /\ Promised
<1>1. /\ n \in 1 .. Len(working) /\ n' = n - 1
      /\ working' = SwapRemove(working, n)
      /\ woken' = (woken \/ result = "ok")
      /\ UNCHANGED <<apiVars, to_worker, listening, worker>>
  <2>1. n \in -1 .. Len(working)
    BY Zenon DEF IInv, LinesInv
  <2>2. /\ n > 0 /\ n' = n - 1
        /\ working' = SwapRemove(working, n)
        /\ woken' = (woken \/ result = "ok")
        /\ UNCHANGED <<apiVars, to_worker, listening, worker>>
    BY Zenon DEF PollReady
  <2>3. n \in 1 .. Len(working)
    BY <2>1, <2>2
  <2> QED BY <2>2, <2>3, Zenon
<1>2. working \in Seq(Queries) /\ NoRepeat(Firsts(working))
  BY DEF IInv, LinesInv
<1>3. PICK q, id, msg : /\ q = working[n] /\ id = q[1]
                        /\ msg = <<id, IF result = "ok" THEN Response(q[2]) ELSE Fail>>
  BY Zenon
<1>4. /\ from_worker' = IF api THEN Append(from_worker, msg) ELSE from_worker
      /\ outcome' = Insert(outcome, id, result)
  BY <1>3, Zenon DEF PollReady
<1>5. /\ working' \in Seq(Queries) /\ q \in Queries
      /\ Len(working') = Len(working) - 1
      /\ Elements(working) = Elements(working') \cup {q}
      /\ AtWorker = AtWorker' \cup {id}
      /\ NoRepeat(Firsts(working')) /\ id \notin AtWorker'
  <2>1. /\ SwapRemove(working, n) \in Seq(Queries) /\ working[n] \in Queries
        /\ Len(SwapRemove(working, n)) = Len(working) - 1
        /\ Elements(working) = Elements(SwapRemove(working, n)) \cup {working[n]}
        /\ Elements(Firsts(working)) = Elements(Firsts(SwapRemove(working, n))) \cup {working[n][1]}
        /\ NoRepeat(Firsts(working)) => /\ NoRepeat(Firsts(SwapRemove(working, n)))
                                        /\ working[n][1] \notin Elements(Firsts(SwapRemove(working, n)))
    BY <1>1, <1>2, TakeLine, Zenon
  <2> QED BY <1>1, <1>2, <1>3, <2>1, Zenon DEF AtWorker
<1>6. QueryOK(q) /\ id \in DOMAIN asked \ DOMAIN outcome /\ q[2] = asked[id]
  BY <1>3, <1>5 DEF IInv, MovingInv, QueryOK
<1>7. /\ DOMAIN outcome' = DOMAIN outcome \cup {id} /\ outcome'[id] = result
      /\ \A i \in DOMAIN outcome : outcome'[i] = outcome[i]
  BY <1>4, <1>6 DEF Insert
<1>8. msg \in Messages /\ msg[1] = id
  <2>1. q[1] \in Ids /\ q[2] \in Requests
    BY <1>5 DEF Queries
  <2>2. Response(q[2]) \in {"Response", "Fail"} \X Places /\ Fail \in {"Response", "Fail"} \X Places
    BY <2>1 DEF Response, Fail, Places
  <2> QED BY <1>3, <2>1, <2>2 DEF Messages
<1>9. id \notin ToWorker \cup FromWorker
  BY <1>5 DEF IInv, LinesInv
<1>10. /\ from_worker' \in Seq(Messages) /\ NoRepeat(Firsts(from_worker'))
       /\ api => /\ FromWorker' = FromWorker \cup {id}
                 /\ Elements(from_worker') = Elements(from_worker) \cup {msg}
       /\ ~api => FromWorker' = FromWorker /\ Elements(from_worker') = Elements(from_worker)
  <2>1. from_worker \in Seq(Messages) /\ NoRepeat(Firsts(from_worker))
    BY DEF IInv, LinesInv
  <2>2. CASE api
    <3>1. from_worker' = Append(from_worker, msg)
      BY <1>4, <2>2
    <3>2. /\ Append(from_worker, msg) \in Seq(Messages)
          /\ Elements(Append(from_worker, msg)) = Elements(from_worker) \cup {msg}
          /\ Elements(Firsts(Append(from_worker, msg))) = Elements(Firsts(from_worker)) \cup {msg[1]}
          /\ NoRepeat(Firsts(from_worker)) /\ msg[1] \notin Elements(Firsts(from_worker)) =>
               NoRepeat(Firsts(Append(from_worker, msg)))
      BY <1>8, <2>1, PushLine
    <3> QED BY <1>8, <1>9, <2>1, <2>2, <3>1, <3>2 DEF FromWorker
  <2>3. CASE ~api
    BY <1>4, <2>1, <2>3 DEF FromWorker
  <2> QED BY <2>2, <2>3
<1>11. ToWorker' = ToWorker
  BY <1>1 DEF ToWorker
<1>12. LinesInv'
  <2>1. n' \in -1 .. Len(working')
    BY <1>1, <1>5
  <2>2. ToWorker' \cap AtWorker' = {} /\ ToWorker' \cap FromWorker' = {} /\ AtWorker' \cap FromWorker' = {}
    BY <1>5, <1>9, <1>10, <1>11 DEF IInv, LinesInv
  <2> QED BY <1>1, <1>5, <1>10, <2>1, <2>2 DEF IInv, LinesInv
<1>13. UNCHANGED <<next_id, requests, held, wait, api, asked, finished, returned, worker>>
  BY <1>1 DEF apiVars
<1>14. MovingInv'
  <2>1. \A p : QueryOK(p) /\ p[1] # id => QueryOK(p)'
    BY <1>7, <1>13 DEF QueryOK
  <2>2. \A p \in Elements(to_worker) : p[1] # id
    <3>1. \A p \in Elements(to_worker) : p[1] \in ToWorker
      BY Zenon DEF Elements, Firsts, ToWorker
    <3> QED BY <1>9, <3>1, Zenon
  <2>3. \A p \in Elements(working') : p[1] # id
    <3>1. \A p \in Elements(working') : p[1] \in AtWorker'
      BY Zenon DEF Elements, Firsts, AtWorker
    <3> QED BY <1>5, <3>1, Zenon
  <2>4. \A m : MessageOK(m) => MessageOK(m)'
    BY <1>7, <1>13 DEF MessageOK, Response, Fail
  <2>5. MessageOK(msg)'
    BY <1>3, <1>6, <1>7, <1>13 DEF MessageOK, Response, Fail, Results
  <2>6. \A p \in Elements(to_worker') : QueryOK(p)'
    BY <1>1, <2>1, <2>2 DEF IInv, MovingInv
  <2>7. \A p \in Elements(working') : QueryOK(p)'
    BY <1>5, <2>1, <2>3 DEF IInv, MovingInv
  <2>8. \A m \in Elements(from_worker') : MessageOK(m)'
    BY <1>10, <2>4, <2>5, Zenon DEF IInv, MovingInv, FlagsInv
  <2> QED BY <2>6, <2>7, <2>8, Zenon DEF MovingInv
<1>15. FreshInv'
  BY <1>6, <1>7, <1>13 DEF IInv, FreshInv
<1>16. FlagsInv'
  BY <1>1, <1>13 DEF IInv, FlagsInv
<1>17. PlacesInv'
  BY <1>5, <1>10, <1>11, <1>13, Zenon DEF IInv, PlacesInv, DispatchedIn, Dispatched
<1>18. RequestsOK(requests, finished)'
  <2>1. \A i \in DOMAIN requests : RequestOK(i, requests[i], finished) => RequestOK(i, requests[i], finished)'
    BY <1>7, <1>13, Zenon DEF RequestOK, Dispatched, Response, Fail, Success
  <2> QED BY <1>7, <1>13, <2>1, Zenon DEF IInv, RequestsOK
<1>19. WaitInv'
  BY <1>13, Zenon DEF IInv, WaitInv, TakenOK, StatusesOK, Dispatched, Success
<1>20. Promised
  <2>1. Service!Answer(id, result)
    BY <1>4, <1>6, <1>13, Zenon DEF Service!Answer, Insert, Service!Insert
  <2>2. id \in Ids
    BY <1>6 DEF IInv, FreshInv
  <2> QED BY <2>1, <2>2 DEF Promised, Service!Next, Results
<1> QED BY <1>12, <1>14, <1>15, <1>16, <1>17, <1>18, <1>19, <1>20 DEF IInv

\* A message from the API moves to the vector.
LEMMA AcceptStep ==
    ASSUME IInv, Accept
    PROVE  IInv' /\ Promised
<1>1. /\ to_worker # <<>> /\ n' = -1 /\ woken' = TRUE
      /\ working' = Append(working, Head(to_worker)) /\ to_worker' = Tail(to_worker)
      /\ UNCHANGED <<apiVars, from_worker, listening, worker, outcome>>
  BY DEF Accept
<1>2. /\ to_worker \in Seq(Queries) /\ working \in Seq(Queries)
      /\ NoRepeat(Firsts(to_worker)) /\ NoRepeat(Firsts(working)) /\ ToWorker \cap AtWorker = {}
  BY DEF IInv, LinesInv
<1>3. PICK q : q = Head(to_worker)
  OBVIOUS
<1>4. /\ to_worker' \in Seq(Queries) /\ q \in Queries
      /\ Elements(to_worker) = Elements(to_worker') \cup {q}
      /\ ToWorker = ToWorker' \cup {q[1]}
      /\ NoRepeat(Firsts(to_worker')) /\ q[1] \notin ToWorker'
  BY <1>1, <1>2, <1>3, PopLine, Zenon DEF ToWorker
<1>5. q[1] \notin AtWorker
  BY <1>2, <1>4
<1>6. /\ working' \in Seq(Queries) /\ Elements(working') = Elements(working) \cup {q}
      /\ AtWorker' = AtWorker \cup {q[1]} /\ NoRepeat(Firsts(working'))
  <2>1. /\ Append(working, q) \in Seq(Queries)
        /\ Elements(Append(working, q)) = Elements(working) \cup {q}
        /\ Elements(Firsts(Append(working, q))) = Elements(Firsts(working)) \cup {q[1]}
        /\ NoRepeat(Firsts(working)) /\ q[1] \notin Elements(Firsts(working)) =>
             NoRepeat(Firsts(Append(working, q)))
    BY <1>2, <1>4, PushLine
  <2> QED BY <1>1, <1>2, <1>3, <1>5, <2>1 DEF AtWorker
<1>7. FromWorker' = FromWorker
  BY <1>1 DEF FromWorker
<1>8. LinesInv'
  <2>1. n' \in -1 .. Len(working')
    BY <1>1, <1>6
  <2>2. ToWorker' \cap AtWorker' = {} /\ ToWorker' \cap FromWorker' = {} /\ AtWorker' \cap FromWorker' = {}
    BY <1>4, <1>6, <1>7 DEF IInv, LinesInv
  <2> QED BY <1>1, <1>4, <1>6, <2>1, <2>2 DEF IInv, LinesInv
<1>9. MovingInv'
  BY <1>1, <1>4, <1>6, Zenon DEF IInv, MovingInv, QueryOK, MessageOK, Response, Fail, apiVars
<1>10. FlagsInv'
  BY <1>1 DEF IInv, FlagsInv, apiVars
<1>11. IInv'
  BY <1>1, <1>4, <1>6, <1>7, <1>8, <1>9, <1>10, WorkerStep
<1>12. Promised
  BY <1>1, Stutters DEF apiVars
<1> QED BY <1>11, <1>12

\* The task ends, by itself or with its executor: requests are lost with it, and none is
\* invented.
LEMMA EndStep ==
    ASSUME IInv, Stop \/ Crash
    PROVE  IInv' /\ Promised
<1>1. /\ worker' = FALSE /\ n' = -1 /\ working' = <<>>
      /\ to_worker' = to_worker \/ to_worker' = <<>>
      /\ UNCHANGED <<apiVars, from_worker, woken, listening, outcome>>
  BY DEF Stop, Crash
<1>2. Elements(<<>>) = {} /\ Firsts(<<>>) = <<>> /\ NoRepeat(<<>>)
  BY DEF Elements, Firsts, NoRepeat
<1>3. AtWorker' = {} /\ FromWorker' = FromWorker /\ ToWorker' \subseteq ToWorker
  BY <1>1, <1>2 DEF AtWorker, FromWorker, ToWorker
<1>4. to_worker' \in Seq(Queries) /\ NoRepeat(Firsts(to_worker')) /\ Elements(to_worker') \subseteq Elements(to_worker)
  <2>1. to_worker \in Seq(Queries) /\ NoRepeat(Firsts(to_worker))
    BY DEF IInv, LinesInv
  <2>2. CASE to_worker' = to_worker
    BY <2>1, <2>2
  <2>3. CASE to_worker' = <<>>
    BY <1>2, <2>3
  <2> QED BY <1>1, <2>2, <2>3
<1>5. LinesInv'
  BY <1>1, <1>2, <1>3, <1>4 DEF IInv, LinesInv
<1>6. MovingInv'
  BY <1>1, <1>2, <1>4, Zenon DEF IInv, MovingInv, QueryOK, MessageOK, Response, Fail, apiVars
<1>7. FlagsInv'
  BY <1>1, Zenon DEF IInv, FlagsInv, apiVars
<1>8. IInv'
  BY <1>1, <1>3, <1>5, <1>6, <1>7, WorkerStep
<1>9. Service!Crash
  BY <1>1 DEF Service!Crash, apiVars
<1> QED BY <1>8, <1>9 DEF Promised, Service!Next

\* The IPFS node answers: only the future of the request knows.
LEMMA NodeStep ==
    ASSUME IInv, NEW id, NEW result, NodeAnswers(id, result)
    PROVE  IInv' /\ Promised
<1>1. /\ UNCHANGED <<apiVars, to_worker, from_worker, working, n, worker, outcome, listening>>
      /\ woken' = TRUE
  BY DEF NodeAnswers, workerVars
<1>2. /\ LinesInv' /\ MovingInv'
      /\ ToWorker' = ToWorker /\ AtWorker' = AtWorker /\ FromWorker' = FromWorker
  BY <1>1, LinesKept DEF apiVars
<1>3. FlagsInv'
  BY <1>1 DEF IInv, FlagsInv, apiVars
<1>4. IInv'
  BY <1>1, <1>2, <1>3, WorkerStep
<1>5. Promised
  BY <1>1, Stutters DEF apiVars
<1> QED BY <1>4, <1>5

\* Every step keeps the invariant, and is a step of the service or none.
LEMMA Steps ==
    ASSUME IInv, [Next]_vars
    PROVE  IInv' /\ Promised
<1>1. CASE \E request \in Requests : request_start(request)
  BY <1>1, StartStep
<1>2. CASE \E ids \in SUBSET Ids, deadline \in {"none", "ahead"} : response_wait(ids, deadline)
  BY <1>2, WaitCallStep
<1>3. CASE WaitStep
  BY <1>3, ReceiveStep, DeadlineStep, CrashNoticedStep DEF WaitStep
<1>4. CASE DeadlinePasses \/ Poll
  BY <1>4, QuietSteps
<1>5. CASE DropApi
  BY <1>5, DropStep
<1>6. CASE PollStep
  BY <1>6, PendingStep, ReadyStep, AcceptStep, QuietSteps, EndStep DEF PollStep
<1>7. CASE Crash
  BY <1>7, EndStep
<1>8. CASE \E id \in Ids, result \in Results : NodeAnswers(id, result)
  BY <1>8, NodeStep
<1>9. CASE UNCHANGED vars
  <2>1. UNCHANGED <<to_worker, working, from_worker, n, asked, outcome, worker, finished, returned>>
    BY <1>9 DEF vars
  <2>2. LinesInv' /\ MovingInv'
    BY <2>1, LinesKept
  <2>3. UNCHANGED <<ToWorker, AtWorker, FromWorker>>
    BY <2>1 DEF ToWorker, AtWorker, FromWorker
  <2>4. FlagsInv'
    BY <1>9 DEF vars, IInv, FlagsInv
  <2>5. UNCHANGED <<apiVars, outcome>>
    BY <1>9 DEF vars, apiVars
  <2>6. IInv'
    BY <2>1, <2>2, <2>3, <2>4, <2>5, WorkerStep
  <2> QED BY <2>1, <2>6, Stutters
<1> QED BY <1>1, <1>2, <1>3, <1>4, <1>5, <1>6, <1>7, <1>8, <1>9 DEF Next

-----------------------------------------------------------------------------
\* Theorems

\* The invariant that the theorems rest on: what the states of the requests, the lines
\* between the API and the worker and the statuses of a blocked wait say of each other.
THEOREM Invariance == Spec => []IInv
<1>1. Init => IInv
  BY Initially
<1>2. IInv /\ [Next]_vars => IInv'
  BY Steps
<1> QED BY <1>1, <1>2, PTL DEF Spec

\* The state has its type; identifiers never pass u16::MAX.
THEOREM TypeCorrect == Spec => []TypeOK
<1>1. IInv => TypeOK
  <2> SUFFICES ASSUME IInv PROVE TypeOK
    OBVIOUS
  <2>1. next_id \in Ids /\ DOMAIN requests \subseteq Ids /\ held \subseteq Ids /\ finished \subseteq Ids
    BY DEF IInv, FreshInv
  <2>2. \A id \in DOMAIN requests :
          requests[id] \in {"Dispatched", "Response", "Fail", "Success"} \X Places
    <3> SUFFICES ASSUME NEW id \in DOMAIN requests
                 PROVE  requests[id] \in {"Dispatched", "Response", "Fail", "Success"} \X Places
      OBVIOUS
    <3>1. RequestOK(id, requests[id], finished) /\ asked[id] \in Requests
      BY SMTT(30) DEF IInv, RequestsOK, FreshInv
    <3>2. requests[id] \in {Dispatched, Response(asked[id]), Fail, Success}
      BY <3>1, SMTT(30) DEF RequestOK
    <3> QED BY <3>1, <3>2 DEF Dispatched, Response, Fail, Success, Places
  <2>3. /\ Elements(to_worker) \subseteq Queries /\ Elements(working) \subseteq Queries
        /\ Elements(from_worker) \subseteq Messages
    BY LineIds DEF IInv, LinesInv
  <2> QED BY <2>1, <2>2, <2>3, Zenon DEF IInv, LinesInv, FlagsInv, TypeOK, Queries, Messages
<1> QED BY <1>1, Invariance, PTL

\* While both sides live every Dispatched request is in exactly one place on its way to
\* the worker and back, and the next identifier is new: no message is a state mismatch.
THEOREM NothingLost == Spec => []NoRequestLost
<1>1. IInv => NoRequestLost
  <2> SUFFICES ASSUME IInv PROVE NoRequestLost
    OBVIOUS
  <2>1. PICK a, b, c : a = Firsts(to_worker) /\ b = Firsts(working) /\ c = Firsts(from_worker)
    OBVIOUS
  <2>2. a \in Seq(Ids) /\ b \in Seq(Ids) /\ c \in Seq(Ids)
    <3>1. to_worker \in Seq(Queries) /\ working \in Seq(Queries) /\ from_worker \in Seq(Messages)
      BY SMTT(30) DEF IInv, LinesInv
    <3>2. \A S : \A vec \in Seq(S) : (\A q \in S : q[1] \in Ids) => Firsts(vec) \in Seq(Ids)
      BY DEF Firsts
    <3>3. \A q \in Queries \cup Messages : q[1] \in Ids
      BY SMTT(30) DEF Queries, Messages
    <3> QED BY <2>1, <3>1, <3>2, <3>3, Zenon
  <2>3. /\ NoRepeat(a) /\ NoRepeat(b) /\ NoRepeat(c)
        /\ Elements(a) = ToWorker /\ Elements(b) = AtWorker /\ Elements(c) = FromWorker
        /\ ToWorker \cap AtWorker = {} /\ ToWorker \cap FromWorker = {} /\ AtWorker \cap FromWorker = {}
    BY <2>1 DEF IInv, LinesInv, ToWorker, AtWorker, FromWorker
  <2>4. /\ a \o b \in Seq(Ids) /\ Elements(a \o b) = Elements(a) \cup Elements(b)
        /\ NoRepeat(a) /\ NoRepeat(b) /\ Elements(a) \cap Elements(b) = {} => NoRepeat(a \o b)
    BY <2>2, ConcatLines, ZenonT(30)
  <2>5. \A ab \in Seq(Ids) :
          /\ Elements(ab \o c) = Elements(ab) \cup Elements(c)
          /\ NoRepeat(ab) /\ NoRepeat(c) /\ Elements(ab) \cap Elements(c) = {} => NoRepeat(ab \o c)
    BY <2>2, ConcatLines, ZenonT(30)
  <2>6. PICK ab : ab = a \o b
    BY Zenon
  <2>7. InFlight = ab \o c
    BY <2>1, <2>6 DEF InFlight
  <2>8. NoRepeat(InFlight) /\ Elements(InFlight) = ToWorker \cup AtWorker \cup FromWorker
    BY <2>3, <2>4, <2>5, <2>6, <2>7, Zenon
  <2>9. next_id \notin DOMAIN requests
    BY DEF IInv, FreshInv, Ids
  <2>10. api /\ worker => DispatchedIn(requests) = ToWorker \cup AtWorker \cup FromWorker
    BY DEF IInv, PlacesInv
  <2> QED BY <2>8, <2>9, <2>10 DEF NoRequestLost, NoRepeat, DispatchedIn
<1> QED BY <1>1, Invariance, PTL

\* IpfsApi and IpfsWorker implement the service, whatever identifiers a caller waits for:
\* a status is returned only when it is justified, and a response at most once.
THEOREM ImplementsService == Spec => ServiceSpec
<1>1. Init => Service!Init
  BY Initially
<1>2. IInv /\ [Next]_vars => [Service!Next]_(Service!vars)
  BY Steps DEF Promised
<1> QED BY <1>1, <1>2, Invariance, PTL DEF Spec, ServiceSpec, Service!Spec
=============================================================================
