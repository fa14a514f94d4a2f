----------------------------- MODULE ScanProofs -----------------------------
(***************************************************************************)
(* Proofs about ScanSpec: what the requests of a capture have in common    *)
(* whatever the order of the events, what deduplication keeps of them, and *)
(* what the document says of the traffic in the end.                       *)
(***************************************************************************)
EXTENDS ScanSpec, SequenceLemmas

-----------------------------------------------------------------------------
(* The capture.                                                            *)

\* The entry of an exchange is its current hop, with the answer to its last
\* one or with none.
IsPending(id) ==
    LET entry == pending[id]
        sent == page[id][hop[id]]
    IN  /\ DOMAIN entry = {"request", "resp", "complete"}
        /\ entry.request = sent
        /\ id \notin answered => entry.resp = Unanswered
        /\ id \in answered =>
              entry.resp \in [status : {sent.resp.status}, ctype : {sent.resp.ctype},
                              body : {0, sent.resp.body}]

NetworkInv ==
    /\ page = job.page /\ DOMAIN hop = DOMAIN page
    /\ \A id \in DOMAIN page : hop[id] \in 0..Len(page[id])
    /\ DOMAIN pending = {id \in DOMAIN page : hop[id] # 0}
    /\ answered \subseteq {id \in DOMAIN page : hop[id] = Len(page[id])}
    /\ fetching # 0 => fetching \in answered
    /\ \A id \in DOMAIN pending : IsPending(id)

\* A request of the capture is unanswered or has the status of a hop of its
\* exchange; what a bundle names comes after what was on the wire.
Seen(r) ==
    \/ r.resp = Unanswered
    \/ \E id \in DOMAIN page : \E h \in DOMAIN page[id] :
          /\ page[id][h].path = r.path /\ page[id][h].method = r.method
          /\ page[id][h].resp.status = r.resp.status /\ r.resp.status > 0

Traffic(reqs) ==
    /\ IsSeq(reqs)
    /\ \A i \in DOMAIN reqs :
          /\ IsRequest(reqs[i]) /\ Seen(reqs[i])
          /\ IsJSStaticSource(reqs[i].source) => reqs[i].resp = Unanswered
    /\ \A i, j \in DOMAIN reqs :
          IsJSStaticSource(reqs[i].source) /\ ~IsJSStaticSource(reqs[j].source) => j < i

\* What reporting a request, or merging others into it, leaves of it.
FirstFields == RequestFields \ {"query", "resp"}

Alike(e, r) == \A f \in FirstFields : e[f] = r[f]

\* The last hop sent of each exchange is in the capture, and what the bundles name.
NothingDropped ==
    /\ \A id \in DOMAIN page : hop[id] # 0 =>
          \E i \in DOMAIN requests : Alike(requests[i], page[id][hop[id]])
    /\ \A k \in DOMAIN job.static : \E i \in DOMAIN requests : Alike(requests[i], job.static[k])

ScanInv ==
    /\ job \in Jobs
    /\ NetworkInv
    /\ taken => Traffic(requests) /\ NothingDropped
    /\ apiType # "" => taken
    /\ Generated => entries = Endpoints("rest", requests) /\ document = Specification(requests)

-----------------------------------------------------------------------------
\* The traffic of a job is typed.
LEMMA JobTyped ==
  ASSUME job \in Jobs
  PROVE  /\ IsSeq(job.page) /\ IsSeq(job.static)
         /\ \A id \in DOMAIN job.page :
               /\ Len(job.page[id]) \in Nat \ {0} /\ DOMAIN job.page[id] = 1..Len(job.page[id])
               /\ \A h \in DOMAIN job.page[id] :
                     /\ IsRequest(job.page[id][h]) /\ ~IsJSStaticSource(job.page[id][h].source)
                     /\ job.page[id][h].resp.status > 0
         /\ \A i \in DOMAIN job.static :
               /\ IsRequest(job.static[i]) /\ IsJSStaticSource(job.static[i].source)
               /\ job.static[i].resp = Unanswered
<1>1. ASSUME NEW id \in DOMAIN job.page
      PROVE  Len(job.page[id]) \in Nat \ {0} /\ DOMAIN job.page[id] = 1..Len(job.page[id])
  <2>1. IsSeq(job.page[id]) /\ job.page[id] # <<>>
    BY ScanJobs
  <2> QED BY <2>1, LenProperties, EmptySeq DEF IsSeq
<1> QED BY <1>1, ScanJobs

LEMMA InitInv ==
  ASSUME Init
  PROVE  ScanInv
<1>1. NetworkInv
  <2>1. page = job.page /\ hop = [id \in DOMAIN page |-> 0] /\ job \in Jobs
    BY DEF Init, NetworkInit
  <2>2. \A id \in DOMAIN page : hop[id] = 0 /\ 0 \in 0..Len(page[id])
    BY <2>1, JobTyped
  <2>3. DOMAIN <<>> = {}
    OBVIOUS
  <2> QED BY <2>3, <2>1, <2>2 DEF Init, NetworkInit, NetworkInv
<1> QED BY <1>1 DEF Init, NetworkInit, ScanInv, Generated

LEMMA SendingKeepsInv ==
  ASSUME job \in Jobs, NetworkInv, UNCHANGED job,
         NEW id \in DOMAIN page, RequestWillBeSent(id)
  PROVE  NetworkInv'
<1>1. /\ UNCHANGED <<page, answered, fetching>> /\ fetching = 0
      /\ hop[id] < Len(page[id]) /\ hop' = [hop EXCEPT ![id] = @ + 1]
      /\ pending' = With(pending, id, Entry(id, hop'[id]))
  BY DEF RequestWillBeSent, Listening
<1>2. /\ Len(page[id]) \in Nat /\ hop[id] \in 0..Len(page[id]) /\ DOMAIN hop = DOMAIN page
      /\ id \notin answered /\ page = job.page
  BY <1>1, JobTyped DEF NetworkInv
<1>3. /\ DOMAIN hop' = DOMAIN page /\ hop'[id] = hop[id] + 1 /\ hop'[id] \in 0..Len(page[id])
      /\ hop'[id] # 0 /\ \A x \in DOMAIN page : x # id => hop'[x] = hop[x]
  BY <1>1, <1>2
<1>4. /\ DOMAIN pending' = DOMAIN pending \cup {id}
      /\ pending'[id] = Entry(id, hop'[id])
      /\ \A x \in DOMAIN pending : x # id => pending'[x] = pending[x]
  BY <1>1 DEF With
<1>5. ASSUME NEW x \in DOMAIN pending' PROVE IsPending(x)'
  <2>1. CASE x = id
    BY <1>1, <1>2, <1>4, <2>1 DEF IsPending, Entry
  <2>2. CASE x # id
    <3>1. x \in DOMAIN pending /\ pending'[x] = pending[x] /\ hop'[x] = hop[x]
      BY <1>3, <1>4, <2>2 DEF NetworkInv
    <3> QED BY <1>1, <3>1 DEF NetworkInv, IsPending
  <2> QED BY <2>1, <2>2
<1> QED BY <1>1, <1>2, <1>3, <1>4, <1>5 DEF NetworkInv

LEMMA AnsweringKeepsInv ==
  ASSUME job \in Jobs, NetworkInv, UNCHANGED job,
         NEW id \in DOMAIN page, ResponseReceived(id)
  PROVE  NetworkInv'
<1>1. /\ UNCHANGED <<page, hop, fetching>> /\ fetching = 0 /\ hop[id] = Len(page[id])
      /\ answered' = answered \cup {id}
      /\ pending' = [pending EXCEPT ![id].resp = [page[id][hop[id]].resp EXCEPT !.body = 0]]
  BY DEF ResponseReceived, Listening
<1>2. page = job.page /\ hop[id] # 0 /\ id \in DOMAIN pending /\ hop[id] \in DOMAIN page[id]
  BY <1>1, JobTyped DEF NetworkInv
<1>3. DOMAIN page[id][hop[id]].resp = {"status", "ctype", "body"}
  BY <1>2, JobTyped DEF IsRequest
<1>4. /\ DOMAIN pending' = DOMAIN pending
      /\ \A x \in DOMAIN pending : x # id => pending'[x] = pending[x]
      /\ pending'[id] = [pending[id] EXCEPT !.resp = [page[id][hop[id]].resp EXCEPT !.body = 0]]
  BY <1>1, <1>2
<1>5. ASSUME NEW x \in DOMAIN pending' PROVE IsPending(x)'
  <2>1. CASE x = id
    <3>1. DOMAIN pending[id] = {"request", "resp", "complete"} /\ pending[id].request = page[id][hop[id]]
      BY <1>2 DEF NetworkInv, IsPending
    <3> QED BY <1>1, <1>3, <1>4, <2>1, <3>1 DEF IsPending
  <2>2. CASE x # id
    BY <1>1, <1>4, <2>2 DEF NetworkInv, IsPending
  <2> QED BY <2>1, <2>2
<1> QED BY <1>1, <1>2, <1>4, <1>5 DEF NetworkInv

LEMMA FetchingKeepsInv ==
  ASSUME NetworkInv, UNCHANGED job,
         \/ BodyFetched
         \/ \E id \in DOMAIN page : LoadingFinished(id)
  PROVE  NetworkInv'
<1>1. /\ UNCHANGED <<page, hop, answered>>
      /\ fetching' # 0 => fetching' \in answered
      /\ DOMAIN pending' = DOMAIN pending
  BY DEF BodyFetched, LoadingFinished, NetworkInv
<1>2. ASSUME NEW x \in DOMAIN pending' PROVE IsPending(x)'
  <2>1. IsPending(x)
    BY <1>1, <1>2 DEF NetworkInv
  <2>2. CASE \E id \in DOMAIN page : LoadingFinished(id)
    <3>1. PICK id \in DOMAIN page : pending' = [pending EXCEPT ![id].complete = TRUE]
      BY <2>2 DEF LoadingFinished
    <3>2. CASE x = id
      BY <1>1, <1>2, <2>1, <3>1, <3>2 DEF IsPending
    <3>3. CASE x # id
      BY <1>1, <1>2, <2>1, <3>1, <3>3 DEF IsPending
    <3> QED BY <3>2, <3>3
  <2>3. CASE BodyFetched
    <3>1. CASE UNCHANGED pending
      BY <1>1, <2>1, <3>1 DEF IsPending
    <3>2. CASE pending' = [pending EXCEPT ![fetching].resp.body = page[fetching][hop[fetching]].resp.body]
      <4>1. CASE x = fetching
        <5>1. x \in answered
          BY <2>1, <2>3, <4>1 DEF NetworkInv, IsPending, BodyFetched
        <5> QED BY <1>1, <1>2, <2>1, <3>2, <4>1, <5>1 DEF IsPending
      <4>2. CASE x # fetching
        BY <1>1, <1>2, <2>1, <3>2, <4>2 DEF IsPending
      <4> QED BY <4>1, <4>2
    <3> QED BY <2>3, <3>1, <3>2 DEF BodyFetched
  <2> QED BY <2>2, <2>3
<1> QED BY <1>1, <1>2 DEF NetworkInv

\* What the page sent, as mapNetworkToObservedRequest reports it.
LEMMA MappedIsTraffic ==
  ASSUME job \in Jobs, NetworkInv, NEW id \in DOMAIN pending
  PROVE  /\ IsRequest(Mapped(id)) /\ Seen(Mapped(id)) /\ ~IsJSStaticSource(Mapped(id).source)
         /\ Alike(Mapped(id), page[id][hop[id]])
<1>1. /\ id \in DOMAIN page /\ page = job.page /\ IsPending(id)
      /\ hop[id] \in DOMAIN page[id]
  <2>1. id \in DOMAIN page /\ page = job.page /\ hop[id] \in 0..Len(page[id]) /\ hop[id] # 0
    BY DEF NetworkInv
  <2> QED BY <2>1, JobTyped DEF NetworkInv
<1> DEFINE sent == page[id][hop[id]]
           m == Mapped(id)
<1>2. IsRequest(sent) /\ ~IsJSStaticSource(sent.source) /\ sent.resp.status > 0
  BY <1>1, JobTyped
<1>3. /\ DOMAIN m = RequestFields
      /\ \A f \in RequestFields \ {"resp", "query"} : m[f] = sent[f]
      /\ m.resp = pending[id].resp
  <2>1. pending[id].request = sent /\ DOMAIN sent = RequestFields
    BY <1>1, <1>2 DEF IsPending, IsRequest
  <2>2. m = [sent EXCEPT !.resp = pending[id].resp, !.query = CapQueryValues(sent.query)]
    BY <2>1 DEF Mapped
  <2> HIDE DEF sent, m
  <2> QED BY <2>1, <2>2 DEF RequestFields
<1>4. /\ m.resp \in [status : Nat, ctype : ToSet(MediaTypes), body : Nat]
      /\ m.resp = Unanswered \/ m.resp.status = sent.resp.status
  <2>1. CASE id \notin answered
    <3>1. 1 \in DOMAIN MediaTypes /\ MediaTypes[1] = ""
      BY DEF MediaTypes
    <3>2. "" \in ToSet(MediaTypes)
      BY <3>1 DEF ToSet
    <3>3. Unanswered \in [status : Nat, ctype : ToSet(MediaTypes), body : Nat]
      BY <3>2 DEF Unanswered
    <3>4. m.resp = Unanswered
      BY <1>1, <1>3, <2>1 DEF IsPending
    <3> QED BY <3>3, <3>4
  <2>2. CASE id \in answered
    <3>1. sent.resp \in [status : Nat, ctype : ToSet(MediaTypes), body : Nat]
      BY <1>2 DEF IsRequest
    <3>2. m.resp \in [status : {sent.resp.status}, ctype : {sent.resp.ctype}, body : {0, sent.resp.body}]
      BY <1>1, <1>3, <2>2 DEF IsPending
    <3> HIDE DEF sent, m
    <3> QED BY <3>1, <3>2
  <2> QED BY <2>1, <2>2
<1>5. IsRequest(m)
  <2> HIDE DEF sent, m
  <2> QED BY <1>2, <1>3, <1>4 DEF IsRequest, RequestFields
<1>6. Seen(m)
  <2>1. m.path = sent.path /\ m.method = sent.method
    <3> HIDE DEF sent, m
    <3> QED BY <1>3 DEF RequestFields
  <2> QED BY <1>1, <1>2, <1>4, <2>1 DEF Seen
<1>7. m.source = sent.source /\ Alike(m, sent)
  <2> HIDE DEF sent, m
  <2> QED BY <1>3 DEF RequestFields, Alike, FirstFields
<1> QED BY <1>2, <1>5, <1>6, <1>7

\* An order of a set has each of its elements.
LEMMA OrdersReach ==
  ASSUME NEW S, IsFiniteSet(S), NEW f \in Orders(S), NEW x \in S
  PROVE  \E i \in DOMAIN f : f[i] = x
<1> DEFINE n == Cardinality(S)
<1>1. n \in Nat /\ f \in [1..n -> S] /\ DOMAIN f = 1..n
  BY FS_CardinalityType DEF Orders
<1>2. f \in Injection(1..n, S)
  BY <1>1 DEF Orders, Injection, IsInjective
<1>3. Cardinality(1..n) = Cardinality(S)
  BY <1>1, FS_Interval
<1>4. f \in Surjection(1..n, S)
  BY <1>2, <1>3, FS_Injection
<1> QED BY <1>1, <1>4 DEF Surjection

\* The results, in any order, then what the bundles name, in any order.
LEMMA CollectKeepsInv ==
  ASSUME ScanInv, NEW captured, captured \in Orders(DOMAIN pending),
         NEW found, found \in Orders(DOMAIN job.static), Collect(captured, found)
  PROVE  ScanInv'
<1>1. /\ UNCHANGED <<page, hop, answered, pending, fetching, job, apiType, entries, document>>
      /\ taken' = TRUE /\ taken = FALSE
      /\ requests' = [i \in DOMAIN captured |-> Mapped(captured[i])]
                        \o [i \in DOMAIN found |-> job.static[found[i]]]
  BY DEF Collect, Results, Reported
<1> DEFINE wire == [i \in DOMAIN captured |-> Mapped(captured[i])]
           static == [i \in DOMAIN found |-> job.static[found[i]]]
           reqs == wire \o static
<1>2. job \in Jobs /\ NetworkInv /\ IsFiniteSet(DOMAIN pending) /\ IsFiniteSet(DOMAIN job.static)
  <2>1. job \in Jobs /\ NetworkInv
    BY DEF ScanInv
  <2>2. DOMAIN pending \in SUBSET (DOMAIN page) /\ IsSeq(page) /\ IsSeq(job.static)
    BY <2>1, JobTyped DEF NetworkInv
  <2> QED BY <2>1, <2>2, SeqFinite
<1>3. IsSeq(wire) /\ \A i \in DOMAIN wire : captured[i] \in DOMAIN pending
  <2>2. DOMAIN captured = 1..Cardinality(DOMAIN pending) /\ Cardinality(DOMAIN pending) \in Nat
    BY <1>2, FS_CardinalityType DEF Orders
  <2>3. wire = [i \in 1..Cardinality(DOMAIN pending) |-> Mapped(captured[i])]
    BY <2>2
  <2>4. \A i \in DOMAIN captured : captured[i] \in DOMAIN pending
    BY DEF Orders
  <2>5. DOMAIN wire = DOMAIN captured
    OBVIOUS
  <2> HIDE DEF wire
  <2> QED BY <2>2, <2>3, <2>4, <2>5, TableIsSeq
<1>4. IsSeq(static) /\ \A i \in DOMAIN static : found[i] \in DOMAIN job.static
  <2>2. DOMAIN found = 1..Cardinality(DOMAIN job.static) /\ Cardinality(DOMAIN job.static) \in Nat
    BY <1>2, FS_CardinalityType DEF Orders
  <2>3. static = [i \in 1..Cardinality(DOMAIN job.static) |-> job.static[found[i]]]
    BY <2>2
  <2>4. \A i \in DOMAIN found : found[i] \in DOMAIN job.static
    BY DEF Orders
  <2>5. DOMAIN static = DOMAIN found
    OBVIOUS
  <2> HIDE DEF static
  <2> QED BY <2>2, <2>3, <2>4, <2>5, TableIsSeq
<1>5. \A i \in DOMAIN wire : /\ IsRequest(wire[i]) /\ Seen(wire[i])
                             /\ ~IsJSStaticSource(wire[i].source)
  BY <1>2, <1>3, MappedIsTraffic
<1>6. \A i \in DOMAIN static : /\ IsRequest(static[i]) /\ Seen(static[i])
                               /\ IsJSStaticSource(static[i].source) /\ static[i].resp = Unanswered
  BY <1>2, <1>4, JobTyped DEF Seen
<1>7. ASSUME NEW id \in DOMAIN page, hop[id] # 0
      PROVE  \E i \in DOMAIN wire : Alike(wire[i], page[id][hop[id]])
  <2>1. id \in DOMAIN pending
    BY <1>2, <1>7 DEF NetworkInv
  <2>2. PICK i \in DOMAIN captured : captured[i] = id
    BY <1>2, <2>1, OrdersReach
  <2> QED BY <1>2, <2>1, <2>2, MappedIsTraffic
<1>8. ASSUME NEW k \in DOMAIN job.static
      PROVE  \E i \in DOMAIN static : static[i] = job.static[k]
  <2>1. PICK i \in DOMAIN found : found[i] = k
    BY <1>2, OrdersReach
  <2> QED BY <2>1
<1> HIDE DEF wire, static
<1>9. /\ IsSeq(reqs) /\ DOMAIN reqs = 1..(Len(wire) + Len(static))
      /\ Len(wire) \in Nat /\ Len(static) \in Nat
      /\ \A i \in DOMAIN reqs :
            \/ i \in DOMAIN wire /\ i <= Len(wire) /\ reqs[i] = wire[i]
            \/ i - Len(wire) \in DOMAIN static /\ i > Len(wire) /\ reqs[i] = static[i - Len(wire)]
  BY <1>3, <1>4, ConcatParts
<1>10. Traffic(reqs)
  <2>1. ASSUME NEW i \in DOMAIN reqs
        PROVE  /\ IsRequest(reqs[i]) /\ Seen(reqs[i])
               /\ IsJSStaticSource(reqs[i].source) => reqs[i].resp = Unanswered
    BY <1>5, <1>6, <1>9
  <2>2. ASSUME NEW i \in DOMAIN reqs, NEW j \in DOMAIN reqs,
               IsJSStaticSource(reqs[i].source), ~IsJSStaticSource(reqs[j].source)
        PROVE  j < i
    BY <1>5, <1>6, <1>9, <2>2
  <2> QED BY <1>9, <2>1, <2>2 DEF Traffic
<1>11. Traffic(requests)'
  <2>1. requests' = reqs
    BY <1>1 DEF wire, static
  <2> QED BY <1>1, <1>10, <2>1 DEF Traffic, Seen
<1>12. NothingDropped'
  <2>1. requests' = reqs
    BY <1>1 DEF wire, static
  <2>2. /\ \A i \in DOMAIN wire : i \in DOMAIN reqs /\ reqs[i] = wire[i]
        /\ \A i \in DOMAIN static : \E j \in DOMAIN reqs : reqs[j] = static[i]
    <3>1. /\ Len(wire) \in Nat /\ DOMAIN wire = 1..Len(wire)
          /\ Len(static) \in Nat /\ DOMAIN static = 1..Len(static)
      BY <1>3, <1>4, LenProperties DEF IsSeq
    <3>2. ASSUME NEW i \in DOMAIN wire PROVE i \in DOMAIN reqs /\ reqs[i] = wire[i]
      BY <1>9, <3>1
    <3>3. ASSUME NEW i \in DOMAIN static PROVE \E j \in DOMAIN reqs : reqs[j] = static[i]
      <4>1. /\ Len(wire) + i \in DOMAIN reqs /\ (Len(wire) + i) - Len(wire) = i
            /\ ~(Len(wire) + i <= Len(wire))
        BY <1>9, <3>1
      <4> QED BY <1>9, <4>1
    <3> QED BY <3>2, <3>3
  <2>3. \A id \in DOMAIN page : hop[id] # 0 =>
           \E i \in DOMAIN reqs : Alike(reqs[i], page[id][hop[id]])
    BY <1>7, <2>2
  <2>4. \A k \in DOMAIN job.static : \E i \in DOMAIN reqs : Alike(reqs[i], job.static[k])
    BY <1>8, <2>2 DEF Alike
  <2>5. UNCHANGED <<page, hop, job>>
    BY <1>1
  <2> HIDE DEF reqs
  <2> QED BY <2>1, <2>3, <2>4, <2>5 DEF NothingDropped, Alike
<1>13. apiType = ""
  BY <1>1 DEF ScanInv
<1>14. NetworkInv'
  BY <1>1, <1>2 DEF NetworkInv, IsPending
<1> QED BY <1>1, <1>2, <1>11, <1>12, <1>13, <1>14 DEF ScanInv, Generated

\* What was taken stays: no step changes the page or, then, its hops.
LEMMA TakenStays ==
  ASSUME ScanInv, taken, UNCHANGED <<job, page, hop, requests>>
  PROVE  Traffic(requests)' /\ NothingDropped'
<1>1. Traffic(requests) /\ NothingDropped
  BY DEF ScanInv
<1>2. Traffic(requests)'
  BY <1>1 DEF Traffic, Seen
<1>3. NothingDropped'
  BY <1>1 DEF NothingDropped, Alike
<1> QED BY <1>2, <1>3

LEMMA StepKeepsInv ==
  ASSUME ScanInv, [Next]_vars
  PROVE  ScanInv'
<1>1. CASE UNCHANGED vars
  <2>1. UNCHANGED <<page, hop, answered, pending, fetching, taken, job, requests, apiType, entries, document>>
    BY <1>1 DEF vars, networkVars
  <2>2. taken => Traffic(requests)' /\ NothingDropped'
    BY <2>1, TakenStays
  <2>3. NetworkInv'
    BY <2>1 DEF ScanInv, NetworkInv, IsPending
  <2> QED BY <2>1, <2>2, <2>3 DEF ScanInv, Generated, Endpoints, Specification
<1>2. CASE Capturing
  <2>1. UNCHANGED <<job, requests, apiType, entries, document, page, taken>>
    BY <1>2 DEF Capturing, NetworkNext, BodyFetched, RequestWillBeSent, ResponseReceived, LoadingFinished
  <2>2. NetworkInv'
    BY <1>2, <2>1, SendingKeepsInv, AnsweringKeepsInv, FetchingKeepsInv DEF ScanInv, Capturing, NetworkNext
  <2>3. taken => UNCHANGED hop
    BY <1>2 DEF Capturing, NetworkNext, Listening, BodyFetched, RequestWillBeSent, ResponseReceived,
                LoadingFinished
  <2>4. taken => Traffic(requests)' /\ NothingDropped'
    BY <2>1, <2>3, TakenStays
  <2> QED BY <2>1, <2>2, <2>4 DEF ScanInv, Generated, Endpoints, Specification
<1>3. CASE ResolveAndGenerate
  <2>1. /\ UNCHANGED <<page, hop, answered, pending, fetching, taken, job, requests>> /\ taken
        /\ entries' = Endpoints(apiType', requests)
        /\ document' = IF apiType' = "rest" THEN Specification(requests) ELSE NoDocument
    BY <1>3 DEF ResolveAndGenerate, networkVars
  <2>2. Traffic(requests)' /\ NothingDropped'
    BY <2>1, TakenStays
  <2>3. NetworkInv'
    BY <2>1 DEF ScanInv, NetworkInv, IsPending
  <2> QED BY <2>1, <2>2, <2>3 DEF ScanInv, Generated, Endpoints, Specification
<1>4. CASE \E captured \in Orders(DOMAIN pending), found \in Orders(DOMAIN job.static) :
              Collect(captured, found)
  BY <1>4, CollectKeepsInv
<1> QED BY <1>1, <1>2, <1>3, <1>4 DEF Next

\* The entries of the capture follow the events of the browser, and what is
\* generated is generated from the requests taken.
THEOREM ScanInvariant == Spec => []ScanInv
<1>1. Init => ScanInv
  BY InitInv
<1>2. ScanInv /\ [Next]_vars => ScanInv'
  BY StepKeepsInv
<1> QED BY <1>1, <1>2, PTL DEF Spec

-----------------------------------------------------------------------------
(* Classification and deduplication.                                       *)

Dedup == INSTANCE SequenceLemmas WITH FoldStep <- Admit, FoldBase <- <<>>

EntryFields == RequestFields \cup {"apiType", "confidence", "reason", "multi"}

LEMMA AlikeKeys ==
  ASSUME NEW e, NEW r, Alike(e, r)
  PROVE  DedupKey(e) = DedupKey(r)
<1>1. e.method = r.method /\ e.path = r.path /\ e.soap = r.soap /\ e.ctype = r.ctype /\ e.body = r.body
  BY DEF Alike, FirstFields, RequestFields
<1> QED BY <1>1 DEF DedupKey

LEMMA VerdictFields ==
  ASSUME NEW r
  PROVE  DOMAIN RESTClassify(r) = {"apiType", "confidence", "reason"}
BY DEF RESTClassify, NoVerdict, Verdict

\* An entry before deduplication is a request that was kept, with its verdict.
IsJudged(c, r) ==
    /\ DOMAIN c = EntryFields /\ Alike(c, r)
    /\ c.resp = r.resp /\ c.confidence = RESTClassify(r).confidence

Classified == RunClassifiers("rest", requests, job.opts.threshold)

LEMMA ClassifiedAreKept ==
  ASSUME Traffic(requests)
  PROVE  /\ IsSeq(Classified)
         /\ \A k \in DOMAIN Classified : \E i \in Kept : IsJudged(Classified[k], requests[i])
         /\ \A i \in Kept : \E k \in DOMAIN Classified : IsJudged(Classified[k], requests[i])
         /\ Kept \subseteq DOMAIN requests
<1> DEFINE verdict(r) == Joined(Joined(r, ClassifyAs("rest", r)),
                                [multi |-> {k \in DOMAIN r.query : Len(r.query[k]) > 1}])
           judged == [i \in DOMAIN requests |-> verdict(requests[i])]
           I == {i \in DOMAIN judged : judged[i].confidence >= job.opts.threshold}
<1>1. Classified = Pick(judged, I)
  BY DEF Classified, RunClassifiers
<1>2. ASSUME NEW r, IsRequest(r)
      PROVE  IsJudged(verdict(r), r)
  <2>1. DOMAIN r = RequestFields
    BY <1>2 DEF IsRequest
  <2>2. DOMAIN ClassifyAs("rest", r) = {"apiType", "confidence", "reason"}
        /\ ClassifyAs("rest", r) = RESTClassify(r)
    BY VerdictFields DEF ClassifyAs
  <2>3. /\ DOMAIN verdict(r) = EntryFields
        /\ \A f \in RequestFields : verdict(r)[f] = r[f]
        /\ verdict(r).confidence = ClassifyAs("rest", r).confidence
    BY <2>1, <2>2 DEF Joined, RequestFields, EntryFields
  <2> HIDE DEF verdict
  <2> QED BY <2>2, <2>3 DEF IsJudged, Alike, FirstFields, RequestFields
<1>3. Len(requests) \in Nat /\ DOMAIN requests = 1..Len(requests)
  BY LenProperties DEF Traffic, IsSeq
<1>4. \A i \in DOMAIN requests : IsRequest(requests[i])
  BY DEF Traffic
<1>5. DOMAIN judged = DOMAIN requests /\ \A i \in DOMAIN requests : IsJudged(judged[i], requests[i])
  <2> HIDE DEF verdict
  <2> QED BY <1>2, <1>4
<1>6. I = Kept
  <2>1. \A i \in DOMAIN requests : judged[i].confidence = ClassifyAs("rest", requests[i]).confidence
    <3> HIDE DEF judged
    <3> QED BY <1>5 DEF IsJudged, ClassifyAs
  <2> HIDE DEF judged
  <2> QED BY <1>5, <2>1 DEF Kept
<1> HIDE DEF verdict, judged, I
<1>7. I \in SUBSET (1..Len(requests))
  BY <1>3, <1>6 DEF Kept
<1>8. IsSeq(Classified) /\ ToSet(Classified) = {judged[i] : i \in I}
  BY <1>1, <1>3, <1>7, PickIsSeq
<1>9. \A k \in DOMAIN Classified : \E i \in Kept : IsJudged(Classified[k], requests[i])
  <2>1. \A k \in DOMAIN Classified : Classified[k] \in ToSet(Classified)
    BY DEF ToSet
  <2> QED BY <1>3, <1>5, <1>6, <1>7, <1>8, <2>1
<1>10. \A i \in Kept : \E k \in DOMAIN Classified : IsJudged(Classified[k], requests[i])
  BY <1>3, <1>5, <1>6, <1>7, <1>8 DEF ToSet
<1> QED BY <1>8, <1>9, <1>10 DEF Kept

LEMMA PreferredResponse ==
  ASSUME NEW a, NEW b
  PROVE  /\ preferredResponse(a, b) \in {a, b}
         /\ responsePopulated(preferredResponse(a, b)) <=> responsePopulated(a) \/ responsePopulated(b)
<1> DEFINE p == responsePopulated(a)
           q == responsePopulated(b)
<1>1. p \in BOOLEAN /\ q \in BOOLEAN
  BY DEF responsePopulated
<1>2. preferredResponse(a, b) = IF p # q THEN IF q THEN b ELSE a
                                ELSE IF Before(ResponseKey(b), ResponseKey(a)) THEN b ELSE a
  BY DEF preferredResponse
<1> HIDE DEF p, q
<1>3. preferredResponse(a, b) \in {a, b}
  BY <1>2
<1>4. p = q => (responsePopulated(preferredResponse(a, b)) <=> p \/ q)
  BY <1>3 DEF p, q
<1>5. p # q => (responsePopulated(preferredResponse(a, b)) <=> p \/ q)
  BY <1>1, <1>2 DEF p, q
<1> QED BY <1>3, <1>4, <1>5 DEF p, q

LEMMA MergedFields ==
  ASSUME NEW e, NEW new, DOMAIN e = EntryFields
  PROVE  /\ DOMAIN MergeInto(e, new) = EntryFields /\ Alike(MergeInto(e, new), e)
         /\ MergeInto(e, new).resp = preferredResponse(e.resp, new.resp)
BY DEF MergeInto, EntryFields, RequestFields, Alike, FirstFields

\* An entry stands for the first m of c that have its key: it is like one of
\* them, has the response of one of them, and is populated if one of them is.
StandsFor(e, c, m) ==
    /\ DOMAIN e = EntryFields
    /\ \E i \in 1..m : Alike(e, c[i])
    /\ \E j \in 1..m : DedupKey(c[j]) = DedupKey(e) /\ e.resp = c[j].resp
    /\ \A j \in 1..m : DedupKey(c[j]) = DedupKey(e) /\ responsePopulated(c[j].resp)
                          => responsePopulated(e.resp)

Admitted(seen, c, m) ==
    /\ IsSeq(seen)
    /\ \A k \in DOMAIN seen : StandsFor(seen[k], c, m)
    /\ \A i \in 1..m : \E k \in DOMAIN seen : DedupKey(seen[k]) = DedupKey(c[i])

LEMMA AdmitStep ==
  ASSUME NEW c, NEW m \in Nat \ {0}, DOMAIN c[m] = EntryFields,
         NEW seen, Admitted(seen, c, m - 1)
  PROVE  Admitted(Admit(seen, c[m]), c, m)
<1> DEFINE new == c[m]
           at == {i \in DOMAIN seen : DedupKey(seen[i]) = DedupKey(new)}
<1>1. m \in 1..m /\ 1..(m - 1) \subseteq 1..m /\ \A i \in 1..m : i # m => i \in 1..(m - 1)
  OBVIOUS
<1>2. Len(seen) \in Nat /\ DOMAIN seen = 1..Len(seen) /\ seen \in Seq(ToSet(seen))
  BY LenProperties DEF Admitted, IsSeq
<1>3. CASE at = {}
  <2> DEFINE S == ToSet(seen) \cup {new}
             more == Append(seen, new)
  <2>1. Admit(seen, new) = more
    BY <1>3 DEF Admit
  <2>2. seen \in Seq(S) /\ new \in S
    BY <1>2, SeqMonotonic
  <2> HIDE DEF S
  <2>3. /\ more \in Seq(S) /\ Len(more) = Len(seen) + 1
        /\ \A i \in 1..Len(seen) : more[i] = seen[i]
        /\ more[Len(seen) + 1] = new
    BY <2>2, AppendProperties
  <2>4. DOMAIN more = 1..(Len(seen) + 1)
    BY <2>3, LenProperties
  <2> HIDE DEF more
  <2>5. IsSeq(more)
    BY <2>3, SeqIsSeq
  <2>6. \A j \in 1..(m - 1) : DedupKey(c[j]) # DedupKey(new)
    BY <1>3 DEF Admitted
  <2>7. StandsFor(new, c, m)
    <3>1. Alike(new, c[m])
      BY DEF Alike
    <3>2. \A j \in 1..m : DedupKey(c[j]) = DedupKey(new) => c[j].resp = new.resp
      BY <1>1, <2>6
    <3> QED BY <1>1, <3>1, <3>2 DEF StandsFor
  <2>8. \A k \in DOMAIN seen : StandsFor(seen[k], c, m)
    <3> TAKE k \in DOMAIN seen
    <3>1. StandsFor(seen[k], c, m - 1) /\ DedupKey(seen[k]) # DedupKey(new)
      BY <1>3 DEF Admitted
    <3> QED BY <1>1, <3>1 DEF StandsFor
  <2>9. ASSUME NEW k \in DOMAIN more PROVE StandsFor(more[k], c, m)
    <3>1. k \in DOMAIN seen \/ k = Len(seen) + 1
      BY <1>2, <2>4
    <3> QED BY <1>2, <2>3, <2>7, <2>8, <3>1
  <2>10. ASSUME NEW i \in 1..m PROVE \E k \in DOMAIN more : DedupKey(more[k]) = DedupKey(c[i])
    <3>1. CASE i = m
      BY <1>2, <2>3, <2>4, <3>1
    <3>2. CASE i # m
      <4>1. PICK k \in DOMAIN seen : DedupKey(seen[k]) = DedupKey(c[i])
        BY <1>1, <3>2 DEF Admitted
      <4> QED BY <1>2, <2>3, <2>4, <4>1
    <3> QED BY <3>1, <3>2
  <2> QED BY <2>1, <2>5, <2>9, <2>10 DEF Admitted
<1>4. CASE at # {}
  <2> DEFINE merged == [i \in DOMAIN seen |-> IF i \in at THEN MergeInto(seen[i], new) ELSE seen[i]]
  <2>1. Admit(seen, new) = merged
    BY <1>4 DEF Admit
  <2>2. DOMAIN merged = 1..Len(seen) /\ IsSeq(merged)
    <3>1. merged = [i \in 1..Len(seen) |-> merged[i]]
      BY <1>2
    <3> HIDE DEF merged
    <3> QED BY <1>2, <3>1, TableIsSeq
  <2>3. ASSUME NEW k \in DOMAIN seen
        PROVE  StandsFor(merged[k], c, m) /\ DedupKey(merged[k]) = DedupKey(seen[k])
    <3>1. StandsFor(seen[k], c, m - 1)
      BY DEF Admitted
    <3>2. CASE k \notin at
      <4>1. merged[k] = seen[k] /\ DedupKey(seen[k]) # DedupKey(new)
        BY <3>2
      <4> QED BY <1>1, <3>1, <4>1 DEF StandsFor
    <3>3. CASE k \in at
      <4>1. merged[k] = MergeInto(seen[k], new) /\ DedupKey(seen[k]) = DedupKey(new)
        BY <3>3
      <4>2. /\ DOMAIN merged[k] = EntryFields /\ Alike(merged[k], seen[k])
            /\ merged[k].resp = preferredResponse(seen[k].resp, new.resp)
        BY <3>1, <4>1, MergedFields DEF StandsFor
      <4>3. DedupKey(merged[k]) = DedupKey(seen[k])
        BY <4>2, AlikeKeys
      <4>4. \E i \in 1..m : Alike(merged[k], c[i])
        BY <1>1, <3>1, <4>2 DEF StandsFor, Alike
      <4>5. \E j \in 1..m : DedupKey(c[j]) = DedupKey(merged[k]) /\ merged[k].resp = c[j].resp
        <5>1. merged[k].resp = seen[k].resp \/ merged[k].resp = new.resp
          BY <4>2, PreferredResponse
        <5>2. CASE merged[k].resp = seen[k].resp
          BY <1>1, <3>1, <4>3, <5>2 DEF StandsFor
        <5>3. CASE merged[k].resp = new.resp
          BY <1>1, <4>1, <4>3, <5>3
        <5> QED BY <5>1, <5>2, <5>3
      <4>6. ASSUME NEW j \in 1..m, DedupKey(c[j]) = DedupKey(merged[k]), responsePopulated(c[j].resp)
            PROVE  responsePopulated(merged[k].resp)
        <5>1. CASE j = m
          BY <4>2, <4>6, <5>1, PreferredResponse
        <5>2. CASE j # m
          <6>1. responsePopulated(seen[k].resp)
            BY <1>1, <3>1, <4>3, <4>6, <5>2 DEF StandsFor
          <6> QED BY <4>2, <6>1, PreferredResponse
        <5> QED BY <5>1, <5>2
      <4> HIDE DEF merged
      <4> QED BY <4>2, <4>3, <4>4, <4>5, <4>6 DEF StandsFor
    <3> QED BY <3>2, <3>3
  <2> HIDE DEF merged
  <2>4. ASSUME NEW i \in 1..m PROVE \E k \in DOMAIN merged : DedupKey(merged[k]) = DedupKey(c[i])
    <3>1. CASE i = m
      BY <1>2, <1>4, <2>2, <2>3, <3>1
    <3>2. CASE i # m
      <4>1. PICK k \in DOMAIN seen : DedupKey(seen[k]) = DedupKey(c[i])
        BY <1>1, <3>2 DEF Admitted
      <4> QED BY <1>2, <2>2, <2>3, <4>1
    <3> QED BY <3>1, <3>2
  <2> QED BY <1>2, <2>1, <2>2, <2>3, <2>4 DEF Admitted
<1> QED BY <1>3, <1>4

LEMMA DeduplicateKeeps ==
  ASSUME NEW c, IsSeq(c), \A k \in DOMAIN c : DOMAIN c[k] = EntryFields
  PROVE  Admitted(Deduplicate(c), c, Len(c))
<1> DEFINE n == Len(c)
<1>1. n \in Nat /\ DOMAIN c = 1..n
  BY LenProperties DEF IsSeq
<1>2. PICK acc : Dedup!Unfolds(acc, c, n, Dedup!FoldLeft(Admit, <<>>, c))
  <2> HIDE DEF n
  <2> QED BY <1>1, Dedup!FoldUnfolds, QueryCaps
<1>3. Dedup!FoldLeft(Admit, <<>>, c) = FoldLeft(Admit, <<>>, c)
  BY DEF FoldLeft, Dedup!FoldLeft, MapThenFoldSet, Dedup!MapThenFoldSet, Max, Dedup!Max
<1>4. /\ acc[0] = <<>> /\ Deduplicate(c) = acc[n]
      /\ \A i \in 1..n : acc[i] = Admit(acc[i - 1], c[i])
  BY <1>2, <1>3 DEF Dedup!Unfolds, Deduplicate
<1> DEFINE T == {i \in 0..n : Admitted(acc[i], c, i)}
<1> HIDE DEF n
<1>5. 0 \in T
  <2>1. IsSeq(<<>>) /\ DOMAIN <<>> = {} /\ 1..0 = {}
    BY EmptySeq DEF IsSeq
  <2> QED BY <1>1, <1>4, <2>1 DEF Admitted
<1>6. ASSUME NEW i \in 1..n, i - 1 \in T PROVE i \in T
  <2>1. Admitted(acc[i - 1], c, i - 1) /\ i \in Nat \ {0} /\ i \in 0..n
    BY <1>6
  <2> QED BY <1>1, <1>4, <2>1, AdmitStep
<1>7. n \in T
  <2> HIDE DEF T
  <2> QED BY <1>1, <1>5, <1>6, StepByStep
<1> QED BY <1>4, <1>7 DEF n

-----------------------------------------------------------------------------
(* The entries of a document.                                              *)

\* An entry is like a request that was kept, and has the response of one of
\* those it stands for.
IsEntry(e) ==
    \E i \in Kept :
        /\ Alike(e, requests[i])
        /\ \E j \in OneWith(i) : e.resp = requests[j].resp
        /\ \A j \in OneWith(i) : responsePopulated(requests[j].resp) => responsePopulated(e.resp)

LEMMA EntriesAreEndpoints ==
  ASSUME Traffic(requests)
  PROVE  LET E == Endpoints("rest", requests)
         IN  /\ IsSeq(E)
             /\ \A k \in DOMAIN E : DOMAIN E[k] = EntryFields /\ IsEntry(E[k])
             /\ \A i \in Kept : \E k \in DOMAIN E : DedupKey(E[k]) = DedupKey(requests[i])
<1> DEFINE c == Classified
<1>1. /\ IsSeq(c)
      /\ \A k \in DOMAIN c : \E i \in Kept : IsJudged(c[k], requests[i])
      /\ \A i \in Kept : \E k \in DOMAIN c : IsJudged(c[k], requests[i])
      /\ Kept \subseteq DOMAIN requests
  BY ClassifiedAreKept
<1>2. Len(c) \in Nat /\ DOMAIN c = 1..Len(c)
  BY <1>1, LenProperties DEF IsSeq
<1>3. \A k \in DOMAIN c, i \in Kept :
         IsJudged(c[k], requests[i]) => DedupKey(c[k]) = DedupKey(requests[i])
  BY AlikeKeys DEF IsJudged
<1>4. CASE job.opts.deduplicate
  <2> DEFINE E == Deduplicate(c)
  <2>1. Endpoints("rest", requests) = E
    BY <1>4 DEF Endpoints, Classified
  <2>2. Admitted(E, c, Len(c))
    BY <1>1, DeduplicateKeeps DEF IsJudged
  <2> HIDE DEF E, c
  <2>3. ASSUME NEW k \in DOMAIN E PROVE DOMAIN E[k] = EntryFields /\ IsEntry(E[k])
    <3>1. StandsFor(E[k], c, Len(c))
      BY <2>2 DEF Admitted
    <3>2. PICK m \in DOMAIN c : Alike(E[k], c[m])
      BY <1>2, <3>1 DEF StandsFor
    <3>3. PICK i \in Kept : IsJudged(c[m], requests[i])
      BY <1>1
    <3>4. Alike(E[k], requests[i]) /\ DedupKey(E[k]) = DedupKey(requests[i])
      <4>1. Alike(E[k], requests[i])
        BY <3>2, <3>3 DEF IsJudged, Alike
      <4> QED BY <4>1, AlikeKeys
    <3>5. \E j \in OneWith(i) : E[k].resp = requests[j].resp
      <4>1. PICK n \in DOMAIN c : DedupKey(c[n]) = DedupKey(E[k]) /\ E[k].resp = c[n].resp
        BY <1>2, <3>1 DEF StandsFor
      <4>2. PICK j \in Kept : IsJudged(c[n], requests[j])
        BY <1>1
      <4>3. DedupKey(requests[j]) = DedupKey(requests[i])
        BY <1>3, <3>4, <4>1, <4>2
      <4> QED BY <1>1, <1>4, <4>1, <4>2, <4>3 DEF OneWith, Likes, IsJudged
    <3>6. ASSUME NEW j \in OneWith(i), responsePopulated(requests[j].resp)
          PROVE  responsePopulated(E[k].resp)
      <4>1. j \in Kept /\ DedupKey(requests[j]) = DedupKey(requests[i])
        BY <1>4 DEF OneWith, Likes
      <4>2. PICK n \in DOMAIN c : IsJudged(c[n], requests[j])
        BY <1>1, <4>1
      <4>3. DedupKey(c[n]) = DedupKey(E[k]) /\ c[n].resp = requests[j].resp
        BY <1>3, <3>4, <4>1, <4>2 DEF IsJudged
      <4> QED BY <1>2, <3>1, <3>6, <4>3 DEF StandsFor
    <3>7. DOMAIN E[k] = EntryFields
      BY <3>1 DEF StandsFor
    <3> QED BY <3>4, <3>5, <3>6, <3>7 DEF IsEntry
  <2>4. ASSUME NEW i \in Kept
        PROVE  \E k \in DOMAIN E : DedupKey(E[k]) = DedupKey(requests[i])
    <3>1. PICK n \in DOMAIN c : IsJudged(c[n], requests[i])
      BY <1>1
    <3> QED BY <1>2, <1>3, <2>2, <3>1 DEF Admitted
  <2> QED BY <2>1, <2>2, <2>3, <2>4 DEF Admitted
<1>5. CASE ~job.opts.deduplicate
  <2>1. Endpoints("rest", requests) = c
    BY <1>5 DEF Endpoints, Classified
  <2> HIDE DEF c
  <2>2. ASSUME NEW k \in DOMAIN c PROVE DOMAIN c[k] = EntryFields /\ IsEntry(c[k])
    <3>1. PICK i \in Kept : IsJudged(c[k], requests[i])
      BY <1>1
    <3> QED BY <1>5, <3>1 DEF IsEntry, IsJudged, OneWith
  <2> QED BY <1>1, <1>3, <2>1, <2>2
<1> QED BY <1>4, <1>5

-----------------------------------------------------------------------------
(* Groups, slots and who takes a slot.                                     *)

Options == job.opts.normalize
Web(E) == {i \in DOMAIN E : E[i].web}
Template(E, path) == NormalizePathsWithNames({E[i].path : i \in Web(E)}, Options)[path]
KeyOf(E, i) == <<Template(E, E[i].path), E[i].method, E[i].origin>>

LEMMA TemplatesAreOfPaths ==
  ASSUME NEW paths, NEW opts
  PROVE  DOMAIN NormalizePathsWithNames(paths, opts) = paths
BY DEF NormalizePathsWithNames, Tabled

LEMMA GroupsPartition ==
  ASSUME NEW E, IsSeq(E)
  PROVE  LET groups == groupEndpoints(E, Options)
         IN  /\ DOMAIN groups = {KeyOf(E, i) : i \in Web(E)} /\ IsFiniteSet(DOMAIN groups)
             /\ \A k \in DOMAIN groups :
                   /\ IsSeq(groups[k]) /\ groups[k] # <<>>
                   /\ \A r \in ToSet(groups[k]) : \E i \in Web(E) : r = E[i] /\ KeyOf(E, i) = k
<1> DEFINE groups == groupEndpoints(E, Options)
           of(k) == {i \in Web(E) : KeyOf(E, i) = k}
<1>1. groups = [k \in {KeyOf(E, i) : i \in Web(E)} |-> Pick(E, of(k))]
  BY DEF groupEndpoints, Tabled, Web, KeyOf, Template
<1> HIDE DEF groups
<1>2. Len(E) \in Nat /\ DOMAIN E = 1..Len(E)
  BY LenProperties DEF IsSeq
<1>3. Web(E) \in SUBSET (1..Len(E))
  BY <1>2 DEF Web
<1>4. IsFiniteSet({KeyOf(E, i) : i \in Web(E)})
  <2> DEFINE K == {KeyOf(E, i) : i \in Web(E)}
             f == [i \in Web(E) |-> KeyOf(E, i)]
  <2>1. IsFiniteSet(Web(E))
    BY <1>2, <1>3, SeqFinite
  <2>2. f \in Surjection(Web(E), K)
    BY DEF Surjection
  <2> HIDE DEF f, K
  <2>3. IsFiniteSet(K)
    BY <2>1, <2>2, FS_Surjection
  <2> QED BY <2>3 DEF K
<1>5. ASSUME NEW k \in DOMAIN groups
      PROVE  /\ IsSeq(groups[k]) /\ groups[k] # <<>>
             /\ \A r \in ToSet(groups[k]) : \E i \in Web(E) : r = E[i] /\ KeyOf(E, i) = k
  <2>1. groups[k] = Pick(E, of(k)) /\ of(k) # {} /\ of(k) \in SUBSET (1..Len(E))
    BY <1>1, <1>3
  <2>2. IsSeq(groups[k]) /\ ToSet(groups[k]) = {E[i] : i \in of(k)}
    <3> HIDE DEF of
    <3> QED BY <1>2, <2>1, PickIsSeq
  <2>3. ToSet(<<>>) = {}
    BY DEF ToSet
  <2>4. groups[k] # <<>>
    <3>1. PICK i \in of(k) : TRUE
      BY <2>1
    <3> HIDE DEF of
    <3> QED BY <2>2, <2>3, <3>1
  <2> QED BY <2>2, <2>4
<1> QED BY <1>1, <1>4, <1>5 DEF groups

LEMMA BeforePair ==
  ASSUME NEW a \in Nat, NEW b \in Nat, NEW c \in Nat, NEW d \in Nat
  PROVE  Before(<<a, b>>, <<c, d>>) <=> a < c \/ (a = c /\ b < d)
<1> DEFINE x == <<a, b>>
           y == <<c, d>>
<1>1. DOMAIN x = {1, 2} /\ DOMAIN y = {1, 2} /\ x[1] = a /\ x[2] = b /\ y[1] = c /\ y[2] = d
  OBVIOUS
<1>2. 1..(1 - 1) = {} /\ 1..(2 - 1) = {1}
  OBVIOUS
<1> HIDE DEF x, y
<1>3. Before(x, y) <=> a < c \/ (a = c /\ b < d)
  BY <1>1, <1>2 DEF Before, Lexicographic
<1> QED BY <1>3 DEF x, y

LEMMA TrustRanks ==
  ASSUME NEW o, NEW s
  PROVE  trustRank(o, s) \in {0, 1, 2}
BY DEF trustRank

Contends(groups, slot) == {k \in DOMAIN groups : <<k[1], k[2]>> = slot}

Beats(s, k, j) == \/ trustRank(k[3], s) < trustRank(j[3], s)
                  \/ trustRank(k[3], s) = trustRank(j[3], s) /\ k[3] < j[3]

Winner(groups, s, slot) ==
    CHOOSE k \in DOMAIN groups :
        /\ <<k[1], k[2]>> = slot
        /\ \A j \in DOMAIN groups \ {k} :
              <<j[1], j[2]>> = slot => Before(<<trustRank(k[3], s), k[3]>>, <<trustRank(j[3], s), j[3]>>)

Displaced(groups, s, slot) == {k[3] : k \in Contends(groups, slot) \ {Winner(groups, s, slot)}}

\* A slot with contenders has a winner, which beats every other.
LEMMA WinnerBeatsAll ==
  ASSUME NEW groups, NEW s, NEW slot, Contends(groups, slot) # {},
         \A k \in DOMAIN groups : k = <<k[1], k[2], k[3]>> /\ k[3] \in Nat
  PROVE  /\ Winner(groups, s, slot) \in Contends(groups, slot)
         /\ \A j \in Contends(groups, slot) \ {Winner(groups, s, slot)} : Beats(s, Winner(groups, s, slot), j)
<1> DEFINE C == Contends(groups, slot)
           rank(k) == trustRank(k[3], s)
           R == {rank(k) : k \in C}
<1>1. R \in SUBSET Nat /\ R # {}
  BY TrustRanks
<1>2. PICK t \in R : \A u \in R : t <= u
  <2> HIDE DEF R
  <2> QED BY <1>1, LeastExists
<1> DEFINE O == {k[3] : k \in {x \in C : rank(x) = t}}
<1>3. O \in SUBSET Nat /\ O # {}
  BY <1>2 DEF Contends
<1>4. PICK o \in O : \A u \in O : o <= u
  <2> HIDE DEF O
  <2> QED BY <1>3, LeastExists
<1>5. PICK w \in C : rank(w) = t /\ w[3] = o
  BY <1>4
<1>6. ASSUME NEW j \in C, j # w PROVE Beats(s, w, j)
  <2>1. w[3] # j[3]
    BY <1>6 DEF Contends
  <2>2. rank(w) <= rank(j) /\ rank(w) \in Nat /\ rank(j) \in Nat /\ w[3] \in Nat /\ j[3] \in Nat
    BY <1>2, <1>5, TrustRanks DEF Contends
  <2>3. rank(j) = rank(w) => w[3] <= j[3]
    BY <1>4, <1>5
  <2>4. rank(w) < rank(j) \/ (rank(w) = rank(j) /\ w[3] < j[3])
    <3> HIDE DEF rank
    <3> QED BY <2>1, <2>2, <2>3
  <2> QED BY <2>4 DEF Beats
<1>7. ASSUME NEW k \in C, NEW j \in C
      PROVE  Before(<<rank(k), k[3]>>, <<rank(j), j[3]>>) <=> Beats(s, k, j)
  <2>1. rank(k) \in Nat /\ rank(j) \in Nat /\ k[3] \in Nat /\ j[3] \in Nat
    BY TrustRanks DEF Contends
  <2> QED BY <2>1, BeforePair DEF Beats
<1> DEFINE Wins(k) == /\ k \in DOMAIN groups
                      /\ <<k[1], k[2]>> = slot
                      /\ \A j \in DOMAIN groups \ {k} :
                            <<j[1], j[2]>> = slot => Before(<<rank(k), k[3]>>, <<rank(j), j[3]>>)
<1>8. Wins(w)
  BY <1>5, <1>6, <1>7 DEF Contends
<1>9. Wins(Winner(groups, s, slot))
  BY <1>8 DEF Winner
<1>10. \A k : Wins(k) => k \in C /\ \A j \in C \ {k} : Beats(s, k, j)
  BY <1>7 DEF Contends
<1> HIDE DEF Wins
<1> QED BY <1>9, <1>10

-----------------------------------------------------------------------------
(* Sorting.                                                                *)

LEMMA SortedElements ==
  ASSUME NEW S \in SUBSET Nat, IsFiniteSet(S)
  PROVE  /\ IsSeq(Sorted(S)) /\ ToSet(Sorted(S)) \subseteq S
         /\ Cardinality(S) \in Nat /\ DOMAIN Sorted(S) = 1..Cardinality(S)
<1> DEFINE R == {p \in S \X S : p[1] < p[2]}
           n == Cardinality(S)
           at(k) == CHOOSE x \in S : Cardinality({y \in S : y < x}) = k - 1
<1>1. \A x, y \in S : <<x, y>> \in R <=> x < y
  OBVIOUS
<1>2. n \in Nat /\ \A k \in 1..n : \E x \in S : Cardinality({y \in S : <<y, x>> \in R}) = k - 1
  <2> HIDE DEF R
  <2>1. /\ \A x \in S : <<x, x>> \notin R
        /\ \A x, y, z \in S : <<x, y>> \in R /\ <<y, z>> \in R => <<x, z>> \in R
        /\ \A x, y \in S : x # y => <<x, y>> \in R \/ <<y, x>> \in R
    BY <1>1
  <2> QED BY <2>1, RankingBy
<1>3. \A k \in 1..n : at(k) \in S
  <2>1. \A x \in S : {y \in S : <<y, x>> \in R} = {y \in S : y < x}
    BY <1>1
  <2> HIDE DEF R
  <2> QED BY <1>2, <2>1
<1>4. Sorted(S) = [k \in 1..n |-> at(k)]
  BY DEF Sorted, Arranged
<1> HIDE DEF at, n
<1>5. IsSeq(Sorted(S)) /\ DOMAIN Sorted(S) = 1..n
  BY <1>2, <1>4, TableIsSeq
<1>6. ToSet(Sorted(S)) \subseteq S
  BY <1>3, <1>4 DEF ToSet
<1> QED BY <1>2, <1>5, <1>6 DEF n

\* The lexicographic order, the order of the elements given as a set of pairs.
Lex(R, x, y) ==
    \E i \in DOMAIN y : /\ \A j \in 1..(i - 1) : j \in DOMAIN x /\ x[j] = y[j]
                        /\ i \notin DOMAIN x \/ <<x[i], y[i]>> \in R

LEMMA LexIsStrict ==
  ASSUME NEW S, NEW R,
         \A u \in S : <<u, u>> \notin R,
         \A u, v, w \in S : <<u, v>> \in R /\ <<v, w>> \in R => <<u, w>> \in R,
         NEW x \in Seq(S), NEW y \in Seq(S), NEW z \in Seq(S)
  PROVE  /\ ~Lex(R, x, x)
         /\ Lex(R, x, y) /\ Lex(R, y, z) => Lex(R, x, z)
<1>1. /\ Len(x) \in Nat /\ DOMAIN x = 1..Len(x) /\ \A i \in DOMAIN x : x[i] \in S
      /\ Len(y) \in Nat /\ DOMAIN y = 1..Len(y) /\ \A i \in DOMAIN y : y[i] \in S
      /\ Len(z) \in Nat /\ DOMAIN z = 1..Len(z) /\ \A i \in DOMAIN z : z[i] \in S
  BY LenProperties, ElementOfSeq
<1>2. ~Lex(R, x, x)
  BY <1>1 DEF Lex
<1>3. ASSUME Lex(R, x, y), Lex(R, y, z) PROVE Lex(R, x, z)
  <2>1. PICK i \in DOMAIN y : /\ \A j \in 1..(i - 1) : j \in DOMAIN x /\ x[j] = y[j]
                              /\ i \notin DOMAIN x \/ <<x[i], y[i]>> \in R
    BY <1>3 DEF Lex
  <2>2. PICK k \in DOMAIN z : /\ \A j \in 1..(k - 1) : j \in DOMAIN y /\ y[j] = z[j]
                              /\ k \notin DOMAIN y \/ <<y[k], z[k]>> \in R
    BY <1>3 DEF Lex
  <2>3. i \in Nat \ {0} /\ k \in Nat \ {0}
    BY <1>1
  <2>4. CASE i < k
    <3>1. i \in DOMAIN z /\ y[i] = z[i] /\ \A j \in 1..(i - 1) : j \in 1..(k - 1)
      <4>1. i \in 1..(k - 1)
        BY <2>3, <2>4
      <4>2. k \in 1..Len(z) /\ Len(z) \in Nat
        BY <1>1
      <4>3. i \in 1..Len(z)
        BY <2>3, <2>4, <4>2
      <4>4. \A j \in 1..(i - 1) : j \in 1..(k - 1)
        BY <2>3, <2>4
      <4> QED BY <1>1, <2>2, <4>1, <4>3, <4>4
    <3>2. \A j \in 1..(i - 1) : j \in DOMAIN x /\ x[j] = z[j]
      BY <2>1, <2>2, <3>1
    <3> QED BY <2>1, <3>1, <3>2 DEF Lex
  <2>5. CASE i = k
    <3>1. \A j \in 1..(i - 1) : j \in DOMAIN x /\ x[j] = z[j]
      BY <2>1, <2>2, <2>5
    <3>2. i \in DOMAIN x => <<x[i], z[i]>> \in R
      BY <1>1, <2>1, <2>2, <2>5
    <3> QED BY <2>2, <2>5, <3>1, <3>2 DEF Lex
  <2>6. CASE k < i
    <3>1. k \in DOMAIN x /\ x[k] = y[k] /\ k \in DOMAIN y /\ \A j \in 1..(k - 1) : j \in 1..(i - 1)
      BY <1>1, <2>1, <2>3, <2>6
    <3>2. \A j \in 1..(k - 1) : j \in DOMAIN x /\ x[j] = z[j]
      BY <2>1, <2>2, <3>1
    <3> QED BY <2>2, <3>1, <3>2 DEF Lex
  <2> QED BY <2>3, <2>4, <2>5, <2>6
<1> QED BY <1>2, <1>3

LEMMA LexIsTotal ==
  ASSUME NEW S, NEW R, \A u, v \in S : u # v => <<u, v>> \in R \/ <<v, u>> \in R,
         NEW x \in Seq(S), NEW y \in Seq(S), x # y
  PROVE  Lex(R, x, y) \/ Lex(R, y, x)
<1>1. /\ Len(x) \in Nat /\ DOMAIN x = 1..Len(x) /\ \A i \in DOMAIN x : x[i] \in S
      /\ Len(y) \in Nat /\ DOMAIN y = 1..Len(y) /\ \A i \in DOMAIN y : y[i] \in S
  BY LenProperties, ElementOfSeq
<1> DEFINE D == {i \in Nat : i \in DOMAIN x /\ i \in DOMAIN y /\ x[i] # y[i]}
<1>2. CASE D # {}
  <2>1. PICK i \in D : \A j \in D : i <= j
    BY <1>2, LeastExists
  <2>2. \A j \in 1..(i - 1) : j \in DOMAIN x /\ j \in DOMAIN y /\ x[j] = y[j]
    <3> TAKE j \in 1..(i - 1)
    <3>1. j \in Nat /\ ~(i <= j) /\ j \in DOMAIN x /\ j \in DOMAIN y
      BY <1>1, <2>1
    <3> QED BY <2>1, <3>1
  <2>3. <<x[i], y[i]>> \in R \/ <<y[i], x[i]>> \in R
    BY <1>1, <2>1
  <2> QED BY <2>1, <2>2, <2>3 DEF Lex
<1>3. CASE D = {}
  <2>1. \A i \in DOMAIN x : i \in DOMAIN y => x[i] = y[i]
    BY <1>1, <1>3
  <2>2. CASE Len(x) = Len(y)
    BY <1>1, <2>1, <2>2, SeqEqual
  <2>3. CASE Len(x) < Len(y)
    <3>1. Len(x) + 1 \in DOMAIN y /\ Len(x) + 1 \notin DOMAIN x /\ (Len(x) + 1) - 1 = Len(x)
      BY <1>1, <2>3
    <3>2. \A j \in 1..Len(x) : j \in DOMAIN x /\ x[j] = y[j]
      <4>1. \A j \in 1..Len(x) : j \in 1..Len(y)
        BY <1>1, <2>3
      <4> QED BY <1>1, <2>1, <4>1
    <3> QED BY <3>1, <3>2 DEF Lex
  <2>4. CASE Len(y) < Len(x)
    <3>1. Len(y) + 1 \in DOMAIN x /\ Len(y) + 1 \notin DOMAIN y /\ (Len(y) + 1) - 1 = Len(y)
      BY <1>1, <2>4
    <3>2. \A j \in 1..Len(y) : j \in DOMAIN y /\ y[j] = x[j]
      <4>1. \A j \in 1..Len(y) : j \in 1..Len(x)
        BY <1>1, <2>4
      <4> QED BY <1>1, <2>1, <4>1
    <3> QED BY <3>1, <3>2 DEF Lex
  <2>5. Len(x) = Len(y) \/ Len(x) < Len(y) \/ Len(y) < Len(x)
    <3>1. Len(x) \in Nat /\ Len(y) \in Nat
      BY <1>1
    <3> QED BY <3>1
  <2> QED BY <2>2, <2>3, <2>4, <2>5
<1> QED BY <1>2, <1>3

LEMMA BeforeIsStrict ==
  ASSUME NEW x \in Seq(Nat), NEW y \in Seq(Nat), NEW z \in Seq(Nat)
  PROVE  /\ ~Before(x, x)
         /\ Before(x, y) /\ Before(y, z) => Before(x, z)
         /\ x # y => Before(x, y) \/ Before(y, x)
<1> DEFINE R == {p \in Nat \X Nat : p[1] < p[2]}
<1>1. \A a, b \in Nat : <<a, b>> \in R <=> a < b
  OBVIOUS
<1>2. ASSUME NEW s \in Seq(Nat), NEW t \in Seq(Nat) PROVE Before(s, t) <=> Lex(R, s, t)
  <2>1. \A i \in DOMAIN s : s[i] \in Nat
    BY LenProperties, ElementOfSeq
  <2>2. \A i \in DOMAIN t : t[i] \in Nat
    BY LenProperties, ElementOfSeq
  <2> HIDE DEF R
  <2> QED BY <1>1, <2>1, <2>2 DEF Before, Lexicographic, Lex
<1> HIDE DEF R
<1>3. /\ \A u \in Nat : <<u, u>> \notin R
      /\ \A u, v, w \in Nat : <<u, v>> \in R /\ <<v, w>> \in R => <<u, w>> \in R
      /\ \A u, v \in Nat : u # v => <<u, v>> \in R \/ <<v, u>> \in R
  BY <1>1
<1>4. ~Lex(R, x, x) /\ (Lex(R, x, y) /\ Lex(R, y, z) => Lex(R, x, z))
  BY <1>3, LexIsStrict
<1>5. x # y => Lex(R, x, y) \/ Lex(R, y, x)
  BY <1>3, LexIsTotal
<1> QED BY <1>2, <1>4, <1>5

LEMMA IndexTyped ==
  ASSUME NEW s, DOMAIN s \subseteq Nat, NEW x \in ToSet(s)
  PROVE  IndexIn(s, x) \in Nat
<1>1. \E i \in DOMAIN s : s[i] = x
  BY DEF ToSet
<1> QED BY <1>1 DEF IndexIn

\* The fields a group is sorted by.
Sortable(r) ==
    /\ {r.raw, r.body} \subseteq Nat
    /\ IsSeq(r.path) /\ ToSet(r.path) \subseteq ToSet(Words)
    /\ r.resp \in [status : Nat, ctype : ToSet(MediaTypes), body : Nat]

LEMMA EndpointOrderTyped ==
  ASSUME NEW r, Sortable(r)
  PROVE  EndpointOrder(r) \in Seq(Nat)
<1> DEFINE p == [i \in DOMAIN r.path |-> IndexIn(Words, r.path[i])]
           q == <<r.raw, r.body>>
           k == ResponseKey(r.resp)
<1>1. p \in Seq(Nat)
  <2>1. Len(r.path) \in Nat /\ DOMAIN r.path = 1..Len(r.path)
    BY LenProperties DEF Sortable, IsSeq
  <2>2. \A i \in DOMAIN r.path : r.path[i] \in ToSet(Words)
    BY DEF Sortable, ToSet
  <2>3. \A i \in DOMAIN r.path : IndexIn(Words, r.path[i]) \in Nat
    <3>1. DOMAIN Words \subseteq Nat
      <4>1. Len(Words) \in Nat /\ DOMAIN Words = 1..Len(Words)
        BY NormalizeConstants, LenProperties
      <4> QED BY <4>1
    <3> QED BY <2>2, <3>1, IndexTyped
  <2>4. p \in [1..Len(r.path) -> Nat]
    BY <2>1, <2>3
  <2> HIDE DEF p
  <2> QED BY <2>1, <2>4, SeqDef
<1>2. q \in Seq(Nat)
  BY DEF Sortable
<1>3. k \in Seq(Nat)
  <2>1. DOMAIN MediaTypes \subseteq Nat
    BY DEF MediaTypes
  <2>2. IndexIn(MediaTypes, r.resp.ctype) \in Nat
    BY <2>1, IndexTyped DEF Sortable
  <2> QED BY <2>2 DEF Sortable, ResponseKey
<1>4. EndpointOrder(r) = (p \o q) \o k
  BY DEF EndpointOrder
<1> HIDE DEF p, q, k
<1>5. p \o q \in Seq(Nat)
  BY <1>1, <1>2, ConcatProperties
<1> QED BY <1>3, <1>4, <1>5, ConcatProperties

LEMMA InOrderElements ==
  ASSUME NEW g, IsSeq(g), \A r \in ToSet(g) : Sortable(r)
  PROVE  DOMAIN InOrder(g) = DOMAIN g /\ ToSet(InOrder(g)) \subseteq ToSet(g)
<1> DEFINE S == DOMAIN g
           o(i) == EndpointOrder(g[i])
           R == {p \in S \X S : Precedes(g, p[1], p[2])}
           at(k) == CHOOSE x \in S : Cardinality({y \in S : Precedes(g, y, x)}) = k - 1
           order == [k \in 1..Cardinality(S) |-> at(k)]
<1>1. Len(g) \in Nat /\ S = 1..Len(g) /\ \A i \in S : g[i] \in ToSet(g)
  BY LenProperties DEF IsSeq, ToSet
<1>2. \A i \in S : o(i) \in Seq(Nat)
  BY <1>1, EndpointOrderTyped
<1>3. \A i, j \in S : <<i, j>> \in R <=> Before(o(i), o(j)) \/ (o(i) = o(j) /\ i < j)
  BY DEF Precedes
<1>4. Cardinality(S) = Len(g) /\ \A k \in 1..Len(g) : at(k) \in S
  <2>1. IsFiniteSet(S) /\ Cardinality(S) = Len(g)
    <3>1. 1 \in Int /\ Len(g) \in Int /\ (IF 1 > Len(g) THEN 0 ELSE Len(g) - 1 + 1) = Len(g)
      BY <1>1
    <3> HIDE DEF S
    <3> QED BY <1>1, <3>1, FS_Interval
  <2>2. \A i \in S : <<i, i>> \notin R
    <3> HIDE DEF R, o
    <3> QED BY <1>1, <1>2, <1>3, BeforeIsStrict
  <2>3. ASSUME NEW i \in S, NEW j \in S, NEW k \in S, <<i, j>> \in R, <<j, k>> \in R
        PROVE  <<i, k>> \in R
    <3> HIDE DEF R, o
    <3>1. o(i) \in Seq(Nat) /\ o(j) \in Seq(Nat) /\ o(k) \in Seq(Nat)
      BY <1>2
    <3>2. Before(o(i), o(j)) /\ Before(o(j), o(k)) => Before(o(i), o(k))
      BY <3>1, BeforeIsStrict
    <3>3. i < j /\ j < k => i < k
      BY <1>1
    <3> QED BY <1>3, <2>3, <3>2, <3>3
  <2>4. ASSUME NEW i \in S, NEW j \in S, i # j
        PROVE  <<i, j>> \in R \/ <<j, i>> \in R
    <3> HIDE DEF R, o
    <3>1. o(i) \in Seq(Nat) /\ o(j) \in Seq(Nat)
      BY <1>2
    <3>2. o(i) # o(j) => Before(o(i), o(j)) \/ Before(o(j), o(i))
      BY <3>1, BeforeIsStrict
    <3>3. i < j \/ j < i
      BY <1>1, <2>4
    <3> QED BY <1>3, <3>2, <3>3
  <2>5. \A k \in 1..Cardinality(S) : \E x \in S : Cardinality({y \in S : <<y, x>> \in R}) = k - 1
    <3> HIDE DEF R, S
    <3> QED BY <2>1, <2>2, <2>3, <2>4, RankingBy
  <2>6. \A x \in S : {y \in S : <<y, x>> \in R} = {y \in S : Precedes(g, y, x)}
    OBVIOUS
  <2> HIDE DEF R
  <2> QED BY <2>1, <2>5, <2>6
<1>5. InOrder(g) = [n \in DOMAIN g |-> g[order[n]]]
  BY DEF InOrder, Arranged, Tabled
<1>6. \A n \in DOMAIN g : order[n] \in S
  <2> HIDE DEF at, S
  <2> QED BY <1>1, <1>4 DEF S
<1> HIDE DEF order, at
<1>7. DOMAIN InOrder(g) = DOMAIN g /\ \A n \in DOMAIN g : InOrder(g)[n] \in ToSet(g)
  BY <1>1, <1>5, <1>6
<1> QED BY <1>7 DEF ToSet

-----------------------------------------------------------------------------
(* The document of a state.                                                *)

Groups == groupEndpoints(entries, Options)
Target == ResolveTargetOrigin(job.opts, requests)
Trust == extractServers(entries, Target)
Operations == resolveCollisions(Groups, Trust, Static(entries) # {})

LEMMA DocumentIs ==
  ASSUME ScanInv, Generated
  PROVE  /\ Traffic(requests) /\ entries = Endpoints("rest", requests)
         /\ \/ entries = <<>> /\ document = NoDocument
            \/ /\ entries # <<>> /\ document.operations = Operations
               /\ document.servers = Trust.servers /\ document.title = Trust.primary
               /\ document.schemas = extractComponents(Operations).schemas
               /\ document.refs = extractComponents(Operations).refs
<1>1. taken /\ entries = Endpoints("rest", requests) /\ document = Specification(requests)
  BY DEF ScanInv, Generated
<1>2. document = Generate(entries, Target, Options)
  BY <1>1 DEF Specification, Target, Options
<1> QED BY <1>1, <1>2 DEF ScanInv, Generate, Groups, Trust, Operations

\* What is known of every entry.
LEMMA EntriesTyped ==
  ASSUME ScanInv, Generated
  PROVE  /\ IsSeq(entries)
         /\ \A k \in DOMAIN entries :
               /\ IsEntry(entries[k]) /\ Sortable(entries[k]) /\ entries[k].origin \in Nat
               /\ DOMAIN entries[k] = EntryFields
         /\ \A i \in Kept : \E k \in DOMAIN entries : DedupKey(entries[k]) = DedupKey(requests[i])
<1>1. Traffic(requests) /\ entries = Endpoints("rest", requests)
  BY DocumentIs
<1>2. /\ IsSeq(entries)
      /\ \A k \in DOMAIN entries : DOMAIN entries[k] = EntryFields /\ IsEntry(entries[k])
      /\ \A i \in Kept : \E k \in DOMAIN entries : DedupKey(entries[k]) = DedupKey(requests[i])
  BY <1>1, EntriesAreEndpoints
<1>3. ASSUME NEW e, IsEntry(e) PROVE Sortable(e) /\ e.origin \in Nat
  <2>1. PICK i \in Kept : Alike(e, requests[i]) /\ \E j \in OneWith(i) : e.resp = requests[j].resp
    BY <1>3 DEF IsEntry
  <2>2. i \in DOMAIN requests /\ OneWith(i) \subseteq DOMAIN requests
    BY <2>1 DEF Kept, OneWith, Likes
  <2>3. PICK j \in DOMAIN requests : e.resp = requests[j].resp
    BY <2>1, <2>2
  <2>4. IsRequest(requests[i]) /\ IsRequest(requests[j])
    BY <1>1, <2>2, <2>3 DEF Traffic
  <2>5. /\ e.raw = requests[i].raw /\ e.body = requests[i].body /\ e.path = requests[i].path
        /\ e.origin = requests[i].origin
    BY <2>1 DEF Alike, FirstFields, RequestFields
  <2> QED BY <2>3, <2>4, <2>5 DEF IsRequest, Sortable
<1> QED BY <1>2, <1>3

LEMMA GroupsTyped ==
  ASSUME ScanInv, Generated
  PROVE  /\ DOMAIN Groups = {KeyOf(entries, i) : i \in Web(entries)} /\ IsFiniteSet(DOMAIN Groups)
         /\ \A k \in DOMAIN Groups :
               /\ k = <<k[1], k[2], k[3]>> /\ k[3] \in Nat
               /\ IsSeq(Groups[k]) /\ Groups[k] # <<>>
               /\ \A r \in ToSet(Groups[k]) :
                     Sortable(r) /\ \E i \in Web(entries) : r = entries[i] /\ KeyOf(entries, i) = k
<1>1. /\ IsSeq(entries)
      /\ \A k \in DOMAIN entries : Sortable(entries[k]) /\ entries[k].origin \in Nat
      /\ Web(entries) \subseteq DOMAIN entries
  BY EntriesTyped DEF Web
<1>2. /\ DOMAIN Groups = {KeyOf(entries, i) : i \in Web(entries)} /\ IsFiniteSet(DOMAIN Groups)
      /\ \A k \in DOMAIN Groups :
            /\ IsSeq(Groups[k]) /\ Groups[k] # <<>>
            /\ \A r \in ToSet(Groups[k]) : \E i \in Web(entries) : r = entries[i] /\ KeyOf(entries, i) = k
  BY <1>1, GroupsPartition DEF Groups
<1>3. ASSUME NEW i \in Web(entries)
      PROVE  LET k == KeyOf(entries, i) IN k = <<k[1], k[2], k[3]>> /\ k[3] \in Nat
  BY <1>1 DEF KeyOf
<1>4. ASSUME NEW k \in DOMAIN Groups PROVE k = <<k[1], k[2], k[3]>> /\ k[3] \in Nat
  <2>1. PICK i \in Web(entries) : k = KeyOf(entries, i)
    BY <1>2
  <2> QED BY <1>3, <2>1
<1>5. ASSUME NEW k \in DOMAIN Groups, NEW r \in ToSet(Groups[k]) PROVE Sortable(r)
  <2>1. \E i \in Web(entries) : r = entries[i]
    BY <1>2
  <2> QED BY <1>1, <2>1
<1> QED BY <1>2, <1>4, <1>5

LEMMA OperationFields ==
  ASSUME NEW slot \in DOMAIN Operations
  PROVE  LET op == Operations[slot]
             w == Winner(Groups, Trust, slot)
         IN  /\ op.origin = w[3]
             /\ op.servers = IF w[3] \in Trust.excluded THEN {w[3]} ELSE {}
             /\ op.responses = Responses(InOrder(Groups[w]))
             /\ op.collisions = Displaced(Groups, Trust, slot)
             /\ slot[2] \in ToSet(Methods) /\ Contends(Groups, slot) # {}
<1> DEFINE w == Winner(Groups, Trust, slot)
           op == Operations[slot]
<1>1. /\ slot \in {<<k[1], k[2]>> : k \in DOMAIN Groups} /\ slot[2] \in ToSet(Methods)
      /\ op = [buildOperation(w, Groups[w], Trust, Static(entries) # {}) EXCEPT
                  !.collisions = recordCollisions(slot, DOMAIN Groups \ {w})]
  BY DEF Operations, resolveCollisions, Winner
<1>2. recordCollisions(slot, DOMAIN Groups \ {w}) = Displaced(Groups, Trust, slot)
  BY DEF recordCollisions, Contends, Displaced
<1> HIDE DEF w, op
<1>3. /\ op.origin = w[3]
      /\ op.servers = IF w[3] \in Trust.excluded THEN {w[3]} ELSE {}
      /\ op.responses = Responses(InOrder(Groups[w]))
      /\ op.collisions = recordCollisions(slot, DOMAIN Groups \ {w})
  BY <1>1 DEF buildOperation
<1>4. Contends(Groups, slot) # {}
  BY <1>1 DEF Contends
<1> QED BY <1>1, <1>2, <1>3, <1>4 DEF w, op

\* A slot has the statuses of entries of the group that took it.
LEMMA SlotsTyped ==
  ASSUME ScanInv, Generated, NEW slot \in DOMAIN Operations
  PROVE  LET op == Operations[slot]
             w == Winner(Groups, Trust, slot)
         IN  /\ w \in Contends(Groups, slot)
             /\ \A j \in Contends(Groups, slot) \ {w} : Beats(Trust, w, j)
             /\ op.origin = w[3] /\ op.collisions = Displaced(Groups, Trust, slot)
             /\ op.servers = IF w[3] \in Trust.excluded THEN {w[3]} ELSE {}
             /\ DOMAIN op.responses \subseteq {StatusOf(r) : r \in ToSet(Groups[w])}
             /\ IsFiniteSet(DOMAIN op.responses) /\ DOMAIN op.responses \in SUBSET Nat
<1> DEFINE op == Operations[slot]
           w == Winner(Groups, Trust, slot)
           g == Groups[w]
<1>1. /\ op.origin = w[3] /\ op.servers = IF w[3] \in Trust.excluded THEN {w[3]} ELSE {}
      /\ op.responses = Responses(InOrder(g))
      /\ op.collisions = Displaced(Groups, Trust, slot)
      /\ Contends(Groups, slot) # {}
  BY OperationFields
<1>2. w \in Contends(Groups, slot) /\ \A j \in Contends(Groups, slot) \ {w} : Beats(Trust, w, j)
  BY <1>1, GroupsTyped, WinnerBeatsAll
<1>3. w \in DOMAIN Groups
  BY <1>2 DEF Contends
<1>4. IsSeq(g) /\ \A r \in ToSet(g) : Sortable(r)
  BY <1>3, GroupsTyped
<1> HIDE DEF g, w, op
<1>5. DOMAIN op.responses = {StatusOf(r) : r \in ToSet(InOrder(g))}
  BY <1>1 DEF Responses, Tabled
<1>6. DOMAIN InOrder(g) = DOMAIN g /\ ToSet(InOrder(g)) \subseteq ToSet(g)
  BY <1>4, InOrderElements
<1>7. \A r \in ToSet(g) : StatusOf(r) \in Nat
  BY <1>4 DEF Sortable, StatusOf
<1>8. IsFiniteSet(DOMAIN op.responses)
  <2> DEFINE f == [n \in DOMAIN g |-> StatusOf(InOrder(g)[n])]
             D == DOMAIN op.responses
  <2>1. IsFiniteSet(DOMAIN g)
    BY <1>4, SeqFinite
  <2>2. f \in Surjection(DOMAIN g, D)
    BY <1>5, <1>6 DEF Surjection, ToSet
  <2> HIDE DEF f, D
  <2>3. IsFiniteSet(D)
    BY <2>1, <2>2, FS_Surjection
  <2> QED BY <2>3 DEF D
<1> QED BY <1>1, <1>2, <1>5, <1>6, <1>7, <1>8 DEF op, w, g

LEMMA OperationsFinite ==
  ASSUME ScanInv, Generated
  PROVE  IsFiniteSet(DOMAIN Operations)
<1> DEFINE slots == {<<k[1], k[2]>> : k \in DOMAIN Groups}
           f == [k \in DOMAIN Groups |-> <<k[1], k[2]>>]
<1>1. IsFiniteSet(DOMAIN Groups)
  BY GroupsTyped
<1>2. f \in Surjection(DOMAIN Groups, slots)
  BY DEF Surjection
<1>3. DOMAIN Operations \in SUBSET slots
  BY DEF Operations, resolveCollisions
<1> HIDE DEF slots, f
<1> QED BY <1>1, <1>2, <1>3, FS_Surjection, FS_Subset

-----------------------------------------------------------------------------
(* The components of a document.                                           *)

FirstComponents == [counted |-> <<>>, named |-> {}, schemas |-> <<>>, refs |-> <<>>]

Components == INSTANCE SequenceLemmas WITH FoldStep <- Extract, FoldBase <- FirstComponents

InlineAt(at) ==
    LET op == Operations[at[1]]
    IN  IF at[2] = "request" THEN op.bodies[at[3]] ELSE op.responses[at[3]]

IsBase(b) == \E x, y, z : b = <<x, y, z>>

IsPlace(p) == p.schema = InlineAt(p.at) /\ IsBase(p.base)

\* The names given to a base are numbered up to its count, so that the next
\* number is free; what is known of a component is so of its schema.
Sound(acc) ==
    /\ DOMAIN acc = {"counted", "named", "schemas", "refs"}
    /\ \A b \in DOMAIN acc.counted : acc.counted[b] \in Nat /\ IsBase(b)
    /\ \A n \in DOMAIN acc.schemas :
          \E b \in DOMAIN acc.counted : \E k \in 1..acc.counted[b] : n = b \o <<k>>
    /\ \A n \in acc.named :
          n[2] \in DOMAIN acc.schemas /\ Fingerprint(acc.schemas[n[2]]) = n[1][2]
    /\ \A at \in DOMAIN acc.refs :
          /\ acc.refs[at] \in DOMAIN acc.schemas
          /\ Fingerprint(acc.schemas[acc.refs[at]]) = Fingerprint(InlineAt(at))

LEMMA NameParts ==
  ASSUME NEW b, IsBase(b), NEW k
  PROVE  /\ b = <<(b \o <<k>>)[1], (b \o <<k>>)[2], (b \o <<k>>)[3]>>
         /\ (b \o <<k>>)[4] = k
<1>1. PICK x, y, z : b = <<x, y, z>>
  BY DEF IsBase
<1>2. (<<x, y, z>> \o <<k>>)[1] = x
  OBVIOUS
<1>3. (<<x, y, z>> \o <<k>>)[2] = y
  OBVIOUS
<1>4. (<<x, y, z>> \o <<k>>)[3] = z
  OBVIOUS
<1>5. (<<x, y, z>> \o <<k>>)[4] = k
  OBVIOUS
<1> QED BY <1>1, <1>2, <1>3, <1>4, <1>5

LEMMA ExtractIsSound ==
  ASSUME NEW acc, Sound(acc), NEW place, IsPlace(place)
  PROVE  Sound(Extract(acc, place))
<1> DEFINE print == <<place.kind, Fingerprint(place.schema)>>
           base == place.base
           k == 1 + (IF base \in DOMAIN acc.counted THEN acc.counted[base] ELSE 0)
           name == base \o <<k>>
           next == Extract(acc, place)
           known == CHOOSE n \in acc.named : n[1] = print
           new == [counted |-> With(acc.counted, base, name[4]),
                   named   |-> acc.named \cup {<<print, name>>},
                   schemas |-> With(acc.schemas, name, place.schema),
                   refs    |-> With(acc.refs, place.at, name)]
<1>1. \/ next = acc
      \/ /\ \E n \in acc.named : n[1] = print
         /\ next = [acc EXCEPT !.refs = With(@, place.at, known[2])]
      \/ next = new
  BY DEF Extract, uniqueName
<1>2. CASE next = acc
  BY <1>2
<1>3. ASSUME \E n \in acc.named : n[1] = print,
             next = [acc EXCEPT !.refs = With(@, place.at, known[2])]
      PROVE  Sound(next)
  <2>1. known \in acc.named /\ known[1] = print
    BY <1>3
  <2>2. print[2] = Fingerprint(InlineAt(place.at))
    BY DEF IsPlace
  <2> HIDE DEF known, print
  <2>3. known[2] \in DOMAIN acc.schemas
        /\ Fingerprint(acc.schemas[known[2]]) = Fingerprint(InlineAt(place.at))
    BY <2>1, <2>2 DEF Sound
  <2>4. /\ DOMAIN next = {"counted", "named", "schemas", "refs"}
        /\ next.counted = acc.counted /\ next.named = acc.named /\ next.schemas = acc.schemas
        /\ next.refs = With(acc.refs, place.at, known[2])
    BY <1>3 DEF Sound
  <2> HIDE DEF next
  <2>5. ASSUME NEW at \in DOMAIN next.refs
        PROVE  /\ next.refs[at] \in DOMAIN next.schemas
               /\ Fingerprint(next.schemas[next.refs[at]]) = Fingerprint(InlineAt(at))
    <3>1. CASE at = place.at
      BY <2>3, <2>4, <3>1 DEF With
    <3>2. CASE at # place.at
      <4>1. at \in DOMAIN acc.refs /\ next.refs[at] = acc.refs[at]
        BY <2>4, <3>2 DEF With
      <4> QED BY <2>4, <4>1 DEF Sound
    <3> QED BY <3>1, <3>2
  <2> QED BY <2>4, <2>5 DEF Sound
<1>4. ASSUME next = new PROVE Sound(next)
  <2>1. IsBase(base) /\ k \in Nat \ {0} /\ (base \in DOMAIN acc.counted => acc.counted[base] = k - 1)
    BY DEF IsPlace, Sound
  <2> HIDE DEF k
  <2>2. name[4] = k /\ base = <<name[1], name[2], name[3]>>
    BY <2>1, NameParts
  <2>3. name = base \o <<k>> /\ print[2] = Fingerprint(place.schema)
    OBVIOUS
  <2>4. place.schema = InlineAt(place.at)
    BY DEF IsPlace
  <2> HIDE DEF name, base, print
  <2>5. name \notin DOMAIN acc.schemas
    <3> SUFFICES ASSUME name \in DOMAIN acc.schemas PROVE FALSE
      OBVIOUS
    <3>1. PICK b \in DOMAIN acc.counted : \E j \in 1..acc.counted[b] : name = b \o <<j>>
      BY DEF Sound
    <3>2. PICK j \in 1..acc.counted[b] : name = b \o <<j>>
      BY <3>1
    <3>3. IsBase(b) /\ acc.counted[b] \in Nat
      BY DEF Sound
    <3>4. j = name[4] /\ b = <<name[1], name[2], name[3]>>
      BY <3>2, <3>3, NameParts
    <3>5. j = k /\ b = base
      BY <2>2, <3>4
    <3> QED BY <2>1, <3>2, <3>3, <3>5
  <2>6. /\ DOMAIN next = {"counted", "named", "schemas", "refs"}
        /\ next.counted = With(acc.counted, base, k)
        /\ next.named = acc.named \cup {<<print, name>>}
        /\ next.schemas = With(acc.schemas, name, place.schema)
        /\ next.refs = With(acc.refs, place.at, name)
    <3> HIDE DEF next
    <3> QED BY <1>4, <2>2
  <2> HIDE DEF next, new
  <2>7. /\ DOMAIN next.counted = DOMAIN acc.counted \cup {base} /\ next.counted[base] = k
        /\ \A b \in DOMAIN acc.counted : b # base => next.counted[b] = acc.counted[b]
    BY <2>6 DEF With
  <2>8. /\ DOMAIN next.schemas = DOMAIN acc.schemas \cup {name} /\ next.schemas[name] = place.schema
        /\ \A n \in DOMAIN acc.schemas : n # name /\ next.schemas[n] = acc.schemas[n]
    BY <2>5, <2>6 DEF With
  <2>9. ASSUME NEW b \in DOMAIN next.counted PROVE next.counted[b] \in Nat /\ IsBase(b)
    BY <2>1, <2>7 DEF Sound
  <2>10. ASSUME NEW n \in DOMAIN next.schemas
         PROVE  \E b \in DOMAIN next.counted : \E j \in 1..next.counted[b] : n = b \o <<j>>
    <3>1. CASE n = name
      <4>1. base \in DOMAIN next.counted /\ k \in 1..next.counted[base]
        BY <2>1, <2>7
      <4> QED BY <2>3, <3>1, <4>1
    <3>2. CASE n # name
      <4>1. n \in DOMAIN acc.schemas
        BY <2>8, <3>2
      <4>2. PICK b \in DOMAIN acc.counted : \E j \in 1..acc.counted[b] : n = b \o <<j>>
        BY <4>1 DEF Sound
      <4>3. PICK j \in 1..acc.counted[b] : n = b \o <<j>>
        BY <4>2
      <4>4. b \in DOMAIN next.counted /\ j \in 1..next.counted[b]
        BY <2>1, <2>7, <4>3
      <4> QED BY <4>3, <4>4
    <3> QED BY <3>1, <3>2
  <2>11. ASSUME NEW n \in next.named
         PROVE  n[2] \in DOMAIN next.schemas /\ Fingerprint(next.schemas[n[2]]) = n[1][2]
    <3>1. CASE n \in acc.named
      BY <2>8, <3>1 DEF Sound
    <3>2. CASE n = <<print, name>>
      BY <2>3, <2>8, <3>2
    <3> QED BY <2>6, <3>1, <3>2
  <2>12. ASSUME NEW at \in DOMAIN next.refs
         PROVE  /\ next.refs[at] \in DOMAIN next.schemas
                /\ Fingerprint(next.schemas[next.refs[at]]) = Fingerprint(InlineAt(at))
    <3>1. CASE at = place.at
      <4>1. next.refs[at] = name
        BY <2>6, <3>1 DEF With
      <4> QED BY <2>4, <2>8, <3>1, <4>1
    <3>2. CASE at # place.at
      <4>1. at \in DOMAIN acc.refs /\ next.refs[at] = acc.refs[at]
        BY <2>6, <3>2 DEF With
      <4> QED BY <2>8, <4>1 DEF Sound
    <3> QED BY <3>1, <3>2
  <2> QED BY <2>6, <2>9, <2>10, <2>11, <2>12 DEF Sound
<1> QED BY <1>1, <1>2, <1>3, <1>4

-----------------------------------------------------------------------------
(* The order of the slots.                                                 *)

KindSuffixes == <<"Id", "Slug", "Token">>

\* What a segment of a template is.
Segments == {<<w>> : w \in ToSet(Words)}
            \cup {<<"{", p[1], p[2], p[3]>> : p \in ToSet(Words) \X ToSet(KindSuffixes) \X Nat}

LEMMA SegmentForms ==
  /\ \A w \in ToSet(Words) : <<w>> \in Segments
  /\ \A x \in ToSet(Words), y \in ToSet(KindSuffixes), n \in Nat : <<"{", x, y, n>> \in Segments
<1>1. ASSUME NEW x \in ToSet(Words), NEW y \in ToSet(KindSuffixes), NEW n \in Nat
      PROVE  <<"{", x, y, n>> \in Segments
  <2> DEFINE p == <<x, y, n>>
  <2>1. p \in ToSet(Words) \X ToSet(KindSuffixes) \X Nat /\ p[1] = x /\ p[2] = y /\ p[3] = n
    OBVIOUS
  <2> HIDE DEF p
  <2>2. <<"{", p[1], p[2], p[3]>> \in Segments
    BY <2>1 DEF Segments
  <2> QED BY <2>1, <2>2
<1> QED BY <1>1 DEF Segments

LEMMA GreatestExists ==
  ASSUME NEW n \in Nat, NEW T \in SUBSET (1..n), T # {}
  PROVE  \E x \in T : \A y \in T : y <= x
<1> DEFINE U == {n - x : x \in T}
<1>1. U \in SUBSET Nat /\ U # {}
  <2>1. \A x \in T : x \in 1..n
    OBVIOUS
  <2>2. \A x \in T : n - x \in Nat
    BY <2>1
  <2> QED BY <2>2
<1>2. PICK u \in U : \A v \in U : u <= v
  <2> HIDE DEF U
  <2> QED BY <1>1, LeastExists
<1>3. PICK x \in T : u = n - x
  BY <1>2
<1>4. \A y \in T : y <= x
  <2> TAKE y \in T
  <2>1. n - x <= n - y /\ x \in 1..n /\ y \in 1..n
    BY <1>2, <1>3
  <2> QED BY <2>1
<1> QED BY <1>4

LEMMA WordsIndexed ==
  ASSUME NEW x \in ToSet(Words)
  PROVE  IndexIn(Words, x) \in Nat /\ IndexIn(Words, x) \in DOMAIN Words /\ Words[IndexIn(Words, x)] = x
<1>1. Len(Words) \in Nat /\ DOMAIN Words = 1..Len(Words)
  BY NormalizeConstants, LenProperties
<1>2. \E i \in DOMAIN Words : Words[i] = x
  BY DEF ToSet
<1> QED BY <1>1, <1>2 DEF IndexIn

LEMMA SuffixesIndexed ==
  ASSUME NEW x \in ToSet(KindSuffixes)
  PROVE  IndexIn(KindSuffixes, x) \in Nat /\ IndexIn(KindSuffixes, x) \in DOMAIN KindSuffixes
         /\ KindSuffixes[IndexIn(KindSuffixes, x)] = x
<1>1. DOMAIN KindSuffixes \subseteq Nat
  BY DEF KindSuffixes
<1>2. \E i \in DOMAIN KindSuffixes : KindSuffixes[i] = x
  BY DEF ToSet
<1> QED BY <1>1, <1>2 DEF IndexIn

\* A path is rendered into a template, whatever the kinds of its segments.
LEMMA RenderedIsTemplate ==
  ASSUME NEW path, IsSeq(path), ToSet(path) \subseteq ToSet(Words), NEW kinds
  PROVE  Rendered(path, kinds) \in Seq(Segments)
<1> DEFINE N == {j \in DOMAIN path : kinds[j] # "literal"}
           name == [i \in N |-> contextualParamName(path, kinds, i)]
           nth(i) == Cardinality({j \in DOMAIN name : j <= i /\ name[j] = name[i]})
           seg(i) == IF i \in DOMAIN name THEN <<"{", name[i][1], name[i][2], nth(i)>> ELSE <<path[i]>>
<1>1. Len(path) \in Nat /\ DOMAIN path = 1..Len(path) /\ \A i \in DOMAIN path : path[i] \in ToSet(Words)
  BY LenProperties DEF IsSeq, ToSet
<1>2. ASSUME NEW i \in DOMAIN path PROVE nth(i) \in Nat
  <2>1. {j \in DOMAIN name : j <= i /\ name[j] = name[i]} \in SUBSET (DOMAIN path)
    OBVIOUS
  <2> HIDE DEF name
  <2> QED BY <2>1, SeqFinite
<1>3. ASSUME NEW i \in N
      PROVE  name[i][1] \in ToSet(Words) /\ name[i][2] \in ToSet(KindSuffixes)
  <2> DEFINE named == {j \in 1..(i - 1) : path[j] # "" /\ kinds[j] = "literal"}
             at == CHOOSE j \in named : \A k \in named : k <= j
             prev == IF named = {} THEN "" ELSE Singular[path[at]]
  <2>1. name[i] = <<prev, suffixForKind(kinds[i])>>
    BY DEF contextualParamName
  <2>2. prev \in ToSet(Words)
    <3>1. CASE named = {}
      BY <3>1, NormalizeConstants
    <3>2. CASE named # {}
      <4>1. i \in 1..Len(path) /\ i - 1 \in Nat /\ named \in SUBSET (1..(i - 1))
        <5>1. i \in DOMAIN path /\ named \in SUBSET (1..(i - 1))
          OBVIOUS
        <5>2. i \in 1..Len(path) /\ Len(path) \in Nat
          BY <1>1, <5>1
        <5> HIDE DEF named
        <5> QED BY <5>1, <5>2
      <4>2. \E j \in named : \A k \in named : k <= j
        <5> HIDE DEF named
        <5> QED BY <3>2, <4>1, GreatestExists
      <4>3. at \in named
        <5> HIDE DEF named
        <5> QED BY <4>2
      <4>4. at \in DOMAIN path
        <5> HIDE DEF named, at
        <5> QED BY <1>1, <4>1, <4>3
      <4>5. path[at] \in ToSet(Words)
        <5> HIDE DEF at
        <5> QED BY <1>1, <4>4
      <4> HIDE DEF at
      <4> QED BY <3>2, <4>5, NormalizeConstants
    <3> QED BY <3>1, <3>2
  <2>3. suffixForKind(kinds[i]) \in ToSet(KindSuffixes)
    <3>1. /\ 1 \in DOMAIN KindSuffixes /\ KindSuffixes[1] = "Id"
          /\ 2 \in DOMAIN KindSuffixes /\ KindSuffixes[2] = "Slug"
          /\ 3 \in DOMAIN KindSuffixes /\ KindSuffixes[3] = "Token"
      BY DEF KindSuffixes
    <3>2. {"Id", "Slug", "Token"} \subseteq ToSet(KindSuffixes)
      BY <3>1 DEF ToSet
    <3>3. suffixForKind(kinds[i]) \in {"Id", "Slug", "Token"}
      BY DEF suffixForKind
    <3> QED BY <3>2, <3>3
  <2> HIDE DEF name, prev
  <2> QED BY <2>1, <2>2, <2>3
<1>4. ASSUME NEW i \in DOMAIN path PROVE seg(i) \in Segments
  <2>1. DOMAIN name = N
    OBVIOUS
  <2> HIDE DEF name, nth, N
  <2>2. CASE i \in N
    <3>1. seg(i) = <<"{", name[i][1], name[i][2], nth(i)>>
      BY <2>1, <2>2
    <3> HIDE DEF seg
    <3> QED BY <1>2, <1>3, <2>2, <3>1, SegmentForms
  <2>3. CASE i \notin N
    <3>1. seg(i) = <<path[i]>>
      BY <2>1, <2>3
    <3> HIDE DEF seg
    <3> QED BY <1>1, <3>1, SegmentForms
  <2> QED BY <2>2, <2>3
<1>5. Rendered(path, kinds) = [i \in DOMAIN path |-> seg(i)]
  BY DEF Rendered
<1> HIDE DEF seg
<1>6. Rendered(path, kinds) \in [1..Len(path) -> Segments]
  BY <1>1, <1>4, <1>5
<1> QED BY <1>1, <1>6, SeqDef

LEMMA SegmentsOrdered ==
  ASSUME NEW s \in Segments
  PROVE  /\ SegmentOrder(s) \in Seq(Nat)
         /\ Len(SegmentOrder(s)) = Len(s) /\ Len(s) \in {1, 4}
         /\ Len(s) = 1 => s = <<Words[SegmentOrder(s)[1]]>>
         /\ Len(s) = 4 => s = <<"{", Words[SegmentOrder(s)[2]], KindSuffixes[SegmentOrder(s)[3]], SegmentOrder(s)[4]>>
<1> DEFINE word == <<Words[SegmentOrder(s)[1]]>>
           param == <<"{", Words[SegmentOrder(s)[2]], KindSuffixes[SegmentOrder(s)[3]], SegmentOrder(s)[4]>>
           Goal == /\ SegmentOrder(s) \in Seq(Nat)
                   /\ Len(SegmentOrder(s)) = Len(s) /\ Len(s) \in {1, 4}
                   /\ Len(s) = 1 => s = word
                   /\ Len(s) = 4 => s = param
<1>0. Len(Words) \in Nat
  BY NormalizeConstants, LenProperties
<1>1. ASSUME \E w \in ToSet(Words) : s = <<w>> PROVE Goal
  <2>1. PICK w \in ToSet(Words) : s = <<w>>
    BY <1>1
  <2>2. SegmentOrder(s) = <<IndexIn(Words, w)>>
    BY <2>1 DEF SegmentOrder
  <2>3. IndexIn(Words, w) \in Nat /\ Words[IndexIn(Words, w)] = w
    BY WordsIndexed
  <2> DEFINE k == IndexIn(Words, w)
  <2>4. /\ Len(<<w>>) = 1 /\ <<k>>[1] = k /\ Len(<<k>>) = 1
        /\ k \in Nat => <<k>> \in Seq(Nat)
    OBVIOUS
  <2> HIDE DEF k
  <2>5. SegmentOrder(s)[1] = k /\ Words[k] = w
    BY <2>2, <2>3, <2>4 DEF k
  <2>6. s = word
    BY <2>1, <2>5
  <2>7. SegmentOrder(s) \in Seq(Nat) /\ Len(SegmentOrder(s)) = 1 /\ Len(s) = 1
    BY <2>1, <2>2, <2>3, <2>4 DEF k
  <2> HIDE DEF word, param
  <2> QED BY <2>6, <2>7
<1>2. ASSUME \E stem \in ToSet(Words), suffix \in ToSet(KindSuffixes), n \in Nat : s = <<"{", stem, suffix, n>>
      PROVE  Goal
  <2>1. PICK stem \in ToSet(Words), suffix \in ToSet(KindSuffixes), n \in Nat : s = <<"{", stem, suffix, n>>
    BY <1>2
  <2>2. Len(s) = 4 /\ s[1] = "{" /\ s[2] = stem /\ s[3] = suffix /\ s[4] = n
    BY <2>1
  <2>3. SegmentOrder(s) = <<Len(Words) + 1, IndexIn(Words, stem), IndexIn(KindSuffixes, suffix), n>>
    <3>1. 4 # 1
      OBVIOUS
    <3> QED BY <2>2, <3>1 DEF SegmentOrder, KindSuffixes
  <2>4. IndexIn(Words, stem) \in Nat /\ Words[IndexIn(Words, stem)] = stem
    BY WordsIndexed
  <2>5. IndexIn(KindSuffixes, suffix) \in Nat /\ KindSuffixes[IndexIn(KindSuffixes, suffix)] = suffix
    BY SuffixesIndexed
  <2> DEFINE a == Len(Words) + 1
             b == IndexIn(Words, stem)
             c == IndexIn(KindSuffixes, suffix)
             o == <<a, b, c, n>>
  <2>6. Len(o) = 4 /\ o[2] = b /\ o[3] = c /\ o[4] = n
    OBVIOUS
  <2>7. a \in Nat
    BY <1>0
  <2> HIDE DEF a, b, c
  <2>8. o \in Seq(Nat)
    BY <2>4, <2>5, <2>7 DEF b, c
  <2>9. SegmentOrder(s) = o
    BY <2>3 DEF a, b, c
  <2> HIDE DEF o
  <2>10. s = param
    BY <2>1, <2>4, <2>5, <2>6, <2>9 DEF b, c
  <2>11. Len(s) = 4 /\ Len(SegmentOrder(s)) = 4 /\ SegmentOrder(s) \in Seq(Nat)
    BY <2>2, <2>6, <2>8, <2>9
  <2> HIDE DEF word, param
  <2> QED BY <2>10, <2>11
<1>3. (\E w \in ToSet(Words) : s = <<w>>)
      \/ \E stem \in ToSet(Words), suffix \in ToSet(KindSuffixes), n \in Nat : s = <<"{", stem, suffix, n>>
  <2> DEFINE P == ToSet(Words) \X ToSet(KindSuffixes) \X Nat
  <2>1. (\E w \in ToSet(Words) : s = <<w>>) \/ \E p \in P : s = <<"{", p[1], p[2], p[3]>>
    <3> HIDE DEF P
    <3> QED BY DEF Segments, P
  <2>2. \A p \in P : p[1] \in ToSet(Words) /\ p[2] \in ToSet(KindSuffixes) /\ p[3] \in Nat
    OBVIOUS
  <2> HIDE DEF P
  <2> QED BY <2>1, <2>2
<1>4. Goal
  <2> HIDE DEF Goal
  <2> QED BY <1>1, <1>2, <1>3
<1> QED BY <1>4

\* Segments are told apart by their order.
SegmentLess == {p \in Segments \X Segments : Before(SegmentOrder(p[1]), SegmentOrder(p[2]))}

LEMMA SegmentLessIsStrict ==
  /\ \A u \in Segments : <<u, u>> \notin SegmentLess
  /\ \A u, v, w \in Segments :
        <<u, v>> \in SegmentLess /\ <<v, w>> \in SegmentLess => <<u, w>> \in SegmentLess
  /\ \A u, v \in Segments : u # v => <<u, v>> \in SegmentLess \/ <<v, u>> \in SegmentLess
<1>1. \A u, v \in Segments : <<u, v>> \in SegmentLess <=> Before(SegmentOrder(u), SegmentOrder(v))
  BY DEF SegmentLess
<1>2. ASSUME NEW u \in Segments, NEW v \in Segments, u # v
      PROVE  SegmentOrder(u) # SegmentOrder(v)
  <2> DEFINE ou == SegmentOrder(u)
             ov == SegmentOrder(v)
             word(o) == <<Words[o[1]]>>
             param(o) == <<"{", Words[o[2]], KindSuffixes[o[3]], o[4]>>
  <2>1. /\ Len(ou) = Len(u) /\ Len(u) \in {1, 4}
        /\ Len(u) = 1 => u = word(ou)
        /\ Len(u) = 4 => u = param(ou)
    BY SegmentsOrdered
  <2>2. /\ Len(ov) = Len(v) /\ Len(v) \in {1, 4}
        /\ Len(v) = 1 => v = word(ov)
        /\ Len(v) = 4 => v = param(ov)
    BY SegmentsOrdered
  <2> HIDE DEF word, param, ou, ov
  <2>3. ou # ov
    BY <1>2, <2>1, <2>2
  <2> QED BY <2>3 DEF ou, ov
<1>3. ASSUME NEW u \in Segments, NEW v \in Segments, NEW w \in Segments
      PROVE  /\ ~Before(SegmentOrder(u), SegmentOrder(u))
             /\ Before(SegmentOrder(u), SegmentOrder(v)) /\ Before(SegmentOrder(v), SegmentOrder(w))
                   => Before(SegmentOrder(u), SegmentOrder(w))
             /\ u # v => Before(SegmentOrder(u), SegmentOrder(v)) \/ Before(SegmentOrder(v), SegmentOrder(u))
  <2>1. SegmentOrder(u) \in Seq(Nat) /\ SegmentOrder(v) \in Seq(Nat) /\ SegmentOrder(w) \in Seq(Nat)
    BY SegmentsOrdered
  <2> QED BY <1>2, <2>1, BeforeIsStrict
<1> QED BY <1>1, <1>3

LEMMA MethodsIndexed ==
  ASSUME NEW x \in ToSet(Methods)
  PROVE  IndexIn(Methods, x) \in Nat /\ Methods[IndexIn(Methods, x)] = x
<1>1. DOMAIN Methods \subseteq Nat
  BY DEF Methods
<1>2. \E i \in DOMAIN Methods : Methods[i] = x
  BY DEF ToSet
<1> QED BY <1>1, <1>2 DEF IndexIn

IsSlot(s) == s = <<s[1], s[2]>> /\ s[1] \in Seq(Segments) /\ s[2] \in ToSet(Methods)

\* Slots are totally ordered.
LEMMA EarlierIsStrict ==
  ASSUME NEW a, IsSlot(a), NEW b, IsSlot(b), NEW c, IsSlot(c)
  PROVE  /\ ~Earlier(a, a)
         /\ Earlier(a, b) /\ Earlier(b, c) => Earlier(a, c)
         /\ a # b => Earlier(a, b) \/ Earlier(b, a)
<1> DEFINE m(s) == IndexIn(Methods, s[2])
<1>1. ASSUME NEW s, IsSlot(s), NEW t, IsSlot(t)
      PROVE  Earlier(s, t) <=> Lex(SegmentLess, s[1], t[1]) \/ (s[1] = t[1] /\ m(s) < m(t))
  <2>1. s[1] \in Seq(Segments) /\ t[1] \in Seq(Segments)
    BY <1>1 DEF IsSlot
  <2>2. (\A i \in DOMAIN s[1] : s[1][i] \in Segments) /\ \A i \in DOMAIN t[1] : t[1][i] \in Segments
    BY <2>1, LenProperties, ElementOfSeq
  <2>3. \A u, v \in Segments : <<u, v>> \in SegmentLess <=> Before(SegmentOrder(u), SegmentOrder(v))
    BY DEF SegmentLess
  <2> HIDE DEF m
  <2>4. Lexicographic(s[1], t[1], LAMBDA u, v : Before(SegmentOrder(u), SegmentOrder(v)))
           <=> Lex(SegmentLess, s[1], t[1])
    BY <2>2, <2>3 DEF Lexicographic, Lex
  <2> QED BY <2>4 DEF Earlier, m
<1>2. /\ ~Lex(SegmentLess, a[1], a[1])
      /\ Lex(SegmentLess, a[1], b[1]) /\ Lex(SegmentLess, b[1], c[1]) => Lex(SegmentLess, a[1], c[1])
  BY SegmentLessIsStrict, LexIsStrict DEF IsSlot
<1>3. a[1] # b[1] => Lex(SegmentLess, a[1], b[1]) \/ Lex(SegmentLess, b[1], a[1])
  BY SegmentLessIsStrict, LexIsTotal DEF IsSlot
<1>4. m(a) \in Nat /\ m(b) \in Nat /\ m(c) \in Nat /\ (m(a) = m(b) => a[2] = b[2])
  BY MethodsIndexed DEF IsSlot
<1>5. a # b => a[1] # b[1] \/ a[2] # b[2]
  BY DEF IsSlot
<1>6. ~(m(a) < m(a)) /\ (m(a) < m(b) /\ m(b) < m(c) => m(a) < m(c))
      /\ (m(a) # m(b) => m(a) < m(b) \/ m(b) < m(a))
  <2> HIDE DEF m
  <2> QED BY <1>4
<1> HIDE DEF m
<1> QED BY <1>1, <1>2, <1>3, <1>4, <1>5, <1>6

LEMMA TemplateTyped ==
  ASSUME NEW paths, NEW opts, NEW path \in paths, IsSeq(path), ToSet(path) \subseteq ToSet(Words)
  PROVE  NormalizePathsWithNames(paths, opts)[path] \in Seq(Segments)
<1>1. PICK kinds : NormalizePathsWithNames(paths, opts)[path] = Rendered(path, kinds)
  BY DEF NormalizePathsWithNames, Tabled
<1> QED BY <1>1, RenderedIsTemplate

LEMMA SlotsAreOrdered ==
  ASSUME ScanInv, Generated
  PROVE  /\ \A slot \in DOMAIN Operations : IsSlot(slot)
         /\ IsSeq(Arranged(DOMAIN Operations, Earlier))
         /\ ToSet(Arranged(DOMAIN Operations, Earlier)) \subseteq DOMAIN Operations
<1> DEFINE S == DOMAIN Operations
           n == Cardinality(S)
           R == {p \in S \X S : Earlier(p[1], p[2])}
           at(k) == CHOOSE x \in S : Cardinality({y \in S : Earlier(y, x)}) = k - 1
<1>1. ASSUME NEW slot \in S PROVE IsSlot(slot)
  <2>1. slot[2] \in ToSet(Methods) /\ Contends(Groups, slot) # {}
    BY OperationFields
  <2>2. PICK k \in DOMAIN Groups : <<k[1], k[2]>> = slot
    BY <2>1 DEF Contends
  <2>3. PICK i \in Web(entries) : k = KeyOf(entries, i)
    BY GroupsTyped
  <2>4. Sortable(entries[i]) /\ i \in DOMAIN entries
    BY EntriesTyped DEF Web
  <2>5. k[1] \in Seq(Segments)
    BY <2>3, <2>4, TemplateTyped DEF KeyOf, Template, Sortable
  <2> QED BY <2>1, <2>2, <2>5 DEF IsSlot
<1>2. \A x, y \in S : <<x, y>> \in R <=> Earlier(x, y)
  OBVIOUS
<1>3. n \in Nat /\ \A k \in 1..n : \E x \in S : Cardinality({y \in S : <<y, x>> \in R}) = k - 1
  <2>1. IsFiniteSet(S)
    BY OperationsFinite
  <2> HIDE DEF R, S
  <2>2. /\ \A x \in S : <<x, x>> \notin R
        /\ \A x, y, z \in S : <<x, y>> \in R /\ <<y, z>> \in R => <<x, z>> \in R
        /\ \A x, y \in S : x # y => <<x, y>> \in R \/ <<y, x>> \in R
    BY <1>1, <1>2, EarlierIsStrict
  <2> QED BY <2>1, <2>2, RankingBy
<1>4. \A k \in 1..n : at(k) \in S
  <2>1. \A x \in S : {y \in S : <<y, x>> \in R} = {y \in S : Earlier(y, x)}
    BY <1>2
  <2> HIDE DEF R
  <2> QED BY <1>3, <2>1
<1>5. Arranged(S, Earlier) = [k \in 1..n |-> at(k)]
  BY DEF Arranged
<1> HIDE DEF at, n, R
<1>6. IsSeq(Arranged(S, Earlier)) /\ DOMAIN Arranged(S, Earlier) = 1..n
  BY <1>3, <1>5, TableIsSeq
<1>7. ToSet(Arranged(S, Earlier)) \subseteq S
  BY <1>4, <1>5 DEF ToSet
<1> QED BY <1>1, <1>6, <1>7

LEMMA PlacesTyped ==
  ASSUME ScanInv, Generated, NEW slot \in DOMAIN Operations
  PROVE  /\ IsSeq(Places(slot, Operations[slot]))
         /\ \A p \in ToSet(Places(slot, Operations[slot])) : IsPlace(p)
<1> DEFINE op == Operations[slot]
           types == Pick(MediaTypes, {i \in DOMAIN MediaTypes : MediaTypes[i] \in DOMAIN op.bodies})
           codes == Sorted(DOMAIN op.responses)
           resource == resourceNameFromPath(slot[1])
           first == [i \in DOMAIN types |-> [at |-> <<slot, "request", types[i]>>, kind |-> "request",
                        schema |-> op.bodies[types[i]], base |-> <<MethodPrefix(slot[2]), resource, "Request">>]]
           second == [i \in DOMAIN codes |-> [at |-> <<slot, "response", codes[i]>>, kind |-> "response",
                        schema |-> op.responses[codes[i]], base |-> <<"", resource, codes[i]>>]]
<1>1. Places(slot, op) = first \o second
  BY DEF Places
<1>2. IsSeq(types)
  <2> DEFINE I == {i \in DOMAIN MediaTypes : MediaTypes[i] \in DOMAIN op.bodies}
  <2>1. DOMAIN MediaTypes = 1..8
    BY DEF MediaTypes
  <2>2. I \in SUBSET (1..8) /\ types = Pick(MediaTypes, I)
    BY <2>1
  <2> HIDE DEF I, types
  <2> QED BY <2>2, PickIsSeq
<1>3. IsSeq(codes)
  <2> DEFINE D == DOMAIN op.responses
  <2>1. IsFiniteSet(D) /\ D \in SUBSET Nat
    BY SlotsTyped
  <2> HIDE DEF D
  <2>2. IsSeq(Sorted(D))
    BY <2>1, SortedElements
  <2> QED BY <2>2 DEF D
<1>4. ASSUME NEW i \in DOMAIN first PROVE IsPlace(first[i])
  <2> DEFINE at == <<slot, "request", types[i]>>
             base == <<MethodPrefix(slot[2]), resource, "Request">>
  <2>1. first[i].at = at /\ first[i].schema = op.bodies[types[i]] /\ first[i].base = base
    OBVIOUS
  <2>2. at[1] = slot /\ at[2] = "request" /\ at[3] = types[i]
    OBVIOUS
  <2>3. IsBase(base)
    BY DEF IsBase
  <2> HIDE DEF at, base, first
  <2>4. InlineAt(at) = op.bodies[types[i]]
    BY <2>2 DEF InlineAt
  <2> QED BY <2>1, <2>3, <2>4 DEF IsPlace
<1>5. ASSUME NEW i \in DOMAIN second PROVE IsPlace(second[i])
  <2> DEFINE at == <<slot, "response", codes[i]>>
             base == <<"", resource, codes[i]>>
  <2>1. second[i].at = at /\ second[i].schema = op.responses[codes[i]] /\ second[i].base = base
    OBVIOUS
  <2>2. at[1] = slot /\ at[2] # "request" /\ at[3] = codes[i]
    OBVIOUS
  <2>3. IsBase(base)
    BY DEF IsBase
  <2> HIDE DEF at, base, second
  <2>4. InlineAt(at) = op.responses[codes[i]]
    BY <2>2 DEF InlineAt
  <2> QED BY <2>1, <2>3, <2>4 DEF IsPlace
<1> HIDE DEF types, codes
<1>6. IsSeq(first)
  <2>1. Len(types) \in Nat /\ DOMAIN types = 1..Len(types)
    BY <1>2, LenProperties DEF IsSeq
  <2>2. first = [i \in 1..Len(types) |-> first[i]]
    BY <2>1
  <2> HIDE DEF first
  <2> QED BY <2>1, <2>2, TableIsSeq
<1>7. IsSeq(second)
  <2>1. Len(codes) \in Nat /\ DOMAIN codes = 1..Len(codes)
    BY <1>3, LenProperties DEF IsSeq
  <2>2. second = [i \in 1..Len(codes) |-> second[i]]
    BY <2>1
  <2> HIDE DEF second
  <2> QED BY <2>1, <2>2, TableIsSeq
<1> HIDE DEF first, second
<1>8. IsSeq(first \o second) /\ ToSet(first \o second) = ToSet(first) \cup ToSet(second)
  BY <1>6, <1>7, ConcatIsSeq
<1>9. \A p \in ToSet(first) \cup ToSet(second) : IsPlace(p)
  BY <1>4, <1>5 DEF ToSet
<1> QED BY <1>1, <1>8, <1>9

\* Extracting the components of the operations leaves a sound table.
LEMMA ComponentsAreSound ==
  ASSUME ScanInv, Generated
  PROVE  Sound(extractComponents(Operations))
<1> DEFINE slots == Arranged(DOMAIN Operations, Earlier)
           of(i) == Places(slots[i], Operations[slots[i]])
           all == [i \in DOMAIN slots |-> of(i)]
           places == FlattenSeq(all)
           A == UNION {ToSet(of(i)) : i \in DOMAIN slots}
           n == Len(places)
<1>1. IsSeq(slots) /\ ToSet(slots) \subseteq DOMAIN Operations
  BY SlotsAreOrdered
<1>2. ASSUME NEW i \in DOMAIN slots PROVE of(i) \in Seq(A) /\ \A p \in ToSet(of(i)) : IsPlace(p)
  <2>1. slots[i] \in DOMAIN Operations
    BY <1>1 DEF ToSet
  <2>2. IsSeq(of(i)) /\ \A p \in ToSet(of(i)) : IsPlace(p)
    <3> HIDE DEF slots
    <3> QED BY <2>1, PlacesTyped
  <2> HIDE DEF of, slots
  <2>3. of(i) \in Seq(ToSet(of(i))) /\ ToSet(of(i)) \subseteq A
    BY <2>2 DEF IsSeq
  <2> HIDE DEF A
  <2> QED BY <2>2, <2>3, SeqMonotonic
<1>3. \A p \in A : IsPlace(p)
  <2> HIDE DEF of, slots
  <2> QED BY <1>2
<1>4. places \in Seq(A)
  <2>1. Len(slots) \in Nat /\ DOMAIN slots = 1..Len(slots)
    <3> HIDE DEF slots
    <3> QED BY <1>1, LenProperties DEF IsSeq
  <2>2. all \in [1..Len(slots) -> Seq(A)]
    <3> HIDE DEF A, of, slots
    <3> QED BY <1>2, <2>1
  <2> HIDE DEF all, A, slots
  <2>3. all \in Seq(Seq(A))
    BY <2>1, <2>2, SeqDef
  <2> QED BY <2>3, FlattenElements
<1>5. extractComponents(Operations) = FoldLeft(Extract, FirstComponents, places)
  BY DEF extractComponents, FirstComponents
<1> HIDE DEF places, A
<1>6. n \in Nat /\ DOMAIN places = 1..n /\ \A i \in 1..n : IsPlace(places[i])
  BY <1>3, <1>4, LenProperties, ElementOfSeq
<1>7. PICK acc : Components!Unfolds(acc, places, n, Components!FoldLeft(Extract, FirstComponents, places))
  <2> HIDE DEF n
  <2> QED BY <1>6, Components!FoldUnfolds, QueryCaps
<1>8. Components!FoldLeft(Extract, FirstComponents, places) = FoldLeft(Extract, FirstComponents, places)
  BY DEF FoldLeft, Components!FoldLeft, MapThenFoldSet, Components!MapThenFoldSet, Max, Components!Max
<1>9. /\ acc[0] = FirstComponents /\ FoldLeft(Extract, FirstComponents, places) = acc[n]
      /\ \A i \in 1..n : acc[i] = Extract(acc[i - 1], places[i])
  BY <1>7, <1>8 DEF Components!Unfolds
<1> DEFINE T == {i \in 0..n : Sound(acc[i])}
<1> HIDE DEF n
<1>10. 0 \in T
  <2>1. DOMAIN <<>> = {}
    OBVIOUS
  <2>2. Sound(FirstComponents)
    BY <2>1 DEF Sound, FirstComponents
  <2> QED BY <1>6, <1>9, <2>2
<1>11. ASSUME NEW i \in 1..n, i - 1 \in T PROVE i \in T
  <2>1. Sound(acc[i - 1]) /\ i \in 0..n
    BY <1>11
  <2>2. Sound(Extract(acc[i - 1], places[i]))
    BY <1>6, <2>1, ExtractIsSound
  <2> QED BY <1>9, <2>1, <2>2
<1>12. n \in T
  <2> HIDE DEF T
  <2> QED BY <1>6, <1>10, <1>11, StepByStep
<1> QED BY <1>5, <1>9, <1>12

LEMMA RefsOfComponents ==
  ASSUME ScanInv
  PROVE  RefsDescribeTheirSchema
<1>1. CASE ~Generated
  BY <1>1 DEF RefsDescribeTheirSchema
<1>2. CASE Generated /\ document = NoDocument
  <2>1. DOMAIN document.refs = {}
    BY <1>2 DEF NoDocument
  <2> QED BY <2>1 DEF RefsDescribeTheirSchema
<1>3. CASE Generated /\ document # NoDocument
  <2>1. /\ document.operations = Operations
        /\ document.schemas = extractComponents(Operations).schemas
        /\ document.refs = extractComponents(Operations).refs
    BY <1>3, DocumentIs
  <2>2. Sound(extractComponents(Operations))
    BY <1>3, ComponentsAreSound
  <2>3. ASSUME NEW at \in DOMAIN document.refs
        PROVE  /\ document.refs[at] \in DOMAIN document.schemas
               /\ Fingerprint(document.schemas[document.refs[at]]) = Fingerprint(InlineAt(at))
    BY <2>1, <2>2 DEF Sound
  <2> QED BY <2>1, <2>3 DEF RefsDescribeTheirSchema, InlineAt
<1> QED BY <1>1, <1>2, <1>3

\* A component is what the schemas that refer to it were (extractComponents).
THEOREM RefsDescribe == Spec => []RefsDescribeTheirSchema
<1>1. ScanInv => RefsDescribeTheirSchema
  BY RefsOfComponents
<1> QED BY <1>1, ScanInvariant, PTL

-----------------------------------------------------------------------------
(* Servers and trust.                                                      *)

WireOrigins == OriginsAt(entries, DOMAIN entries \ Static(entries))

Vouched == (WireOrigins \cup {Trust.primary}) \ {0}

LEMMA WireOriginsTyped ==
  ASSUME ScanInv, Generated
  PROVE  /\ WireOrigins \in SUBSET (Nat \ {0}) /\ IsFiniteSet(WireOrigins)
         /\ WireOrigins = {e.origin : e \in {x \in ToSet(entries) : ~IsJSStaticSource(x.source)}} \ {0}
         /\ WireOrigins \subseteq {requests[i].origin : i \in OnTheWire} \ {0}
<1> DEFINE I == DOMAIN entries \ Static(entries)
           f == [i \in I |-> entries[i].origin]
           O == {entries[i].origin : i \in I}
<1>1. /\ IsSeq(entries) /\ I \in SUBSET (DOMAIN entries)
      /\ \A k \in DOMAIN entries : IsEntry(entries[k]) /\ entries[k].origin \in Nat
  BY EntriesTyped
<1>2. \A k \in DOMAIN entries : k \in I <=> ~IsJSStaticSource(entries[k].source)
  BY DEF Static
<1>3. WireOrigins = O \ {0}
  BY DEF WireOrigins, OriginsAt
<1>4. f \in Surjection(I, O)
  BY DEF Surjection
<1> HIDE DEF I, f
<1>5. IsFiniteSet(I)
  BY <1>1, SeqFinite
<1>6. IsFiniteSet(O \ {0})
  <2> HIDE DEF O
  <2>1. O \ {0} \in SUBSET O
    OBVIOUS
  <2> QED BY <1>4, <1>5, <2>1, FS_Surjection, FS_Subset
<1>7. O = {e.origin : e \in {x \in ToSet(entries) : ~IsJSStaticSource(x.source)}}
  BY <1>1, <1>2 DEF ToSet
<1>8. ASSUME NEW k \in I PROVE \E i \in OnTheWire : entries[k].origin = requests[i].origin
  <2>1. k \in DOMAIN entries /\ ~IsJSStaticSource(entries[k].source) /\ IsEntry(entries[k])
    BY <1>1, <1>2
  <2>2. PICK i \in Kept : Alike(entries[k], requests[i])
    BY <2>1 DEF IsEntry
  <2>3. entries[k].source = requests[i].source /\ entries[k].origin = requests[i].origin
    BY <2>2 DEF Alike, FirstFields, RequestFields
  <2>4. i \in OnTheWire
    BY <2>1, <2>3 DEF OnTheWire, Kept
  <2> QED BY <2>3, <2>4
<1> QED BY <1>1, <1>3, <1>6, <1>7, <1>8

\* The origin a bundle names only is excluded, and ranks last.
LEMMA RanksOfOrigins ==
  ASSUME ScanInv, Generated, NEW k \in DOMAIN Groups
  PROVE  /\ k[3] \in Vouched => trustRank(k[3], Trust) <= 1
         /\ k[3] \notin Vouched => trustRank(k[3], Trust) = 2
         /\ k[3] \notin Vouched \cup {0} => k[3] \in Trust.excluded
<1> DEFINE o == k[3]
           S == OriginsAt(entries, Static(entries))
<1>1. o \in {0} \cup WireOrigins \cup S
  <2>1. PICK i \in Web(entries) : k = KeyOf(entries, i)
    BY GroupsTyped
  <2>2. i \in DOMAIN entries /\ o = entries[i].origin
    BY <2>1 DEF Web, KeyOf
  <2> HIDE DEF o
  <2>3. i \in Static(entries) \/ i \in DOMAIN entries \ Static(entries)
    BY <2>2
  <2> QED BY <2>2, <2>3 DEF OriginsAt, WireOrigins
<1>2. Trust.excluded = S \ (WireOrigins \cup {Trust.primary})
  BY DEF Trust, extractServers, WireOrigins
<1> HIDE DEF o, S
<1>3. trustRank(o, Trust) = IF o = 0 THEN 2 ELSE IF o = Trust.primary THEN 0
                            ELSE IF o \in Trust.excluded THEN 2 ELSE 1
  BY DEF trustRank
<1>4. o \in Vouched => trustRank(o, Trust) <= 1
  BY <1>2, <1>3 DEF Vouched
<1>5. o \notin Vouched \cup {0} => o \in Trust.excluded
  BY <1>1, <1>2, WireOriginsTyped DEF Vouched
<1>6. o \notin Vouched => trustRank(o, Trust) = 2
  BY <1>3, <1>5 DEF Vouched
<1> QED BY <1>4, <1>5, <1>6 DEF o

\* With a target, or a located request on the wire, the origin the document is
\* named after is vouched for by one of them.
LEMMA TargetIsVouched ==
  ASSUME ScanInv, Generated, Located, Target # 0
  PROVE  Target = job.opts.target \/ Target \in {requests[i].origin : i \in OnTheWire}
<1> DEFINE located == {i \in DOMAIN requests : requests[i].origin # 0}
           pages == {i \in located : \/ requests[i].resp.ctype = "text/html"
                                     \/ looksLikeHTML(requests[i].resp.body)}
           first(I) == CHOOSE i \in I : \A j \in I : i <= j
<1>1. Target = IF job.opts.pinned THEN job.opts.target
               ELSE IF pages # {} THEN requests[first(pages)].origin
               ELSE IF located # {} THEN requests[first(located)].origin ELSE 0
  BY DEF Target, ResolveTargetOrigin
<1>2. Traffic(requests) /\ DOMAIN requests \in SUBSET Nat
  <2>1. Traffic(requests)
    BY DocumentIs
  <2>2. DOMAIN requests = 1..Len(requests) /\ Len(requests) \in Nat
    BY <2>1, LenProperties DEF Traffic, IsSeq
  <2> QED BY <2>1, <2>2
<1>3. ASSUME NEW I \in SUBSET Nat, I # {} PROVE first(I) \in I /\ \A j \in I : first(I) <= j
  BY <1>3, LeastExists
<1>4. located \in SUBSET Nat /\ pages \in SUBSET Nat
  BY <1>2
<1>5. ASSUME NEW i \in pages PROVE i \in OnTheWire
  <2>1. /\ i \in DOMAIN requests
        /\ requests[i].resp.ctype = "text/html" \/ looksLikeHTML(requests[i].resp.body)
    OBVIOUS
  <2>2. Unanswered.ctype # "text/html" /\ ~looksLikeHTML(Unanswered.body)
    BY DEF Unanswered, looksLikeHTML
  <2>3. ~IsJSStaticSource(requests[i].source)
    BY <1>2, <2>1, <2>2 DEF Traffic
  <2> QED BY <2>1, <2>3 DEF OnTheWire
<1>6. CASE job.opts.pinned
  BY <1>1, <1>6
<1>7. CASE ~job.opts.pinned /\ pages # {}
  <2>1. first(pages) \in pages
    <3> HIDE DEF pages
    <3> QED BY <1>3, <1>4, <1>7
  <2> HIDE DEF pages, first
  <2>2. Target = requests[first(pages)].origin
    BY <1>1, <1>7
  <2> QED BY <1>5, <2>1, <2>2
<1>8. CASE ~job.opts.pinned /\ pages = {}
  <2>1. PICK i \in OnTheWire : requests[i].origin # 0
    BY <1>8, ScanJobs DEF Located, ScanInv
  <2>2. i \in located /\ ~IsJSStaticSource(requests[i].source)
    BY <2>1 DEF OnTheWire
  <2>3. first(located) \in located /\ first(located) <= i
    <3> HIDE DEF located
    <3> QED BY <1>3, <1>4, <2>2
  <2>4. Target = requests[first(located)].origin
    <3> HIDE DEF located, first, pages
    <3> QED BY <1>1, <1>8, <2>2
  <2>5. first(located) \in DOMAIN requests /\ i \in DOMAIN requests
    <3> HIDE DEF first
    <3> QED BY <2>2, <2>3
  <2> HIDE DEF located, first
  <2>6. ~(i < first(located))
    BY <1>2, <2>3, <2>5
  <2>7. ~IsJSStaticSource(requests[first(located)].source)
    BY <1>2, <2>2, <2>5, <2>6 DEF Traffic
  <2> QED BY <2>4, <2>5, <2>7 DEF OnTheWire
<1> QED BY <1>6, <1>7, <1>8

LEMMA ServersAreVouched ==
  ASSUME ScanInv, Generated, Located
  PROVE  ToSet(Trust.servers) \subseteq ({requests[i].origin : i \in OnTheWire} \cup {job.opts.target}) \ {0}
<1> DEFINE V == ({requests[i].origin : i \in OnTheWire} \cup {job.opts.target}) \ {0}
           p == Trust.primary
           O == WireOrigins \ {p}
<1>1. Trust.servers = IF p = 0 THEN <<>> ELSE <<p>> \o Sorted(O)
  BY DEF Trust, extractServers, WireOrigins
<1>2. p = choosePrimaryOrigin(Target, WireOrigins)
  BY DEF Trust, extractServers, WireOrigins
<1>3. WireOrigins \in SUBSET Nat /\ IsFiniteSet(WireOrigins) /\ WireOrigins \subseteq V
  BY WireOriginsTyped
<1> HIDE DEF V, p
<1>4. O \in SUBSET Nat /\ IsFiniteSet(O) /\ O \subseteq V
  BY <1>3, FS_Subset
<1>5. p # 0 => p \in V
  <2>1. CASE Target # 0
    <3>1. p = Target
      BY <1>2, <2>1 DEF choosePrimaryOrigin
    <3> QED BY <2>1, <3>1, TargetIsVouched DEF V
  <2>2. CASE Target = 0 /\ WireOrigins # {}
    <3>1. p = Sorted(WireOrigins)[1]
      BY <1>2, <2>2 DEF choosePrimaryOrigin
    <3>2. /\ ToSet(Sorted(WireOrigins)) \subseteq WireOrigins /\ Cardinality(WireOrigins) \in Nat
          /\ DOMAIN Sorted(WireOrigins) = 1..Cardinality(WireOrigins)
      BY <1>3, SortedElements
    <3>3. Cardinality(WireOrigins) # 0
      BY <1>3, <2>2, FS_EmptySet
    <3>4. 1 \in DOMAIN Sorted(WireOrigins)
      BY <3>2, <3>3
    <3> QED BY <1>3, <3>1, <3>2, <3>4 DEF ToSet
  <2>3. CASE Target = 0 /\ WireOrigins = {}
    BY <1>2, <2>3 DEF choosePrimaryOrigin
  <2> QED BY <2>1, <2>2, <2>3
<1> HIDE DEF O
<1>6. CASE p = 0
  <2>1. ToSet(<<>>) = {}
    BY DEF ToSet
  <2> QED BY <1>1, <1>6, <2>1
<1>7. CASE p # 0
  <2>1. IsSeq(Sorted(O)) /\ ToSet(Sorted(O)) \subseteq V
    BY <1>4, SortedElements
  <2>2. IsSeq(<<p>>) /\ ToSet(<<p>>) = {p}
    BY DEF IsSeq, ToSet
  <2>3. ToSet(<<p>> \o Sorted(O)) \subseteq V
    BY <1>5, <1>7, <2>1, <2>2, ConcatIsSeq
  <2> QED BY <1>1, <1>7, <2>3 DEF V
<1> QED BY <1>6, <1>7

LEMMA WinnersAreVouched ==
  ASSUME ScanInv
  PROVE  UnvouchedNeverWins
<1>1. CASE ~Generated
  BY <1>1 DEF UnvouchedNeverWins
<1>2. CASE Generated /\ document = NoDocument
  <2>1. DOMAIN document.operations = {} /\ ToSet(document.servers) = {}
    BY <1>2 DEF NoDocument, ToSet
  <2> QED BY <2>1 DEF UnvouchedNeverWins, Slots
<1>3. CASE Generated /\ document # NoDocument
  <2>1. /\ document.operations = Operations
        /\ document.servers = Trust.servers /\ document.title = Trust.primary
    BY <1>3, DocumentIs
  <2> DEFINE vouched == ({e.origin : e \in {x \in ToSet(entries) : ~IsJSStaticSource(x.source)}}
                            \cup {document.title}) \ {0}
  <2>2. vouched = Vouched
    BY <1>3, <2>1, WireOriginsTyped DEF Vouched
  <2> HIDE DEF vouched
  <2>3. ASSUME NEW slot \in Slots
        PROVE  LET op == document.operations[slot]
               IN  /\ op.collisions \cap vouched # {} => op.origin \in vouched
                   /\ op.origin \notin vouched \cup {0} => op.servers = {op.origin}
    <3> DEFINE op == Operations[slot]
               w == Winner(Groups, Trust, slot)
    <3>1. slot \in DOMAIN Operations
      BY <2>1 DEF Slots
    <3>2. /\ w \in Contends(Groups, slot)
          /\ \A j \in Contends(Groups, slot) \ {w} : Beats(Trust, w, j)
          /\ op.origin = w[3] /\ op.collisions = Displaced(Groups, Trust, slot)
          /\ op.servers = IF w[3] \in Trust.excluded THEN {w[3]} ELSE {}
      BY <1>3, <3>1, SlotsTyped
    <3>3. w \in DOMAIN Groups
      BY <3>2 DEF Contends
    <3>4. Displaced(Groups, Trust, slot) = {k[3] : k \in Contends(Groups, slot) \ {w}}
      BY DEF Displaced
    <3> HIDE DEF op, w
    <3>5. ASSUME NEW k \in Contends(Groups, slot) \ {w}, k[3] \in Vouched
          PROVE  w[3] \in Vouched
      <4>1. trustRank(k[3], Trust) <= 1
        BY <1>3, <3>5, RanksOfOrigins DEF Contends
      <4>2. Beats(Trust, w, k)
        BY <3>2
      <4>3. trustRank(w[3], Trust) \in {0, 1, 2} /\ trustRank(k[3], Trust) \in {0, 1, 2}
        BY TrustRanks
      <4>4. trustRank(w[3], Trust) # 2
        BY <4>1, <4>2, <4>3 DEF Beats
      <4> QED BY <1>3, <3>3, <4>4, RanksOfOrigins
    <3>6. w[3] \notin Vouched \cup {0} => w[3] \in Trust.excluded
      BY <1>3, <3>3, RanksOfOrigins
    <3>7. /\ op.collisions \cap Vouched # {} => op.origin \in Vouched
          /\ op.origin \notin Vouched \cup {0} => op.servers = {op.origin}
      BY <3>2, <3>4, <3>5, <3>6
    <3> QED BY <2>1, <2>2, <3>7 DEF op
  <2>4. Located => ToSet(document.servers) \subseteq
                      ({requests[i].origin : i \in OnTheWire} \cup {job.opts.target}) \ {0}
    BY <1>3, <2>1, ServersAreVouched
  <2> QED BY <2>3, <2>4 DEF UnvouchedNeverWins, vouched
<1> QED BY <1>1, <1>2, <1>3

\* An origin that only a bundle names displaces none the run vouches for.
THEOREM UnvouchedLoses == Spec => []UnvouchedNeverWins
<1>1. ScanInv => UnvouchedNeverWins
  BY WinnersAreVouched
<1> QED BY <1>1, ScanInvariant, PTL

-----------------------------------------------------------------------------
(* Documented statuses.                                                    *)

\* A request fills the slot its entry was grouped into.
LEMMA EntryFillsItsSlot ==
  ASSUME ScanInv, Generated, NEW n \in Web(entries), NEW i, Alike(entries[n], requests[i])
  PROVE  LET k == KeyOf(entries, n)
         IN  /\ Fills(Templates, requests[i], <<k[1], k[2]>>)
             /\ k[2] = requests[i].method /\ k[3] = requests[i].origin
<1> DEFINE e == entries[n]
           paths == {entries[m].path : m \in Web(entries)}
<1>1. e.path = requests[i].path /\ e.method = requests[i].method /\ e.origin = requests[i].origin
  BY DEF Alike, FirstFields, RequestFields
<1>2. Templates = NormalizePathsWithNames(paths, Options)
  <2>1. {r.path : r \in {x \in ToSet(entries) : x.web}} = paths
    BY DEF ToSet, Web
  <2> QED BY <2>1 DEF Templates, Options
<1>3. e.path \in paths
  OBVIOUS
<1>4. DOMAIN Templates = paths
  BY <1>2, TemplatesAreOfPaths
<1>5. KeyOf(entries, n) = <<Templates[e.path], e.method, e.origin>>
  BY <1>2 DEF KeyOf, Template
<1> HIDE DEF e, paths
<1> QED BY <1>1, <1>3, <1>4, <1>5 DEF Fills

LEMMA StatusesWereSeen ==
  ASSUME ScanInv
  PROVE  DocumentedStatusWasSeen
<1>1. CASE ~Generated
  BY <1>1 DEF DocumentedStatusWasSeen
<1>2. CASE Generated /\ document = NoDocument
  <2>1. DOMAIN document.operations = {}
    BY <1>2 DEF NoDocument
  <2> QED BY <2>1 DEF DocumentedStatusWasSeen, Slots
<1>3. CASE Generated /\ document # NoDocument
  <2>1. document.operations = Operations /\ Traffic(requests)
    BY <1>3, DocumentIs
  <2>2. ASSUME NEW slot \in DOMAIN Operations, NEW status \in DOMAIN Operations[slot].responses
        PROVE  \E i \in DOMAIN requests :
                  /\ Fills(Templates, requests[i], slot)
                  /\ \/ \E id \in DOMAIN page : \E h \in DOMAIN page[id] :
                           /\ page[id][h].path = requests[i].path /\ page[id][h].method = slot[2]
                           /\ page[id][h].resp.status = status
                     \/ /\ status = 200
                        /\ \A j \in OneWith(i) : requests[j].resp.status = 0
    <3> DEFINE w == Winner(Groups, Trust, slot)
    <3>1. /\ w \in Contends(Groups, slot)
          /\ DOMAIN Operations[slot].responses \subseteq {StatusOf(r) : r \in ToSet(Groups[w])}
      BY <1>3, SlotsTyped
    <3> HIDE DEF w
    <3>2. w \in DOMAIN Groups /\ slot = <<w[1], w[2]>>
      BY <3>1 DEF Contends
    <3>3. PICK r \in ToSet(Groups[w]) : status = StatusOf(r)
      BY <3>1
    <3>4. PICK n \in Web(entries) : r = entries[n] /\ KeyOf(entries, n) = w
      BY <1>3, <3>2, GroupsTyped
    <3>5. IsEntry(r)
      BY <1>3, <3>4, EntriesTyped DEF Web
    <3>6. PICK i \in Kept :
             /\ Alike(r, requests[i])
             /\ \E j \in OneWith(i) : r.resp = requests[j].resp
             /\ \A j \in OneWith(i) : responsePopulated(requests[j].resp) => responsePopulated(r.resp)
      BY <3>5 DEF IsEntry
    <3>7. Fills(Templates, requests[i], slot) /\ slot[2] = requests[i].method
      <4>1. Alike(entries[n], requests[i])
        BY <3>4, <3>6
      <4> QED BY <1>3, <3>2, <3>4, <4>1, EntryFillsItsSlot
    <3>8. PICK j \in OneWith(i) : r.resp = requests[j].resp
      BY <3>6
    <3>9. /\ i \in DOMAIN requests /\ OneWith(i) \subseteq DOMAIN requests
          /\ requests[j].path = requests[i].path /\ requests[j].method = requests[i].method
      BY <3>8 DEF Kept, OneWith, Likes, DedupKey
    <3>10. /\ Seen(requests[j]) /\ requests[j].resp.status \in Nat
           /\ \A m \in OneWith(i) : requests[m].resp.status \in Nat
      BY <2>1, <3>8, <3>9 DEF Traffic, IsRequest
    <3> DEFINE none == Unanswered
    <3>11. none.status = 0 /\ ~(none.status > 0) /\ none.body = 0 /\ none.ctype = ""
      <4>1. none.status = 0 /\ none.body = 0 /\ none.ctype = "" /\ ~(0 > 0)
        BY DEF Unanswered
      <4> QED BY <4>1
    <3> HIDE DEF none
    <3>12. CASE r.resp.status > 0
      <4>1. status = requests[j].resp.status /\ requests[j].resp # Unanswered
        BY <3>3, <3>8, <3>12, <3>11 DEF StatusOf, none
      <4>2. \E id \in DOMAIN page : \E h \in DOMAIN page[id] :
               /\ page[id][h].path = requests[j].path /\ page[id][h].method = requests[j].method
               /\ page[id][h].resp.status = requests[j].resp.status
        BY <3>10, <4>1 DEF Seen
      <4> QED BY <3>7, <3>9, <4>1, <4>2
    <3>13. CASE ~(r.resp.status > 0)
      <4>1. status = 200
        BY <3>3, <3>13 DEF StatusOf
      <4>2. r.resp = Unanswered
        BY <3>8, <3>10, <3>13 DEF Seen
      <4>3. ~responsePopulated(r.resp)
        BY <3>11, <4>2 DEF responsePopulated, none
      <4>4. \A m \in OneWith(i) : requests[m].resp.status = 0
        <5> TAKE m \in OneWith(i)
        <5>1. ~responsePopulated(requests[m].resp) /\ requests[m].resp.status \in Nat
          BY <3>6, <3>10, <4>3
        <5>2. ~(requests[m].resp.status > 0)
          BY <5>1 DEF responsePopulated
        <5> QED BY <5>1, <5>2
      <4> QED BY <3>7, <3>9, <4>1, <4>4
    <3> QED BY <3>12, <3>13
  <2> QED BY <2>1, <2>2 DEF DocumentedStatusWasSeen, Slots
<1> QED BY <1>1, <1>2, <1>3

\* A status is documented where the page was answered with it, or as the
\* default of an endpoint that was never seen answered.
THEOREM StatusesDocumented == Spec => []DocumentedStatusWasSeen
<1>1. ScanInv => DocumentedStatusWasSeen
  BY StatusesWereSeen
<1> QED BY <1>1, ScanInvariant, PTL

-----------------------------------------------------------------------------
(* No call is lost.                                                        *)

LEMMA MaxOfBounded ==
  ASSUME NEW n \in Nat, NEW S \in SUBSET (0..n), S # {}
  PROVE  MaxOf(S) \in S /\ \A m \in S : m <= MaxOf(S)
<1> DEFINE U == {n - x : x \in S}
<1>1. U \in SUBSET Nat /\ U # {}
  <2>1. \A x \in S : n - x \in Nat
    <3>1. \A x \in S : x \in 0..n
      OBVIOUS
    <3> QED BY <3>1
  <2> QED BY <2>1
<1>2. PICK u \in U : \A v \in U : u <= v
  <2> HIDE DEF U
  <2> QED BY <1>1, LeastExists
<1>3. PICK x \in S : u = n - x
  BY <1>2
<1>4. \A y \in S : y <= x
  <2> TAKE y \in S
  <2>1. n - x <= n - y /\ x \in 0..n /\ y \in 0..n
    BY <1>2, <1>3
  <2> QED BY <2>1
<1> QED BY <1>4 DEF MaxOf

\* What is meant for an API passes the default threshold.
LEMMA MeantIsConfident ==
  ASSUME NEW r, Meant(r)
  PROVE  RESTClassify(r).confidence \in Nat /\ RESTClassify(r).confidence >= 50
<1> DEFINE scores == [s \in {"method", "response-structure", "request-signal"} |->
                      CASE s = "method" -> IF r.method \in {"POST", "PUT", "PATCH", "DELETE"} THEN 70 ELSE 0
                        [] s = "response-structure" -> IF startsJSON(r.resp.body) THEN 85 ELSE 0
                        [] s = "request-signal" -> IF requestSignal(r) THEN 60 ELSE 0]
           base == (IF r.resp.ctype \in APITypes THEN 80 ELSE 0) + (IF pathIsAPI(r.path) THEN 15 ELSE 0)
           all == {base} \cup Range(scores)
           heard == MaxOf(all)
           floored == pathIsAPI(r.path) /\ heard < 50 /\ IsJSStaticSource(r.source)
<1>1. RESTClassify(r).confidence = IF floored THEN 50 ELSE heard
  <2>1. ~(endsIn(r.path, "asset") \/ within(r.path, {"static dir"}))
    BY DEF Meant
  <2> QED BY <2>1 DEF RESTClassify, Verdict
<1>2. scores["method"] \in {0, 70} /\ scores["response-structure"] \in {0, 85} /\ scores["request-signal"] \in {0, 60}
  OBVIOUS
<1>3. DOMAIN scores = {"method", "response-structure", "request-signal"}
  OBVIOUS
<1>4. base \in 0..100
  OBVIOUS
<1>5. r.method \in {"POST", "PUT", "PATCH", "DELETE"} => scores["method"] = 70
  OBVIOUS
<1>6. acceptSignalsAPI(r.accept) => scores["request-signal"] = 60
  BY DEF Meant, requestSignal
<1> HIDE DEF scores, base
<1>7. all \in SUBSET (0..100) /\ all # {} /\ \A s \in DOMAIN scores : scores[s] \in all
  BY <1>2, <1>3, <1>4 DEF Range
<1>8. heard \in all /\ \A s \in DOMAIN scores : scores[s] <= heard
  <2> HIDE DEF all
  <2> QED BY <1>7, MaxOfBounded
<1>9. heard \in Nat
  BY <1>7, <1>8
<1> HIDE DEF heard, all
<1>10. CASE r.method \in {"POST", "PUT", "PATCH", "DELETE"}
  BY <1>1, <1>3, <1>5, <1>8, <1>9, <1>10
<1>11. CASE acceptSignalsAPI(r.accept)
  BY <1>1, <1>3, <1>6, <1>8, <1>9, <1>11
<1>12. CASE IsJSStaticSource(r.source)
  <2>1. floored <=> heard < 50
    BY <1>12 DEF Meant
  <2> HIDE DEF floored
  <2> QED BY <1>1, <1>9, <2>1
<1> QED BY <1>10, <1>11, <1>12 DEF Meant

\* A call the capture has a request like is documented.
LEMMA LikeCallsAreDocumented ==
  ASSUME ScanInv, Generated, job.opts.threshold <= 50,
         NEW r, NEW i \in DOMAIN requests, Alike(requests[i], r), Meant(r), OnlyWebLike(r)
  PROVE  Documented(Templates, r)
<1>1. DedupKey(requests[i]) = DedupKey(r) /\ Meant(requests[i])
  BY AlikeKeys DEF Alike, FirstFields, RequestFields, Meant
<1>2. i \in Kept
  <2>1. job.opts.threshold \in Nat
    BY ScanJobs DEF ScanInv
  <2>2. RESTClassify(requests[i]).confidence \in Nat /\ RESTClassify(requests[i]).confidence >= 50
    BY <1>1, MeantIsConfident
  <2>3. RESTClassify(requests[i]).confidence >= job.opts.threshold
    BY <2>1, <2>2
  <2> QED BY <2>3 DEF Kept, ClassifyAs
<1>3. PICK k \in DOMAIN entries : DedupKey(entries[k]) = DedupKey(requests[i])
  BY <1>2, EntriesTyped
<1>4. PICK j \in Kept : Alike(entries[k], requests[j])
  BY EntriesTyped DEF IsEntry
<1>5. j \in Likes(r)
  BY <1>1, <1>3, <1>4, AlikeKeys DEF Likes, Kept
<1>6. k \in Web(entries)
  <2>1. entries[k].web = requests[j].web
    BY <1>4 DEF Alike, FirstFields, RequestFields
  <2> QED BY <1>5, <2>1 DEF OnlyWebLike, Web
<1> DEFINE g == KeyOf(entries, k)
           slot == <<g[1], g[2]>>
           op == Operations[slot]
<1>7. Fills(Templates, requests[j], slot) /\ g[2] = requests[j].method /\ g[3] = requests[j].origin
  BY <1>4, <1>6, EntryFillsItsSlot
<1>8. requests[j].method = r.method /\ requests[j].path = r.path
  BY <1>5 DEF Likes, DedupKey
<1>9. g \in DOMAIN Groups
  BY <1>6, GroupsTyped
<1> HIDE DEF g
<1>10. slot \in DOMAIN Operations /\ g \in Contends(Groups, slot)
  <2>1. slot[2] \in ToSet(Methods)
    BY <1>7, <1>8 DEF Meant
  <2> QED BY <1>9, <2>1 DEF Operations, resolveCollisions, Contends
<1>11. document.operations = Operations
  <2>1. entries # <<>>
    BY <1>3
  <2> QED BY <2>1, DocumentIs
<1>12. g[3] \in {op.origin} \cup op.collisions
  <2> DEFINE w == Winner(Groups, Trust, slot)
  <2>1. op.origin = w[3] /\ op.collisions = Displaced(Groups, Trust, slot)
    <3> HIDE DEF slot
    <3> QED BY <1>10, SlotsTyped
  <2>2. Displaced(Groups, Trust, slot) = {x[3] : x \in Contends(Groups, slot) \ {w}}
    BY DEF Displaced
  <2> HIDE DEF w, op, slot
  <2> QED BY <1>10, <2>1, <2>2
<1>13. Fills(Templates, r, slot)
  BY <1>7, <1>8 DEF Fills
<1>14. g[3] \in {requests[n].origin : n \in Likes(r)}
  BY <1>5, <1>7
<1> HIDE DEF slot
<1> QED BY <1>10, <1>11, <1>12, <1>13, <1>14 DEF Documented, Slots

LEMMA CallsAreDocumented ==
  ASSUME ScanInv
  PROVE  EveryCallDocumented
<1> SUFFICES ASSUME Generated, job.opts.threshold <= 50
             PROVE  /\ \A id \in DOMAIN page : \A h \in 1..hop[id] :
                          ~Overwritten(id, h) /\ Meant(page[id][h]) /\ OnlyWebLike(page[id][h])
                             => Documented(Templates, page[id][h])
                    /\ \A k \in DOMAIN job.static :
                          Meant(job.static[k]) /\ OnlyWebLike(job.static[k])
                             => Documented(Templates, job.static[k])
  BY DEF EveryCallDocumented
<1>1. NetworkInv /\ NothingDropped
  BY DEF ScanInv, Generated
<1>2. ASSUME NEW id \in DOMAIN page, NEW h \in 1..hop[id], ~Overwritten(id, h)
      PROVE  \E i \in DOMAIN requests : Alike(requests[i], page[id][h])
  <2>1. hop[id] \in Nat
    <3>1. job \in Jobs /\ page = job.page /\ hop[id] \in 0..Len(page[id])
      BY <1>1 DEF NetworkInv, ScanInv
    <3>2. Len(page[id]) \in Nat
      BY <3>1, JobTyped
    <3> QED BY <3>1, <3>2
  <2>2. h = hop[id] /\ hop[id] # 0
    BY <1>2, <2>1 DEF Overwritten
  <2> QED BY <1>1, <2>2 DEF NothingDropped
<1>3. \A k \in DOMAIN job.static : \E i \in DOMAIN requests : Alike(requests[i], job.static[k])
  BY <1>1 DEF NothingDropped
<1>4. ASSUME NEW r, Meant(r), OnlyWebLike(r), \E i \in DOMAIN requests : Alike(requests[i], r)
      PROVE  Documented(Templates, r)
  BY <1>4, LikeCallsAreDocumented
<1> QED BY <1>2, <1>3, <1>4

\* No call the page had sent or a bundle meant for an API is lost, but for the
\* hops overwritten by a redirect: it is an operation, or named as displaced by
\* one.
THEOREM NoCallIsLost == Spec => []EveryCallDocumented
<1>1. ScanInv => EveryCallDocumented
  BY CallsAreDocumented
<1> QED BY <1>1, ScanInvariant, PTL
=============================================================================
