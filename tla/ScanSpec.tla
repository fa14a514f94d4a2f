------------------------------ MODULE ScanSpec ------------------------------
(***************************************************************************)
(* From the traffic of a page to its OpenAPI document: the capture, the    *)
(* requests the offline analysis adds, and ResolveAndGenerate              *)
(* (internal/pipeline/resolve_generate.go and pipeline.go) for the REST    *)
(* generator.                                                              *)
(*                                                                         *)
(* A job has the exchanges of the page, the requests reconstructed from    *)
(* bundles, whether they come from several workers, and the options of the *)
(* scan: whether a target URL is pinned, and target, its origin, 0 if it    *)
(* has none.                                                               *)
(***************************************************************************)
EXTENDS NetworkCapture, OpenApi

CONSTANT Jobs

RequestFields == {"method", "web", "origin", "path", "raw", "query", "accept", "ctype", "soap",
                  "body", "source", "resp"}

IsRequest(r) ==
    /\ DOMAIN r = RequestFields
    /\ {r.origin, r.raw, r.body} \subseteq Nat
    /\ IsSeq(r.path) /\ ToSet(r.path) \subseteq ToSet(Words)
    /\ r.resp \in [status : Nat, ctype : ToSet(MediaTypes), body : Nat]

\* The browser's requests are answered with a status; what the offline analysis
\* reconstructs was never sent.
ASSUME ScanJobs ==
    \A j \in Jobs :
        /\ IsSeq(j.page) /\ IsSeq(j.static)
        /\ \A id \in DOMAIN j.page : IsSeq(j.page[id]) /\ j.page[id] # <<>> /\ \A h \in DOMAIN j.page[id] :
              LET r == j.page[id][h]
              IN  IsRequest(r) /\ ~IsJSStaticSource(r.source) /\ r.resp.status > 0
        /\ \A i \in DOMAIN j.static :
              LET r == j.static[i]
              IN  IsRequest(r) /\ IsJSStaticSource(r.source) /\ r.resp = Unanswered
        /\ {j.opts.target, j.opts.threshold} \subseteq Nat
        /\ j.opts.pinned \in BOOLEAN /\ (j.opts.target # 0 => j.opts.pinned)

VARIABLES
    job,       \* what the page sends, what its bundles name, and the options
    requests,  \* the capture, with what was added to it
    apiType,   \* the type generated, "" until it is resolved
    entries,   \* the deduplicated endpoints
    document   \* the result

vars == <<networkVars, job, requests, apiType, entries, document>>

Init ==
    /\ job \in Jobs
    /\ NetworkInit({job.page})
    /\ requests = <<>> /\ apiType = "" /\ entries = <<>> /\ document = NoDocument

Capturing == NetworkNext /\ UNCHANGED <<job, requests, apiType, entries, document>>

\* The results of the page, then what the workers of the offline analysis
\* found, in the order they finished.
Collect(captured, found) ==
    /\ Results(captured)
    /\ requests' = Reported(captured) \o [i \in DOMAIN found |-> job.static[found[i]]]
    /\ UNCHANGED <<job, apiType, entries, document>>

looksLikeHTML(body) == body # 0 /\ "html" \in Bodies[body].marks

\* A pinned target, even one that is no origin; without one the first page of
\* the capture, else its first request.
ResolveTargetOrigin(opts, reqs) ==
    LET located == {i \in DOMAIN reqs : reqs[i].origin # 0}
        pages == {i \in located : \/ reqs[i].resp.ctype = "text/html"
                                  \/ looksLikeHTML(reqs[i].resp.body)}
        first(I) == CHOOSE i \in I : \A j \in I : i <= j
    IN  IF opts.pinned THEN opts.target
        ELSE IF pages # {} THEN reqs[first(pages)].origin
        ELSE IF located # {} THEN reqs[first(located)].origin ELSE 0

Endpoints(type, reqs) ==
    LET classified == RunClassifiers(type, reqs, job.opts.threshold)
    IN  IF job.opts.deduplicate THEN Deduplicate(classified) ELSE classified

ResolvedType(reqs) ==
    IF job.opts.apiType = "auto" THEN DetectAPIType(reqs, job.opts.threshold) ELSE job.opts.apiType

Specification(reqs) ==
    Generate(Endpoints("rest", reqs), ResolveTargetOrigin(job.opts, reqs), job.opts.normalize)

ResolveAndGenerate ==
    /\ taken /\ apiType = ""
    /\ apiType' = ResolvedType(requests)
    /\ entries' = Endpoints(apiType', requests)
    /\ document' = IF apiType' = "rest" THEN Specification(requests) ELSE NoDocument
    /\ UNCHANGED <<networkVars, job, requests>>

Next ==
    \/ Capturing
    \/ ResolveAndGenerate
    \/ \E captured \in Orders(DOMAIN pending), found \in Orders(DOMAIN job.static) :
           Collect(captured, found)

Spec == Init /\ [][Next]_vars

-----------------------------------------------------------------------------
(* What the document owes to the traffic.                                  *)

Generated == apiType = "rest"

Slots == DOMAIN document.operations

Templates ==
    NormalizePathsWithNames({r.path : r \in {e \in ToSet(entries) : e.web}}, job.opts.normalize)

Fills(templates, r, slot) == r.path \in DOMAIN templates /\ <<templates[r.path], r.method>> = slot

\* The requests deduplicated into one entry with r.
Likes(r) == {j \in DOMAIN requests : DedupKey(requests[j]) = DedupKey(r)}

OnTheWire == {i \in DOMAIN requests : ~IsJSStaticSource(requests[i].source)}

\* The requests the classification leaves, and those of them one entry stands for.
Kept == {i \in DOMAIN requests : ClassifyAs("rest", requests[i]).confidence >= job.opts.threshold}
OneWith(i) == IF job.opts.deduplicate THEN Likes(requests[i]) \cap Kept ELSE {i}

\* A status is documented where the server gave it to a request for that
\* endpoint, or as the default 200 of an entry none of whose requests was
\* seen answered (preferredResponse and Responses on half-captured entries).
DocumentedStatusWasSeen ==
    Generated => \E templates \in {Templates} :
      \A slot \in Slots : \A status \in DOMAIN document.operations[slot].responses :
        \E i \in DOMAIN requests :
            /\ Fills(templates, requests[i], slot)
            /\ \/ \E id \in DOMAIN page : \E h \in DOMAIN page[id] :
                     /\ page[id][h].path = requests[i].path /\ page[id][h].method = slot[2]
                     /\ page[id][h].resp.status = status
               \/ /\ status = 200
                  /\ \A j \in OneWith(i) : requests[j].resp.status = 0

\* Without a pinned target the first located request names the document, and
\* that is one of a bundle when nothing located came over the wire.
Located == job.opts.target # 0 \/ \E i \in OnTheWire : requests[i].origin # 0

\* An origin the run cannot vouch for, named by a bundle only or unknown, never
\* takes a slot that an entry seen on the wire, or the origin the document is
\* named after, claims; it is served under its own server and never under the
\* global ones, which are the target or were on the wire (trustRank,
\* extractServers, buildOperation).
UnvouchedNeverWins ==
    Generated =>
        /\ \A slot \in Slots :
              LET op == document.operations[slot]
                  wire == {e \in ToSet(entries) : ~IsJSStaticSource(e.source)}
                  vouched == ({e.origin : e \in wire} \cup {document.title}) \ {0}
              IN  /\ op.collisions \cap vouched # {} => op.origin \in vouched
                  /\ op.origin \notin vouched \cup {0} => op.servers = {op.origin}
        /\ Located => ToSet(document.servers) \subseteq
                          ({requests[i].origin : i \in OnTheWire} \cup {job.opts.target}) \ {0}

\* Calls of an API, told by the request alone.
Meant(r) ==
    /\ r.origin # 0 /\ r.method \in ToSet(Methods) /\ pathIsAPI(r.path)
    /\ ~endsIn(r.path, "asset") /\ ~within(r.path, {"static dir"})
    /\ \/ r.method \in {"POST", "PUT", "PATCH", "DELETE"}
       \/ acceptSignalsAPI(r.accept)
       \/ IsJSStaticSource(r.source)

\* A request of another scheme that was seen first would stand for this one.
OnlyWebLike(r) == \A j \in Likes(r) : requests[j].web

\* It is an operation, under an origin that shares its deduplication key, or
\* that origin is named as displaced by one.
Documented(templates, r) ==
    \E slot \in Slots :
        LET op == document.operations[slot]
            shared == {requests[j].origin : j \in Likes(r)}
        IN  Fills(templates, r, slot) /\ shared \cap ({op.origin} \cup op.collisions) # {}

\* A redirect reuses the id of its exchange, so the entry of the hop before is
\* lost (network.go:77).
Overwritten(id, h) == h < hop[id]

\* Every call the page had sent to an API when the results were taken, answered
\* or not, but for the hops overwritten by their redirect, and every API path
\* of a bundle is documented, up to the default threshold (Results,
\* request-side signal, static floor, dedup, collisions).
EveryCallDocumented ==
    (Generated /\ job.opts.threshold <= 50) =>
      \E templates \in {Templates} :
        LET owed(r) == Meant(r) /\ OnlyWebLike(r) => Documented(templates, r)
        IN  /\ \A id \in DOMAIN page : \A h \in 1..hop[id] :
                  ~Overwritten(id, h) => owed(page[id][h])
            /\ \A k \in DOMAIN job.static : owed(job.static[k])

\* A schema that was moved to a component is described by the component it
\* refers to: the same properties of the same types (extractComponents).
RefsDescribeTheirSchema ==
    Generated => \A at \in DOMAIN document.refs :
        LET op == document.operations[at[1]]
            inline == IF at[2] = "request" THEN op.bodies[at[3]] ELSE op.responses[at[3]]
        IN  /\ document.refs[at] \in DOMAIN document.schemas
            /\ Fingerprint(document.schemas[document.refs[at]]) = Fingerprint(inline)

\* One order of the same requests: captured before static, as Collect has them.
RequestKey(r) ==
    [i \in DOMAIN r.path |-> IndexIn(Words, r.path[i])]
        \o <<0, r.origin, r.raw, r.body, IndexIn(Methods, r.method)>> \o ResponseKey(r.resp)
        \o <<IndexIn(<<"browser", "static:js", "static:js-concat", "static:js-sourcemap">>, r.source)>>

Canonical ==
    LET part(static) == SelectSeq(requests, LAMBDA r : IsJSStaticSource(r.source) = static)
        by(a, b) == Before(RequestKey(a), RequestKey(b))
    IN  SortSeq(part(FALSE), by) \o SortSeq(part(TRUE), by)

Outline(d) ==
    [servers |-> d.servers, title |-> d.title,
     operations |-> [slot \in DOMAIN d.operations |->
        LET op == d.operations[slot]
        IN  [origin |-> op.origin, servers |-> op.servers, query |-> op.query,
             parameters |-> op.parameters, bodies |-> op.bodies,
             statuses |-> DOMAIN op.responses, collisions |-> op.collisions]]]

\* Deduplication drops the host and cuts the values of a query key: what
\* follows is about captures that saw an endpoint on one origin, with no more
\* values of a key than are kept.
OneOriginEach ==
    \A i \in DOMAIN requests : \A j \in Likes(requests[i]) :
        IsJSStaticSource(requests[i].source) = IsJSStaticSource(requests[j].source)
            => requests[i].origin = requests[j].origin

WithinQueryCap ==
    \A i \in DOMAIN requests : \A k \in DOMAIN requests[i].query :
        Cardinality(UNION {ToSet(requests[j].query[k]) : j \in {n \in Likes(requests[i]) : k \in DOMAIN requests[n].query}})
            <= MaxQueryParamValues

\* The order in which traffic was captured and bundles were analysed decides
\* neither which operations are documented, with which origin, parameters,
\* bodies and statuses, nor how sure the classification of each is
\* (classifier.go: "regardless of the order in which duplicate observations
\* were captured").
SameOutlineInAnyOrder ==
    (Generated /\ OneOriginEach /\ WithinQueryCap /\ job.opts.target # 0) =>
        /\ Outline(document) = Outline(Specification(Canonical))
        /\ {[key |-> DedupKey(e), confidence |-> e.confidence, reason |-> e.reason] : e \in ToSet(entries)}
             = {[key |-> DedupKey(e), confidence |-> e.confidence, reason |-> e.reason] :
                   e \in ToSet(Endpoints("rest", Canonical))}

\* "identical input traffic yields the same endpoint set, the same
\* classification, and a byte-identical spec every run" (README.md:298)
IdenticalSpecEveryRun == Generated => document = Specification(Canonical)
=============================================================================
