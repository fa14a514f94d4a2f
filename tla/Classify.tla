------------------------------ MODULE Classify ------------------------------
(***************************************************************************)
(* Classification and deduplication of observed requests (pkg/classify)    *)
(* and the choice of the API type (internal/pipeline/apitype.go).          *)
(*                                                                         *)
(* A request has the fields method, web (an http or https URL), origin (a  *)
(* number in the order of the names, 0 for a URL without host), path, raw  *)
(* (its query string, a number in byte order, 0 for none), query, accept   *)
(* (a set of media types), ctype, soap (the SOAPAction header, 0 for none),*)
(* body, source and resp = [status, ctype, body].  Confidences are in      *)
(* percent.                                                                *)
(***************************************************************************)
EXTENDS Capture, Normalize, BodySchema

CONSTANT WSDLQueries  \* query strings that contain "wsdl"

MediaTypes == <<"", "application/json", "application/soap+xml", "application/xml",
                "application/x-www-form-urlencoded", "multipart/form-data", "text/html", "text/xml">>
APITypes == {"application/json", "application/xml", "text/xml"}

Signals == <<"content-type", "graphql-body", "graphql-path", "graphql-response", "method",
             "path-heuristic", "request-signal", "response-structure", "soap-content-type",
             "soap-envelope", "soapaction-header", "static-js-candidate", "wsdl-url">>

IndexIn(s, x) == CHOOSE i \in DOMAIN s : s[i] = x

\* Lexicographic order of sequences, given that of their elements.
Lexicographic(x, y, less(_, _)) ==
    \E i \in DOMAIN y : /\ \A j \in 1..(i - 1) : j \in DOMAIN x /\ x[j] = y[j]
                        /\ i \notin DOMAIN x \/ less(x[i], y[i])

Before(x, y) == Lexicographic(x, y, <)

MaxOf(S) == CHOOSE n \in S : \A m \in S : m <= n

Verdict(apiType, confidence, reason) ==
    [apiType |-> apiType, confidence |-> confidence, reason |-> reason]
NoVerdict == Verdict("", 0, <<>>)

-----------------------------------------------------------------------------
(* Classifiers.                                                            *)

endsIn(path, trait) == path # <<>> /\ trait \in Traits[path[Len(path)]]
within(path, traits) == \E i \in 1..(Len(path) - 1) : Traits[path[i]] \cap traits # {}

pathIsAPI(path) == within(path, {"api dir", "version"}) \/ \E i \in DOMAIN path : "graphql" \in Traits[path[i]]

\* A header that also accepts a document is a navigation.
acceptSignalsAPI(accept) == accept \cap APITypes # {} /\ accept \cap {"text/html", "application/xhtml+xml"} = {}

startsJSON(body) == body # 0 /\ Bodies[body].first \in {"{", "["}

\* Mutant: the rule asks for an answer.
requestSignalAnswered(r) == pathIsAPI(r.path) /\ acceptSignalsAPI(r.accept) /\ r.resp.status > 0

\* Rule 6: the request alone shows that it is meant for an API.
requestSignal(r) ==
    /\ pathIsAPI(r.path)
    /\ acceptSignalsAPI(r.accept) \/ (r.ctype \in APITypes /\ r.ctype # r.resp.ctype)

RESTClassify(r) ==
    LET scores == [s \in {"method", "response-structure", "request-signal"} |->
                      CASE s = "method" -> IF r.method \in {"POST", "PUT", "PATCH", "DELETE"} THEN 70 ELSE 0
                        [] s = "response-structure" -> IF startsJSON(r.resp.body) THEN 85 ELSE 0
                        [] s = "request-signal" -> IF requestSignal(r) THEN 60 ELSE 0]
        typed == r.resp.ctype \in APITypes
        base == (IF typed THEN 80 ELSE 0) + (IF pathIsAPI(r.path) THEN 15 ELSE 0)
        heard == MaxOf({base} \cup Range(scores))
        floored == pathIsAPI(r.path) /\ heard < 50 /\ IsJSStaticSource(r.source)
        fired(s) == CASE s = "content-type"   -> typed
                      [] s = "path-heuristic" -> pathIsAPI(r.path)
                      [] s = "static-js-candidate" -> floored
                      [] OTHER -> scores[s] > 0
    IN  IF endsIn(r.path, "asset") \/ within(r.path, {"static dir"}) THEN NoVerdict
        ELSE Verdict("rest", IF floored THEN 50 ELSE heard,
                     SelectSeq(<<"content-type", "path-heuristic", "method", "response-structure",
                                 "request-signal", "static-js-candidate">>, fired))

GraphQLClassify(r) ==
    LET path == \E i \in DOMAIN r.path : "graphql" \in Traits[r.path[i]]
        body == r.method = "POST" /\ r.body # 0 /\ "query" \in Bodies[r.body].marks
        value == Bodies[r.resp.body].json
        answer == /\ path \/ body
                  /\ r.resp.body # 0 /\ r.resp.ctype = "application/json"
                  /\ value.t = "object" /\ DOMAIN value.props \cap {"data", "errors"} # {}
        fired(s) == (s = "graphql-path" /\ path) \/ (s = "graphql-body" /\ body)
                       \/ (s = "graphql-response" /\ answer)
    IN  IF endsIn(r.path, "asset") \/ ~(path \/ body) THEN NoVerdict
        ELSE Verdict("graphql", CASE path /\ body -> 95 [] body /\ ~path -> 85
                                  [] path /\ ~body -> IF answer THEN 80 ELSE 70,
                     SelectSeq(<<"graphql-path", "graphql-body", "graphql-response">>, fired))

WSDLClassify(r) ==
    LET fired(s) ==
          CASE s = "soapaction-header" -> r.soap # 0
            [] s = "soap-envelope"     -> r.body # 0 /\ "envelope" \in Bodies[r.body].marks
            [] s = "wsdl-url"          -> r.raw \in WSDLQueries \/ endsIn(r.path, "wsdl")
            [] s = "soap-content-type" -> r.resp.ctype \in {"text/xml", "application/soap+xml"}
        reason == SelectSeq(<<"soapaction-header", "soap-envelope", "wsdl-url", "soap-content-type">>, fired)
        feed == r.resp.body # 0 /\ "feed" \in Bodies[r.resp.body].marks
    IN  IF endsIn(r.path, "asset") \/ reason = <<>> THEN NoVerdict
        ELSE Verdict("wsdl", CASE reason[1] = "soapaction-header" -> 95
                               [] reason[1] \in {"soap-envelope", "wsdl-url"} -> 90
                               [] reason[1] = "soap-content-type" -> IF feed THEN 30 ELSE 85, reason)

ClassifyAs(apiType, r) == CASE apiType = "rest"    -> RESTClassify(r)
                            [] apiType = "graphql" -> GraphQLClassify(r)
                            [] apiType = "wsdl"    -> WSDLClassify(r)

\* Ties favour GraphQL, then WSDL.
DetectAPIType(requests, threshold) ==
    LET count(type) == Cardinality({i \in DOMAIN requests :
                          LET v == ClassifyAs(type, requests[i]) IN v.confidence > 0 /\ v.confidence >= threshold})
    IN  CASE count("graphql") > 0 /\ count("graphql") >= count("wsdl")
                /\ count("graphql") >= count("rest") -> "graphql"
          [] count("graphql") = 0 \/ count("graphql") < count("wsdl") \/ count("graphql") < count("rest") ->
                IF count("wsdl") > 0 /\ count("wsdl") >= count("rest") THEN "wsdl" ELSE "rest"

\* Which keys had several values in one request is noted before any merge.
RunClassifiers(apiType, requests, threshold) ==
    LET judged == [i \in DOMAIN requests |->
                      Joined(Joined(requests[i], ClassifyAs(apiType, requests[i])),
                             [multi |-> {k \in DOMAIN requests[i].query : Len(requests[i].query[k]) > 1}])]
    IN  Pick(judged, {i \in DOMAIN judged : judged[i].confidence >= threshold})

-----------------------------------------------------------------------------
(* Deduplicate.                                                            *)

MergeUniqueOrdered(a, b) ==
    LET all == a \o b
        firsts == {i \in DOMAIN all : \A j \in 1..(i - 1) : all[j] # all[i]}
        kept == {i \in firsts : Cardinality({j \in firsts : j < i}) < MaxQueryParamValues}
    IN  [n \in 1..Cardinality(kept) |-> all[CHOOSE i \in kept : Cardinality({j \in kept : j <= i}) = n]]

responsePopulated(resp) == resp.status > 0 \/ resp.body # 0 \/ resp.ctype # ""

ResponseKey(resp) == <<resp.status, IndexIn(MediaTypes, resp.ctype), resp.body>>

preferredResponse(a, b) ==
    IF responsePopulated(a) # responsePopulated(b) THEN IF responsePopulated(b) THEN b ELSE a
    ELSE IF Before(ResponseKey(b), ResponseKey(a)) THEN b ELSE a

\* The host is no part of the key, a multipart boundary no part of the body.
DedupKey(r) ==
    <<r.method, r.path, r.soap, IF r.body = 0 THEN "" ELSE r.ctype,
      IF r.body # 0 /\ r.ctype = "multipart/form-data" THEN Bodies[r.body].same ELSE r.body>>

ReasonKey(c) == [i \in DOMAIN c.reason |-> IndexIn(Signals, c.reason[i])]

\* Mutant: of two equally confident observations the first explains the entry.
BetterStrictly(new, old) == new.confidence > old.confidence

\* Only classifiers of one API type run, so the reason alone breaks a tie.
Better(new, old) ==
    \/ new.confidence > old.confidence
    \/ new.confidence = old.confidence /\ Before(ReasonKey(old), ReasonKey(new))

\* The first observation is the entry's; later ones add to it.
MergeInto(entry, new) ==
    LET values(q, k) == IF k \in DOMAIN q THEN q[k] ELSE <<>>
        judged == IF Better(new, entry) THEN new ELSE entry
    IN  [entry EXCEPT
            !.query = [k \in DOMAIN entry.query \cup DOMAIN new.query |->
                          MergeUniqueOrdered(values(entry.query, k), values(new.query, k))],
            !.multi = entry.multi \cup new.multi,
            !.confidence = judged.confidence,
            !.reason = judged.reason,
            !.apiType = judged.apiType,
            !.resp = preferredResponse(entry.resp, new.resp)]

Admit(seen, new) ==
    LET at == {i \in DOMAIN seen : DedupKey(seen[i]) = DedupKey(new)}
    IN  IF at = {} THEN Append(seen, new)
        ELSE [i \in DOMAIN seen |-> IF i \in at THEN MergeInto(seen[i], new) ELSE seen[i]]

Deduplicate(classified) == FoldLeft(Admit, <<>>, classified)
=============================================================================
