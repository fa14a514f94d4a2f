------------------------------ MODULE JsExtract ------------------------------
(***************************************************************************)
(* What pkg/analyze/jsstatic recovers from one JavaScript source: the      *)
(* endpoints of its call sites (extractor.go), the sourcemap of a bundle   *)
(* (sourcemap.go), the cap on the endpoints of a bundle (jsstatic.go) and  *)
(* the requests synthesised from them (synthesize.go).                     *)
(*                                                                         *)
(* A source is the sequence of its call sites, as the parser (jsluice)     *)
(* presents them.  A site says who finds it (`by'), the HTTP method it     *)
(* names ("" for none), its URL, the names of its template substitutions   *)
(* and the fields of its body.  A URL has a host ("" when relative), path  *)
(* segments, and a kind: "api", "filtered" (an asset or a non-HTTP         *)
(* scheme), "exprOnly" (nothing but substitutions) or "unsafe" (userinfo,  *)
(* an opaque part, a bad scheme or bytes that must not reach a spec).      *)
(***************************************************************************)
EXTENDS Capture

CONSTANTS MaxEndpointsPerBundle, \* endpoints kept from one bundle
          ConcatMinReserve,      \* slots a binding cap leaves to concat paths
          MaxBundleSize,         \* larger sources are not parsed
          FetchSourcemaps,       \* fetch a remote sourcemap
          AllowPrivate           \* accept private addresses

ASSUME ExtractConstants ==
    /\ {MaxEndpointsPerBundle, ConcatMinReserve, MaxBundleSize} \subseteq Nat \ {0}
    /\ {FetchSourcemaps, AllowPrivate} \subseteq BOOLEAN

Expr == <<"expr">>                 \* a dynamic segment the parser could not read
ConcatSentinel == <<"lit", "0">>   \* what a concat path has in its place
Least(S) == CHOOSE n \in S : \A m \in S : n <= m
Greatest(S) == CHOOSE n \in S : \A m \in S : n >= m

UnnamedParams == <<"param", "param1", "param2", "param3">>

-----------------------------------------------------------------------------
(* Endpoints of a source.                                                  *)

Dropped(url) == url.kind \in {"filtered", "exprOnly"}

\* The k-th dynamic segment takes the k-th token, then {param}, {param1}, ...
NormalizeEXPRPath(segs, tokens) ==
    LET nth(i) == Cardinality({j \in 1..i : segs[j] = Expr})
    IN  [i \in DOMAIN segs |->
            IF segs[i] # Expr THEN segs[i]
            ELSE <<"param", IF nth(i) <= Len(tokens) THEN tokens[nth(i)]
                            ELSE UnnamedParams[nth(i) - Len(tokens)]>>]

NormalURL(site) == [site.url EXCEPT !.segs = NormalizeEXPRPath(@, site.tokens)]

Endpoint(site, method, fields) ==
    [method |-> method, url |-> NormalURL(site), fields |-> fields, tag |-> "static:js"]

MethodOr(site, default) == IF site.method = "" THEN default ELSE site.method

\* The body of the last fetch of an endpoint that has one.  A fetch with a body
\* and no method counts as POST.
FetchBodyFields(src, method, url) ==
    LET calls == {i \in DOMAIN src : /\ src[i].by \in {"fetch", "template"}
                                     /\ src[i].fields # {}
                                     /\ MethodOr(src[i], "POST") = method
                                     /\ NormalURL(src[i]) = url}
    IN  IF calls = {} THEN {} ELSE src[Greatest(calls)].fields

AxiosCalls(src) ==
    Pick([i \in DOMAIN src |-> Endpoint(src[i], MethodOr(src[i], "GET"), src[i].fields)],
         {i \in DOMAIN src : src[i].by = "axios" /\ ~Dropped(src[i].url)})

FetchEndpoint(src, site) ==
    LET method == MethodOr(site, "GET")
    IN  Endpoint(site, method, FetchBodyFields(src, method, NormalURL(site)))

TemplateLiteralFetches(src) ==
    Pick([i \in DOMAIN src |-> FetchEndpoint(src, src[i])],
         {i \in DOMAIN src : src[i].by = "template" /\ ~Dropped(src[i].url)})

\* The parser reports a fetch that names a method twice, with and without it.
JsluiceMatches(src) ==
    FlattenSeq([i \in DOMAIN src |->
        IF src[i].by \notin {"fetch", "other"} THEN <<>>
        ELSE IF src[i].by = "fetch" /\ src[i].method # ""
        THEN <<src[i], [src[i] EXCEPT !.method = ""]>>
        ELSE <<src[i]>>])

\* The report without the method is dropped: it would become a GET nobody makes.
JsluiceEndpoints(src) ==
    LET matches == JsluiceMatches(src)
        named   == {m.url : m \in {n \in ToSet(matches) : n.by = "fetch" /\ n.method # ""}}
        kept(m) == ~Dropped(m.url) /\ ~(m.by = "fetch" /\ m.method = "" /\ m.url \in named)
    IN  Pick([i \in DOMAIN matches |-> FetchEndpoint(src, [matches[i] EXCEPT !.tokens = <<>>])],
             {i \in DOMAIN matches : kept(matches[i])})

\* The first endpoint of each (method, URL).
FirstSeen(eps) ==
    LET again(i) == \E j \in 1..(i - 1) : /\ eps[j].method = eps[i].method
                                          /\ eps[j].url = eps[i].url
    IN  Pick(eps, {i \in DOMAIN eps : ~again(i)})

\* Both extractors' spellings of one endpoint of one origin have the same key.
ConcatDedupKey(url, base) ==
    <<IF url.host = "" THEN base ELSE url.host,
      [i \in DOMAIN url.segs |->
        IF url.segs[i] = ConcatSentinel \/ url.segs[i][1] = "param"
        THEN <<"{}">> ELSE url.segs[i]]>>

ConcatEndpoints(src, base, ast) ==
    LET known == {ConcatDedupKey(ast[i].url, base) : i \in DOMAIN ast}
        new   == {i \in DOMAIN src : /\ src[i].by = "concat" /\ src[i].url.kind # "filtered"
                                     /\ src[i].url.host \in {"", base}
                                     /\ ConcatDedupKey(src[i].url, base) \notin known}
    IN  FirstSeen(Pick([i \in DOMAIN src |-> [method |-> "GET", url |-> src[i].url, fields |-> {},
                                              tag |-> "static:js-concat"]], new))

ExtractFromBundle(src, base) ==
    LET ast == FirstSeen(AxiosCalls(src) \o TemplateLiteralFetches(src)
                            \o JsluiceEndpoints(src))
    IN  ast \o ConcatEndpoints(src, base, ast)

-----------------------------------------------------------------------------
(* The cap, and the requests that are kept.                                *)

IsConcat(ep) == ep.tag = "static:js-concat"

AtMost(s, n) == IF Len(s) <= n THEN s ELSE SubSeq(s, 1, n)

Concats(eps) == Pick(eps, {i \in DOMAIN eps : IsConcat(eps[i])})
Parsed(eps) == Pick(eps, {i \in DOMAIN eps : ~IsConcat(eps[i])})

\* Mutant: the endpoints the parser read take the whole budget.
CapGreedily(eps, budget) ==
    LET ast == AtMost(Parsed(eps), budget)
    IN  ast \o AtMost(Concats(eps), budget - Len(ast))

\* A small floor for the speculative concat paths, the rest to the endpoints
\* the parser read, and what those leave unused back to the concat paths.
CapBundleEndpoints(eps, budget) ==
    LET floor == Least({Len(Concats(eps)), ConcatMinReserve, budget \div 2})
        ast   == AtMost(Parsed(eps), budget - floor)
    IN  ast \o AtMost(Concats(eps), budget - Len(ast))

Capped(eps, budget) ==
    IF Len(eps) > budget THEN CapBundleEndpoints(eps, budget) ELSE eps

Retag(eps, tag) ==
    [i \in DOMAIN eps |-> IF IsConcat(eps[i]) THEN eps[i] ELSE [eps[i] EXCEPT !.tag = tag]]

\* A relative URL takes the bundle's host.  An unsafe one is dropped here, once,
\* on the URL that would be emitted.
ToRequests(eps, base) ==
    LET request(ep) == Observed(ep.method, IF ep.url.host = "" THEN base ELSE ep.url.host,
                                ep.url.segs, NoQuery, "", [f \in ep.fields |-> <<"null">>],
                                ep.tag, NoResponse)
    IN  Pick([i \in DOMAIN eps |-> request(eps[i])],
             {i \in DOMAIN eps : eps[i].url.kind # "unsafe"})

-----------------------------------------------------------------------------
(* The sourcemap a bundle names: its sources, or how recovery ended.       *)

NoMap == [sources |-> <<>>, failed |-> 0, recovered |-> 0]
MapFailed == [NoMap EXCEPT !.failed = 1]
MapRead(sources) ==
    [sources |-> sources, failed |-> 0, recovered |-> IF sources = <<>> THEN 0 ELSE 1]

\* A remote map is fetched from the bundle's own origin only, and a fetch may
\* always fail.
RecoverSourcemap(bundle, ctxDone) ==
    LET map  == bundle.map
        read == IF map.valid THEN MapRead(map.sources) ELSE MapFailed
    IN  CASE map.ref = "none" -> {NoMap}
          [] map.ref = "data" -> {read}
          [] OTHER ->
                IF ~FetchSourcemaps \/ map.host # bundle.host THEN {NoMap}
                ELSE IF (map.private /\ ~AllowPrivate) \/ ctxDone THEN {MapFailed}
                ELSE {MapFailed, read}
=============================================================================
