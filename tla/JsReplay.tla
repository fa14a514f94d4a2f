------------------------------ MODULE JsReplay ------------------------------
(***************************************************************************)
(* JS replay (ReplayJSExtracted, pkg/crawl/jsreplay.go): fetch again the   *)
(* bundles a capture holds cut or empty, fetch those its pages name, probe *)
(* the API paths of all of them on the target, and drop the reconstructed  *)
(* requests whose path the target refutes with a 404.                      *)
(*                                                                         *)
(* The servers answer as they like.  One deadline bounds the whole step;   *)
(* it may pass at any point, after which no request gets through.          *)
(***************************************************************************)
EXTENDS Capture, JsScan

CONSTANTS Inputs,           \* configuration, capture and the body of its bundle
          Sources,          \* the bodies the bundles have
          Scripts,          \* the script URLs of a page, by body
          Served,           \* what a script URL serves
          RedirectTargets,  \* where a server may redirect a fetch to
          PrivateOrigins,   \* origins at private addresses
          MaxEndpoints,     \* probes per replay
          MaxJSRedirects    \* redirects followed per bundle

ASSUME ReplayConstants ==
    /\ MaxEndpoints \in Nat \ {0} /\ MaxJSRedirects \in Nat
    /\ PrivateOrigins \subseteq Origins
    /\ \A in \in Inputs : /\ in.cfg.target \in Origins \cup {"", "bad"}
                          /\ in.capture \in Seq(ToSet(in.capture)) /\ in.source \in Sources
    /\ \A url \in DOMAIN Served : Served[url] \in Sources
    /\ Sources \subseteq Seq(STRING)

VARIABLES
    cfg,       \* target (an origin, "" or unusable), cross (AllowCrossOrigin), private
    requests,  \* the capture
    source,    \* the body of its bundle
    step,      \* "start", "captured", "scripts", "fetch", "probe" or "done"
    at,        \* the next captured request
    seen,      \* bundle URLs taken up
    fetch,     \* the fetch in progress
    paths,     \* API paths found
    queue,     \* those still to probe, in their fixed order
    probed,    \* probes attempted
    refuted,   \* path keys answered with a 404
    result,    \* the requests returned
    sent,      \* requests that went out, and whether with the user's headers
    recorded,  \* the same for the requests in the result
    expired    \* the deadline has passed

vars == <<cfg, requests, source, step, at, seen, fetch, paths, queue, probed, refuted,
          result, sent, recorded, expired>>

NoFetch == [url |-> [host |-> "", path |-> <<>>], hop |-> 0, fallback |-> <<>>, back |-> "start"]

Init ==
    /\ \E in \in Inputs : cfg = in.cfg /\ requests = in.capture /\ source = in.source
    /\ step = "start" /\ at = 1 /\ seen = {} /\ fetch = NoFetch /\ paths = {}
    /\ queue = <<>> /\ probed = 0 /\ refuted = {} /\ result = <<>>
    /\ sent = {} /\ recorded = {} /\ expired = FALSE

-----------------------------------------------------------------------------
(* Origins and gates.                                                      *)

IsHTML(r) == r.resp.ctype = "html"

FirstHost(rs) == IF rs = <<>> THEN "" ELSE rs[1].host

\* A pinned target that is no origin does not fall back to the capture.
ResolveTargetOrigin(target, rs) ==
    CASE target = "bad" -> ""
      [] target \notin {"", "bad"} -> target
      [] OTHER -> LET pages == SelectSeq(rs, IsHTML)
                  IN  IF pages # <<>> THEN FirstHost(pages) ELSE FirstHost(rs)

TargetOrigin == ResolveTargetOrigin(cfg.target, requests)

SameOrigin(url) == url.host = TargetOrigin

\* Resolving a name fails once the deadline has passed.
PassesSSRF(url) == cfg.private \/ (url.host \notin PrivateOrigins /\ ~expired)

\* Mutant: a redirect is followed without asking the gates again.
CanFetchFirst(url) == fetch.hop > 0 \/ ((cfg.cross \/ SameOrigin(url)) /\ PassesSSRF(url))

CanFetchURL(url) == (cfg.cross \/ SameOrigin(url)) /\ PassesSSRF(url)

\* The user's headers go to the target's own origin only.
Exchange(url) == [url |-> url, headers |-> SameOrigin(url)]

DoRequest(url) == sent' = IF expired THEN sent ELSE sent \cup {Exchange(url)}

-----------------------------------------------------------------------------
(* Finding the bundles.                                                    *)

URLOf(r) == [host |-> r.host, path |-> r.path]
IsJS(r) == (r.path # <<>> /\ Last(r.path) = "app.js") \/ r.resp.ctype = "js"

\* What the crawl kept of a body above its size limit.
CutBody(src) == SubSeq(src, 1, Len(src) \div 2)

\* The paths of every body a scan may be given.
PathsOf ==
    [src \in Sources \cup {CutBody(s) : s \in Sources} \cup {<<>>} |-> ExtractAPIPaths(src)]

ScriptURLs == UNION {ToSet(Scripts[requests[i].resp.body]) :
                        i \in {j \in DOMAIN requests : IsHTML(requests[j])}}

Start ==
    /\ step = "start"
    /\ IF TargetOrigin = "" THEN step' = "done" /\ result' = requests
       ELSE step' = "captured" /\ UNCHANGED result
    /\ UNCHANGED <<cfg, requests, source, at, seen, fetch, paths, queue, probed, refuted, sent,
                   recorded, expired>>

\* A body that is empty or cut is fetched again; the cut one is kept in case
\* the fetch brings nothing.
ScanCaptured ==
    LET r      == requests[at]
        body   == IF r.resp.body = NoBody THEN <<>> ELSE source
        cut    == r.resp.body = <<"cut">>
        prefix == IF cut THEN CutBody(source) ELSE body
    IN
    /\ step = "captured" /\ at <= Len(requests)
    /\ IF ~IsJS(r) THEN at' = at + 1 /\ UNCHANGED <<seen, fetch, paths, step>>
       ELSE /\ seen' = seen \cup {URLOf(r)}
            /\ at' = at + 1
            /\ IF body # <<>> /\ ~cut
               THEN paths' = paths \cup PathsOf[body] /\ UNCHANGED <<fetch, step>>
               ELSE /\ fetch' = [url |-> URLOf(r), hop |-> 0, fallback |-> prefix,
                                 back |-> "captured"]
                    /\ step' = "fetch" /\ UNCHANGED paths
    /\ UNCHANGED <<cfg, requests, source, queue, probed, refuted, result, sent, recorded, expired>>

ScanScripts ==
    /\ step = "captured" /\ at > Len(requests)
    /\ step' = "scripts"
    /\ UNCHANGED <<cfg, requests, source, at, seen, fetch, paths, queue, probed, refuted, result,
                   sent, recorded, expired>>

\* The scripts of the pages come out of a map: in any order.
FetchScript ==
    /\ step = "scripts"
    /\ \E url \in ScriptURLs \ seen :
          /\ seen' = seen \cup {url}
          /\ fetch' = [url |-> url, hop |-> 0, fallback |-> <<>>, back |-> "scripts"]
    /\ step' = "fetch"
    /\ UNCHANGED <<cfg, requests, source, at, paths, queue, probed, refuted, result, sent,
                   recorded, expired>>

ServedBody(url) == IF url \in DOMAIN Served THEN Served[url] ELSE source

Process(body) ==
    /\ paths' = paths \cup PathsOf[body]
    /\ step' = fetch.back /\ fetch' = NoFetch

\* Mutant: a redirect starts the fetch anew.
FollowAnew(url) == [fetch EXCEPT !.url = url]

Follow(url) == [fetch EXCEPT !.url = url, !.hop = @ + 1]

\* One hop of a fetch: refused by a gate, failed (an error, a status of 400 or
\* more, HTML), read, possibly empty, or redirected, which is followed within
\* the limit.  What was read replaces even a cut body that held more.
FetchHop ==
    /\ step = "fetch"
    /\ IF ~CanFetchURL(fetch.url) THEN Process(fetch.fallback) /\ UNCHANGED sent
       ELSE /\ DoRequest(fetch.url)
            /\ \/ Process(fetch.fallback)
               \/ ~expired /\ \E body \in {<<>>, ServedBody(fetch.url)} : Process(body)
               \/ /\ ~expired
                  /\ \E url \in RedirectTargets :
                        IF fetch.hop = MaxJSRedirects THEN Process(fetch.fallback)
                        ELSE fetch' = Follow(url) /\ UNCHANGED <<paths, step>>
    /\ UNCHANGED <<cfg, requests, source, at, seen, queue, probed, refuted, result, recorded,
                   expired>>

-----------------------------------------------------------------------------
(* Probing.                                                                *)

StartProbes ==
    /\ step = "scripts" /\ ScriptURLs \subseteq seen
    /\ queue' = SetToSeq(paths)
    /\ result' = requests
    /\ step' = IF paths = {} THEN "done" ELSE "probe"
    /\ UNCHANGED <<cfg, requests, source, at, seen, fetch, paths, probed, refuted, sent, recorded,
                   expired>>

FullURL(path) ==
    IF IsFullURL(path) THEN [host |-> path[1], path |-> Tail(path)]
    ELSE [host |-> TargetOrigin, path |-> path]

\* Mirrors are matched by path, whatever the origin of either side.
ReachedPathKey(url) == TrimSlash(url.path)

Gated(url) == ~(cfg.cross \/ SameOrigin(url)) \/ ~PassesSSRF(url)

Extracted(url) == Observed("GET", url.host, url.path, NoQuery, "", NoBody, "js-extract",
                           [status |-> 200, ctype |-> "json", body |-> NoBody])

\* Mutant: a refused path is counted.
SpentOnAny(url) == probed + 1

Spent(url) == IF Gated(url) THEN probed ELSE probed + 1

\* A path a gate refuses does not count against the budget.  A probe without an
\* answer does.
Probe ==
    LET url == FullURL(Head(queue)) IN
    /\ step = "probe" /\ queue # <<>> /\ probed < MaxEndpoints
    /\ queue' = Tail(queue)
    /\ probed' = Spent(url)
    /\ IF Gated(url) THEN UNCHANGED <<refuted, result, sent, recorded>>
       ELSE /\ DoRequest(url)
            /\ \/ UNCHANGED <<refuted, result, recorded>>
               \/ /\ ~expired
                  /\ refuted' = refuted \cup {ReachedPathKey(url)}
                  /\ UNCHANGED <<result, recorded>>
               \/ /\ ~expired
                  /\ result' = Append(result, Extracted(url))
                  /\ recorded' = recorded \cup {Exchange(url)}
                  /\ UNCHANGED refuted
    /\ UNCHANGED <<cfg, requests, source, step, at, seen, fetch, paths, expired>>

\* Mutant: a literal call site falls to a 404 as well.
SupersedeAll(rs) ==
    Pick(rs, {i \in DOMAIN rs : rs[i].source \in {"static:js-concat", "static:js"}
                                  => ReachedPathKey(URLOf(rs[i])) \notin refuted})

\* Only a reconstructed path falls to a 404: a literal call site may be behind
\* authentication.
Supersede(rs) ==
    Pick(rs, {i \in DOMAIN rs : rs[i].source = "static:js-concat"
                                  => ReachedPathKey(URLOf(rs[i])) \notin refuted})

Finish ==
    /\ step = "probe" /\ (queue = <<>> \/ probed >= MaxEndpoints)
    /\ result' = Supersede(result)
    /\ step' = "done"
    /\ UNCHANGED <<cfg, requests, source, at, seen, fetch, paths, queue, probed, refuted, sent,
                   recorded, expired>>

Expire ==
    /\ ~expired /\ step \notin {"start", "done"}
    /\ expired' = TRUE
    /\ UNCHANGED <<cfg, requests, source, step, at, seen, fetch, paths, queue, probed, refuted,
                   result, sent, recorded>>

Replay == Start \/ ScanCaptured \/ ScanScripts \/ FetchScript \/ FetchHop \/ StartProbes \/ Probe
            \/ Finish

Done == step = "done" /\ UNCHANGED vars

Next == Replay \/ Expire \/ Done

\* One goroutine; every request has a timeout of its own.
Spec == Init /\ [][Next]_vars /\ WF_vars(Replay)

-----------------------------------------------------------------------------
(* What replay promises.                                                   *)

\* Whatever a bundle holds and a server redirects to, a request leaves only for
\* where the two gates allow it, the user's headers only for the target's
\* origin, and a request is recorded with the headers it was sent with
\* (canFetchURL on every hop, the gates of the probe loop, doRequest).
HeadersStayHome ==
    /\ \A s \in sent : /\ s.headers <=> s.url.host = TargetOrigin
                       /\ cfg.cross \/ s.url.host = TargetOrigin
                       /\ cfg.private \/ s.url.host \notin PrivateOrigins
    /\ recorded \subseteq sent

\* Replay only adds, but for the reconstructed requests: one is gone just if
\* its path was answered with a 404, and no probe that answered 404 is in the
\* result (supersedeConcatMirrors).
ReplayIsAdditive ==
    step = "done" =>
        /\ \A i \in DOMAIN requests :
              requests[i] \notin ToSet(result) =>
                 /\ requests[i].source = "static:js-concat"
                 /\ ReachedPathKey(URLOf(requests[i])) \in refuted
        /\ refuted \subseteq {ReachedPathKey(s.url) : s \in sent}
        /\ \A i \in DOMAIN result :
              result[i].source = "static:js-concat" => ReachedPathKey(URLOf(result[i])) \notin refuted

\* The paths the gates allow, and those of them a request went out for.
Allowed == {p \in paths : ~Gated(FullURL(p))}
Reached == {p \in Allowed : FullURL(p) \in {s.url : s \in sent}}

\* What the gates refuse costs nothing: at the end every path they allow was
\* tried, unless the budget went to others they allow (the probe loop).
BudgetForTheAllowed ==
    /\ probed <= MaxEndpoints
    /\ step = "done" /\ ~expired /\ paths # {} =>
          Cardinality(Reached) >=
             IF Cardinality(Allowed) < MaxEndpoints THEN Cardinality(Allowed) ELSE MaxEndpoints

\* Redirects in a circle and silent servers do not keep replay from ending.
ReplayEnds == <>(step = "done")
=============================================================================
