------------------------------ MODULE JsStatic ------------------------------
(***************************************************************************)
(* Augmentation of a capture (internal/pipeline/augment.go): the static    *)
(* form analysis and the JavaScript analysis (jsstatic.Analyze), whose     *)
(* worker pool parses the captured bundles under a timeout per parse.      *)
(*                                                                         *)
(* A capture is taken through one of two plans.  `scan' runs forms, then   *)
(* JavaScript.  `crawl' runs JavaScript, writes the capture, and leaves a  *)
(* later `generate' to run both again: a second process with a context of  *)
(* its own.                                                                *)
(*                                                                         *)
(* The parser of a bundle cannot be interrupted.  A parse runs in its own  *)
(* goroutine, which outlives the timeout that gives it up and may never    *)
(* end.                                                                    *)
(***************************************************************************)
EXTENDS JsExtract, FormParser

CONSTANTS Workers,      \* the goroutines of the pool
          Captures,     \* the captures a run starts from
          Bundles,      \* what the JavaScript body of a request holds
          Tokens,       \* the tokens an HTML body is made of
          MaxTokens     \* bound: tokens per HTML body

ASSUME PoolConstants == Workers # {} /\ IsFiniteSet(Workers) /\ MaxTokens \in Nat

IsBundle(r) == r.resp.ctype = "js" /\ r.resp.body # NoBody

\* Texts of pages and URLs, and the marker the parser may put in their place.
Texts == Seq(STRING \cup ToSet(Sentinel))
IsQuery(q) == \A k \in DOMAIN q : q[k] \in Seq(Texts)

\* No crawler and no importer labels a request as found by static analysis.
ASSUME RawCaptures ==
    \A reqs \in Captures :
        /\ reqs \in Seq(ToSet(reqs))
        /\ \A r \in ToSet(reqs) : /\ r.source # "static:html" /\ ~IsJSStaticSource(r.source)
                                  /\ IsQuery(r.query)
                                  /\ IsBundle(r) => r.resp.body \in DOMAIN Bundles

AreSites(sites) ==
    /\ sites \in Seq(ToSet(sites))
    /\ \A s \in ToSet(sites) : /\ DOMAIN s = {"by", "method", "url", "tokens", "fields"}
                               /\ DOMAIN s.url = {"host", "segs", "kind"}

ASSUME BundleShapes ==
    \A b \in ToSet(Bundles) :
        /\ AreSites(b.sites)
        /\ b.map.sources \in Seq(ToSet(b.map.sources))
        /\ \A src \in ToSet(b.map.sources) : AreSites(src.sites)

\* What fields carry in secret is marked "secret", and nothing else is.
ASSUME TokenShapes ==
    \A tok \in Tokens :
        /\ tok.t = "form" => IsQuery(tok.action.query)
        /\ tok.t \in {"option", "text"} => tok.value \in Texts /\ "secret" \notin ToSet(tok.value)
        /\ tok.t \in {"input", "textarea", "select"} =>
              /\ {tok.value, tok.placeholder} \subseteq Texts
              /\ "secret" \in ToSet(tok.value) \cup ToSet(tok.placeholder) =>
                     \/ tok.name \in SensitiveNames
                     \/ tok.t = "input" /\ tok.type \in {"hidden", "password"}

VARIABLES
    plan,       \* the stages still to run
    requests,   \* the requests of the capture so far
    page,       \* the HTML request being parsed, 0 for none
    parser,     \* its token machine
    left,       \* the tokens its body may still have
    ctxDone,    \* the context of the process is cancelled
    phase,      \* "idle", "forms", "pool" or "done"
    workCh,     \* bundles not taken yet (request indices)
    worker,     \* each worker's program counter and locals
    running,    \* parses in progress: <<bundle, source>>, 0 the bundle itself
    answers,    \* finished parses somebody still waits for
    resultCh,   \* results sent and not collected
    collected,  \* results collected by Analyze
    stats,      \* Analyze's counters
    failed      \* the last analysis returned an error

poolVars == <<workCh, worker, running, answers, resultCh, collected, stats>>
formVars == <<page, parser, left>>
vars == <<plan, requests, formVars, ctxDone, phase, poolVars, failed>>

Counters == {"analyzed", "skipped", "panics", "abandoned", "recovered", "fetchFails",
             "srcTimeouts", "srcOversized", "srcPanics", "found", "kept"}
NoStats == [c \in Counters |-> 0]
Add(s, t) == [c \in Counters |-> s[c] + t[c]]
Count(s, c, n) == [s EXCEPT ![c] = @ + n]

NoResult == [bundle |-> 0, requests |-> <<>>, stats |-> NoStats]
Idle == [pc |-> "idle", bundle |-> 0, source |-> 0, sources |-> <<>>, res |-> NoResult]

Init ==
    /\ plan \in {<<"forms", "js">>, <<"js", "exit", "forms", "js">>}
    /\ requests \in Captures
    /\ page = 0 /\ parser = NewParser /\ left = 0
    /\ ctxDone = FALSE /\ phase = "idle" /\ failed = FALSE
    /\ workCh = <<>> /\ resultCh = <<>> /\ collected = <<>>
    /\ worker = [w \in Workers |-> Idle]
    /\ running = {} /\ answers = {} /\ stats = NoStats

Stage(s) == phase = "idle" /\ plan # <<>> /\ Head(plan) = s
NextStage == plan' = Tail(plan) /\ phase' = IF Len(plan) = 1 THEN "done" ELSE "idle"

-----------------------------------------------------------------------------
(* Forms: every HTML response of the capture, in order.                    *)

HTMLPages == {i \in DOMAIN requests : requests[i].resp.ctype = "html"}

ParsePage(from) ==
    LET later == {i \in HTMLPages : i > from}
    IN  IF later = {} THEN page' = 0 /\ NextStage
        ELSE page' = Least(later) /\ phase' = "forms" /\ UNCHANGED plan

StartForms ==
    /\ Stage("forms")
    /\ ParsePage(0)
    /\ parser' = NewParser /\ left' = MaxTokens
    /\ UNCHANGED <<requests, ctxDone, poolVars, failed>>

ReadToken ==
    /\ phase = "forms" /\ left > 0
    /\ \E tok \in Tokens : parser' = Token(parser, tok)
    /\ left' = left - 1
    /\ UNCHANGED <<plan, requests, page, ctxDone, phase, poolVars, failed>>

\* The requests of the forms go behind everything captured; they carry no
\* response, so they are never parsed themselves.
EndPage ==
    /\ phase = "forms"
    /\ requests' = requests \o FormRequests(FlushUnclosed(parser), requests[page])
    /\ ParsePage(page)
    /\ parser' = NewParser /\ left' = MaxTokens
    /\ UNCHANGED <<ctxDone, poolVars, failed>>

-----------------------------------------------------------------------------
(* jsstatic.Analyze.                                                       *)

BundleOf(i) == Bundles[requests[i].resp.body]
Oversized(i) == BundleOf(i).size > MaxBundleSize
BundleIndices == {i \in DOMAIN requests : IsBundle(requests[i])}
ToAnalyze == {i \in BundleIndices : ~Oversized(i)}

\* A capture that carries a static source was analysed before and is left alone.
SkipJS ==
    /\ Stage("js")
    /\ \/ AnyStaticSource(requests) /\ UNCHANGED <<failed, stats>>
       \/ ~AnyStaticSource(requests) /\ ctxDone /\ failed' = TRUE /\ UNCHANGED stats
       \/ /\ ~AnyStaticSource(requests) /\ ~ctxDone
          /\ ToAnalyze = {}
          /\ failed' = FALSE
          /\ stats' = Count(NoStats, "skipped", Cardinality(BundleIndices))
    /\ NextStage
    /\ UNCHANGED <<requests, formVars, ctxDone, workCh, worker, running, answers, resultCh,
                   collected>>

StartPool ==
    /\ Stage("js") /\ ~AnyStaticSource(requests) /\ ~ctxDone
    /\ ToAnalyze # {}
    /\ workCh' = Pick([i \in DOMAIN requests |-> i], ToAnalyze)
    /\ stats' = Count(NoStats, "skipped", Cardinality(BundleIndices) - Cardinality(ToAnalyze))
    /\ worker' = [w \in Workers |-> Idle]
    /\ collected' = <<>> /\ phase' = "pool"
    /\ UNCHANGED <<plan, requests, formVars, ctxDone, running, answers, resultCh, failed>>

Step(w, pc, rec) == worker' = [worker EXCEPT ![w] = [rec EXCEPT !.pc = pc]]

Take(w) ==
    /\ phase = "pool" /\ worker[w].pc = "idle"
    /\ IF workCh = <<>> THEN Step(w, "exit", worker[w]) /\ UNCHANGED workCh
       ELSE /\ Step(w, "check", [worker[w] EXCEPT !.bundle = Head(workCh)])
            /\ workCh' = Tail(workCh)
    /\ UNCHANGED <<plan, requests, formVars, ctxDone, phase, running, answers, resultCh,
                   collected, stats, failed>>

\* The context is looked at after the bundle was taken: the bundle is lost.
Check(w) ==
    /\ worker[w].pc = "check"
    /\ Step(w, IF ctxDone THEN "exit" ELSE "map", worker[w])
    /\ UNCHANGED <<plan, requests, formVars, ctxDone, phase, workCh, running, answers,
                   resultCh, collected, stats, failed>>

\* Recover the sourcemap, then start the parse of the bundle's own body.
Recover(w) ==
    LET b == worker[w].bundle IN
    /\ worker[w].pc = "map"
    /\ \E map \in RecoverSourcemap(BundleOf(b), ctxDone) :
          Step(w, "await",
               [worker[w] EXCEPT !.source = 0, !.sources = map.sources,
                                 !.res = [NoResult EXCEPT
                                    !.bundle = b,
                                    !.stats.fetchFails = map.failed,
                                    !.stats.recovered = map.recovered]])
    /\ running' = running \cup {<<b, 0>>}
    /\ UNCHANGED <<plan, requests, formVars, ctxDone, phase, workCh, answers, resultCh,
                   collected, stats, failed>>

Awaits(w, g) == worker[w].pc = "await" /\ g = <<worker[w].bundle, worker[w].source>>

\* A parse ends, well or in a panic.  Its answer is kept only if its worker waits.
FinishParse(g) ==
    /\ g \in running
    /\ running' = running \ {g}
    /\ IF \E w \in Workers : Awaits(w, g)
       THEN \E outcome \in {"ok", "panic"} : answers' = answers \cup {<<g, outcome>>}
       ELSE UNCHANGED answers
    /\ UNCHANGED <<plan, requests, formVars, ctxDone, phase, workCh, worker, resultCh,
                   collected, stats, failed>>

\* What a parse of a bundle's body, or of a source of its map, finds.
Endpoints ==
    [b \in DOMAIN Bundles |->
        [k \in {0} \cup DOMAIN Bundles[b].map.sources |->
            ExtractFromBundle(IF k = 0 THEN Bundles[b].sites
                              ELSE Bundles[b].map.sources[k].sites, Bundles[b].host)]]

\* The requests made of them when there is room for so many.
Contribution ==
    [b \in DOMAIN Bundles |->
        [k \in {0} \cup DOMAIN Bundles[b].map.sources |->
            [room \in 1..MaxEndpointsPerBundle |->
                ToRequests(Retag(Capped(Endpoints[b][k], room),
                                 IF k = 0 THEN "static:js" ELSE "static:js-sourcemap"),
                           Bundles[b].host)]]]

\* The endpoints of the body, or of a sourcemap source within what is left.
Keep(w) ==
    LET r    == worker[w].res
        body == requests[r.bundle].resp.body
        eps  == Endpoints[body][worker[w].source]
        kept == Contribution[body][worker[w].source][MaxEndpointsPerBundle - r.stats.kept]
    IN  [r EXCEPT !.requests = @ \o kept,
                  !.stats.found = @ + Len(eps),
                  !.stats.kept = @ + Len(kept),
                  !.stats.analyzed = IF worker[w].source = 0 THEN 1 ELSE @]

Answer(w) ==
    /\ \E a \in answers :
        /\ Awaits(w, a[1])
        /\ answers' = answers \ {a}
        /\ IF a[2] = "ok"
           THEN Step(w, "source", [worker[w] EXCEPT !.source = @ + 1, !.res = Keep(w)])
           ELSE IF worker[w].source = 0
           THEN Step(w, "send", [worker[w] EXCEPT !.res.stats.skipped = 1])
           ELSE Step(w, "source", [worker[w] EXCEPT !.source = @ + 1,
                                                    !.res.stats.srcPanics = @ + 1])
    /\ UNCHANGED <<plan, requests, formVars, ctxDone, phase, workCh, running, resultCh,
                   collected, stats, failed>>

\* Mutant: only the parse of the bundle itself is under the timer.
TimeoutOfBody(w) ==
    /\ worker[w].pc = "await" /\ worker[w].source = 0
    /\ answers' = {a \in answers : a[1] # <<worker[w].bundle, 0>>}
    /\ Step(w, "send", [worker[w] EXCEPT !.res.stats.skipped = 1])
    /\ UNCHANGED <<plan, requests, formVars, ctxDone, phase, workCh, running, resultCh,
                   collected, stats, failed>>

\* The timer, or the context it derives from, ends the wait.  An answer that is
\* already there may lose the select.
Timeout(w) ==
    LET g == <<worker[w].bundle, worker[w].source>> IN
    /\ worker[w].pc = "await"
    /\ answers' = {a \in answers : a[1] # g}
    /\ IF worker[w].source = 0
       THEN Step(w, "send", [worker[w] EXCEPT !.res.stats.skipped = 1])
       ELSE Step(w, "source", [worker[w] EXCEPT !.source = @ + 1,
                                                !.res.stats.srcTimeouts = @ + 1])
    /\ UNCHANGED <<plan, requests, formVars, ctxDone, phase, workCh, running, resultCh,
                   collected, stats, failed>>

\* The next sourcemap source, while the bundle has endpoints to spare.
NextSource(w) ==
    LET k == worker[w].source IN
    /\ worker[w].pc = "source"
    /\ \/ /\ k > Len(worker[w].sources) \/ worker[w].res.stats.kept >= MaxEndpointsPerBundle
          /\ Step(w, "send", worker[w])
          /\ UNCHANGED running
       \/ /\ k <= Len(worker[w].sources) /\ worker[w].res.stats.kept < MaxEndpointsPerBundle
          /\ IF worker[w].sources[k].size > MaxBundleSize
             THEN /\ Step(w, "source", [worker[w] EXCEPT !.source = @ + 1,
                                                         !.res.stats.srcOversized = @ + 1])
                  /\ UNCHANGED running
             ELSE /\ Step(w, "await", worker[w])
                  /\ running' = running \cup {<<worker[w].bundle, k>>}
    /\ UNCHANGED <<plan, requests, formVars, ctxDone, phase, workCh, answers, resultCh,
                   collected, stats, failed>>

\* A panic outside a parse replaces all the bundle has so far.
AnalyzeOnePanic(w) ==
    /\ worker[w].pc \in {"map", "source"}
    /\ Step(w, "send", [worker[w] EXCEPT !.res = [NoResult EXCEPT
                            !.bundle = worker[w].bundle, !.stats.panics = 1]])
    /\ UNCHANGED <<plan, requests, formVars, ctxDone, phase, workCh, running, answers,
                   resultCh, collected, stats, failed>>

Send(w) ==
    /\ worker[w].pc = "send"
    /\ resultCh' = Append(resultCh, worker[w].res)
    /\ worker' = [worker EXCEPT ![w] = Idle]
    /\ UNCHANGED <<plan, requests, formVars, ctxDone, phase, workCh, running, answers,
                   collected, stats, failed>>

Collect ==
    /\ resultCh # <<>>
    /\ collected' = Append(collected, Head(resultCh))
    /\ stats' = Add(stats, Head(resultCh).stats)
    /\ resultCh' = Tail(resultCh)
    /\ UNCHANGED <<plan, requests, formVars, ctxDone, phase, workCh, worker, running,
                   answers, failed>>

Synthesized == FlattenSeq([i \in DOMAIN collected |-> collected[i].requests])

\* Mutant: the abandoned bundles are those nobody took.
ReturnUntaken ==
    /\ phase = "pool" /\ resultCh = <<>>
    /\ \A w \in Workers : worker[w].pc = "exit"
    /\ stats' = [stats EXCEPT !.abandoned = Len(workCh)]
    /\ failed' = ctxDone
    /\ requests' = IF ctxDone THEN requests ELSE requests \o Synthesized
    /\ NextStage
    /\ UNCHANGED <<formVars, ctxDone, workCh, worker, running, answers, resultCh, collected>>

\* The workers are gone and the channel is drained.  What no worker reported
\* was abandoned.  An error throws the partial result away (AnalyzeJS).
Return ==
    LET seen == stats.analyzed + stats.skipped + stats.panics
                  - (Cardinality(BundleIndices) - Cardinality(ToAnalyze))
    IN
    /\ phase = "pool" /\ resultCh = <<>>
    /\ \A w \in Workers : worker[w].pc = "exit"
    /\ stats' = [stats EXCEPT !.abandoned = Cardinality(ToAnalyze) - seen]
    /\ failed' = ctxDone
    /\ requests' = IF ctxDone THEN requests ELSE requests \o Synthesized
    /\ NextStage
    /\ UNCHANGED <<formVars, ctxDone, workCh, worker, running, answers, resultCh, collected>>

-----------------------------------------------------------------------------
(* Interrupts and the end of a command.                                    *)

Cancel ==
    /\ ~ctxDone /\ phase # "done"
    /\ ctxDone' = TRUE
    /\ UNCHANGED <<plan, requests, formVars, phase, poolVars, failed>>

\* The crawl command writes its capture and ends; generate reads it with a
\* context of its own.  No parse survives the process.
NextCommand ==
    /\ Stage("exit")
    /\ NextStage
    /\ ctxDone' = FALSE /\ running' = {} /\ answers' = {}
    /\ UNCHANGED <<requests, formVars, workCh, worker, resultCh, collected, stats, failed>>

Work(w) == Take(w) \/ Check(w) \/ Recover(w) \/ Answer(w) \/ Timeout(w) \/ NextSource(w)
              \/ Send(w)

Finished == phase = "done" /\ UNCHANGED vars

Next ==
    \/ StartForms \/ ReadToken \/ EndPage
    \/ SkipJS \/ StartPool \/ Collect \/ Return
    \/ \E w \in Workers : Work(w) \/ AnalyzeOnePanic(w)
    \/ \E g \in running : FinishParse(g)
    \/ Cancel \/ NextCommand \/ Finished

\* Goroutines that can run do run, timers fire and a page ends.  Nothing makes
\* a parse finish.
Fairness ==
    /\ WF_vars(StartForms) /\ WF_vars(EndPage)
    /\ WF_vars(SkipJS) /\ WF_vars(StartPool) /\ WF_vars(Collect) /\ WF_vars(Return)
    /\ WF_vars(NextCommand)
    /\ \A w \in Workers : WF_vars(Work(w))

Spec == Init /\ [][Next]_vars /\ Fairness

-----------------------------------------------------------------------------
(* What the analysis promises.                                             *)

\* Every JavaScript body is counted once, whatever became of it: analysed,
\* skipped, lost to a panic, or abandoned; and only a cancelled analysis
\* abandons any (the accounting comments of jsstatic.Analyze).
BundlesAccounted ==
    phase # "pool" =>
        /\ stats.analyzed + stats.skipped + stats.panics + stats.abandoned
                \in {0, Cardinality(BundleIndices)}
        /\ stats.abandoned > 0 => failed

\* The calls of some sites.
Calls(sites, base) ==
    {<<MethodOr(s, "GET"), ConcatDedupKey(NormalURL(s), base)>> :
        s \in {t \in sites : /\ t.by \in {"axios", "template", "fetch", "other"}
                             /\ ~Dropped(t.url)}}

\* The fetches without a method that are taken for the second report of another
\* fetch of the same URL, which names one.
TakenForRepeats(src) ==
    {s \in ToSet(src) : /\ s.by = "fetch" /\ s.method = ""
                        /\ \E t \in ToSet(src) : t.by = "fetch" /\ t.method # "" /\ t.url = s.url}

Tagged(reqs, concat) == {i \in DOMAIN reqs : (reqs[i].source = "static:js-concat") = concat}

CallOf(r, base) == <<r.method, ConcatDedupKey([host |-> r.host, segs |-> r.path], base)>>

\* What a bundle contributes: calls it makes and no other, the reconstructed
\* paths only where no call is known, within the bundle's cap, a binding cap
\* starving neither kind (capBundleEndpoints, extractConcatEndpoints and the
\* budget of the sourcemap loop in analyzeOne).
EndpointsExplained ==
    \A i \in DOMAIN collected :
        LET r       == collected[i]
            b       == BundleOf(r.bundle)
            sources == {b.sites} \cup {b.map.sources[k].sites : k \in DOMAIN b.map.sources}
            made    == UNION {Calls(ToSet(src), b.host) : src \in sources}
            body    == Endpoints[requests[r.bundle].resp.body][0]
            concat  == {k \in DOMAIN body : IsConcat(body[k])}
            unsafe  == {k \in DOMAIN body : body[k].url.kind = "unsafe"}
            cap     == MaxEndpointsPerBundle
        IN  /\ Len(r.requests) = r.stats.kept /\ r.stats.kept <= cap
            /\ \A k \in Tagged(r.requests, FALSE) : CallOf(r.requests[k], b.host) \in made
            /\ \A k \in Tagged(r.requests, TRUE) :
                    /\ r.requests[k].host = b.host
                    /\ \E src \in sources :
                         CallOf(r.requests[k], b.host)[2]
                            \notin {c[2] : c \in Calls(ToSet(src), b.host)}
            /\ r.stats.analyzed = 1 =>
                 /\ Cardinality(Tagged(r.requests, TRUE)) >=
                        Least({Cardinality(concat), ConcatMinReserve, cap \div 2})
                            - Cardinality(concat \cap unsafe)
                 /\ Len(body) <= cap =>
                        \A c \in Calls(ToSet(b.sites) \ TakenForRepeats(b.sites), b.host) :
                            \/ \E q \in ToSet(r.requests) : CallOf(q, b.host) = c
                            \/ unsafe # {}
                 /\ Len(body) > cap => r.stats.kept >= cap - Cardinality(unsafe)

\* The static requests of a capture are those of one whole analysis, however
\* often and by how many commands it was taken through the stage (the guard of
\* AnalyzeJS and its dropping of a partial result).
AnalysedOnce ==
    LET static == Pick(requests, {i \in DOMAIN requests : IsJSStaticSource(requests[i].source)})
    IN  /\ static # <<>> => static = Synthesized /\ Len(static) = stats.kept
        /\ phase = "done" /\ ~failed => Len(static) = stats.kept

\* The values of key k in the URLs of captured requests and of form actions.
URLValues(k) ==
    LET captured == {r.query : r \in {q \in ToSet(requests) : q.source # "static:html"}}
        actions  == {t.action.query : t \in {tok \in Tokens : tok.t = "form"}}
    IN  UNION {ToSet(q[k]) : q \in {p \in captured \cup actions : k \in DOMAIN p}}

Blank(k, v) == "secret" \notin ToSet(v) /\ (k \in SensitiveNames => v = <<>>)

\* Nothing a hidden, password or sensitively named field carries leaves its form
\* (fieldValue, handleInputTag).  A synthesised request repeats a URL's own query.
FormSecretsBlank ==
    \A r \in ToSet(requests) :
        r.source = "static:html" =>
            /\ \A k \in DOMAIN r.body : \A v \in ToSet(r.body[k]) : Blank(k, v)
            /\ \A k \in DOMAIN r.query : \A v \in ToSet(r.query[k]) :
                    Blank(k, v) \/ v \in URLValues(k)

\* The stage ends although a parse may hang (extractWithTimeout).
AnalysisReturns == <>(phase = "done")
=============================================================================
