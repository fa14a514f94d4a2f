# A TLA+ development of Vespasian

Vespasian discovers the API surface of a web application.  It crawls a site
(with headless Chrome, or with `net/http`), or imports a capture made by
another tool, then classifies the observed requests, probes the endpoints it
found and writes a specification (OpenAPI, GraphQL SDL, WSDL, proto).  This
directory holds TLA+ models of the program, the TLC configurations that check
them, and proofs that the TLA+ proof system checks.

Contents: [inventory](#1-inventory), [modules](#2-modules-and-the-code-they-model),
[runs](#3-runs-what-is-checked), [fairness](#4-fairness),
[proofs](#5-proofs), [findings](#6-where-the-documentation-and-the-code-differ),
[what is left out](#7-what-is-not-modelled-and-why), [plan](#8-plan).

## 1. Inventory

### The crawl: where the concurrency is

| Part | Code | State | Operations | Talks to |
|---|---|---|---|---|
| URL frontier | `pkg/crawl/frontier.go` | `queue`, `seen`, `active`, `closed` under `mu`, and `cond` | `Push`, `Pop`, `MarkIdle`, `Close` (and `Len`, which only tests call) | called by every worker of both backends |
| Headless engine | `pkg/crawl/engine.go`, `rod_crawler.go` | `pageCount` under its own mutex; one Chrome tab per visit | `Crawl`, `worker`, `pageBudgetReached`, `visitPage` | frontier, network capture, browser; emits through `onResult` |
| net/http backend | `pkg/crawl/http_crawler.go` | `results`, `pageCount` under `mu`; `crawlCtx` | `Crawl`, the worker loop, `fetchPage` | frontier, the rate limiter, the proxy transport |
| CONNECT dialer | `pkg/httpx/proxy_client.go` | the connection, `handshakeDone` under `mu`, `watcherStopped` | `connectDialer`, `connectHandshake`, `resolveConnectResult`, the watcher goroutine | dialled by gRPC probes behind an http(s) proxy |
| Browser manager | `pkg/crawl/browser.go` | the Chrome process, `killOnce`, `cleanupOnce` | launch, `Close`, `Kill` | the engine; the signal handlers |
| Command line | `cmd/vespasian/main.go` | the crawl's result channel, the signal context | `doCrawl`, `setupBrowserAndSignals`, `setupForceExitHandler`, `onForceExit` | everything above |
| Scope and SSRF filters | `pkg/crawl/scope.go`, `pkg/ssrf` | none | `normalizeURL`, the scope predicates, the dial-time address check | frontier, HTTP clients |
| DOM, form and JS links | `pkg/crawl/links.go`, `forms.go`, `jsextract.go`, `htmlextract.go` | none | what a page's links are | engine, net/http backend |

What makes it hard: workers race on one queue, two budgets and two contexts;
the end of a crawl is a distributed termination question (an empty queue is not
the end while somebody may still push); a signal, a timeout or a spent budget
may fall between any two steps; a page may fail at any stage; the proxy may
never answer while the caller cancels.

What makes it correct: no page is visited twice, none that was found is
forgotten unless the crawl was cut short; the budget is kept; every worker
leaves and `Crawl` returns; nobody sleeps on a condition that will not be
signalled; a cut is always the caller's or the budget's doing; a dial never
hands out a connection its own watcher will close.

### After the crawl: stages over a capture

| Part | Code | State and operations | What makes it correct |
|---|---|---|---|
| Network capture | `pkg/crawl/network.go` | per page, `pending` entries filled by events while the visitor may take the results at any time | a status is what the server sent; a call that was not answered yet is kept |
| JS replay | `pkg/crawl/jsreplay.go` | one pass: captured bundles, scripts of pages, redirects, probes, under one deadline and a probe budget | no request leaves past the origin and address gates; the user's headers stay with the target; only refuted reconstructions are dropped |
| JS static analysis | `pkg/analyze/jsstatic` | a worker pool, a timeout per parse that cannot interrupt it, sourcemaps, panic recovery, caps, counters | one bad bundle never costs the others their endpoints; every bundle is counted once; the stage ends |
| Static forms | `pkg/analyze/forms.go` | a token machine with a stack of open forms and a pending element | what a sensitive field holds never leaves the page |
| gRPC-web bindings | `pkg/analyze/grpc_web_bindings.go` | pure extraction | what a bundle declares is found once |
| Importers and capture format | `pkg/importer`, `internal/tnetenc`, `pkg/crawl/capture.go` | parsers (Burp, HAR, mitmproxy flows, JSON capture) | a written capture reads back; malformed input is refused |
| Classifiers, deduplication | `pkg/classify` | a verdict per request; observations merged per endpoint | the outcome does not depend on the order of requests |
| Probes | `pkg/probe` | strategies in order, each may fail; gRPC reflection budgets | a failing probe loses no endpoint; budgets hold |
| Pipeline | `internal/pipeline` | stage composition | a failing stage keeps the results of the others; running a stage twice adds nothing |
| REST generator | `pkg/generate/rest` | path templates, schema inference, trust among origins, components | every call that was sent and not overwritten is documented, an origin nobody vouches for displaces none, a reference describes what it replaced |
| GraphQL, WSDL, gRPC generators | `pkg/generate/{graphql,wsdl,grpc}`, `internal/grpcwire` | type inference, wire framing | every observation is admitted by the inferred type |
| SDK capability | `pkg/sdk` | wraps crawl and generate | cancels and errors are passed on |
| Test laboratories | `test` | sample servers | none: test fixtures |

What makes it hard: the workers of the analysis finish in any order and may be
given up while their parse still runs; a page is read while its traffic is under
way; a server redirects where it likes; observations of one endpoint differ,
half-captured ones among them, and are merged in the order they came.

The same list, with the status of each part, is in `PROJECT.json`, together
with the hazards: the lines of this code where something can go wrong that a
unit test would hardly reach, each with the property that watches it or the
reason that none does yet.

## 2. Modules and the code they model

```
   UrlFrontier        state and operations of the frontier, the site, the links
     |  EXTENDS
     +-- FrontierClient   any program that keeps the worker protocol     <-- proofs
     |        ^ implemented by (KeepsFrontierProtocol)
     +-- RodCrawl  -------+----------+                               <-- proofs
     +-- HttpCrawl -------+          | implement (ImplementsCrawl)    <-- proofs
                                     v
                                 SiteCrawl   what a crawl promises
   ProxyConnect       one dial through a CONNECT proxy                    <-- HttpProofs
   CrawlShutdown      the life of one crawl command: signals, Chrome, exit <-- RodProofs

  Capture            the observed request, its sources and query caps
     +-- FormParser, JsExtract                what a page and a bundle yield
     |     +-- JsStatic                       Augment: forms and the pool   <-- proofs
     +-- JsReplay (with JsScan)               replay of bundles             <-- proofs
     +-- NetworkCapture                       a page's traffic
     +-- Classify (with Normalize, BodySchema)
           +-- OpenApi                        the REST document
                 ScanSpec = NetworkCapture + OpenApi: from traffic to document <-- proofs
```

**UrlFrontier** is `frontier.go`.  Every operation of the code holds `f.mu`
from its first statement to its last, or to the `cond.Wait` that releases it, so
each is one atomic action: `Push`, `PopEntry` / `PopExhausted` / `PopWait` (the
three ways through the loop body of `Pop`), `MarkIdle`, `Close`.  `waiters` is
the condition variable's wait list; `Broadcast` empties it, and a worker that is
inside `Pop` and not on the list evaluates the loop body when it gets the mutex.
The variable `held` is the local `entry` of each worker.  A URL is a spelling,
and `Normalize` (the code's `normalizeURL`) maps spellings to pages or to
`NoPage` when parsing fails; the scope filter sees the spelling and the `seen`
set holds pages, as in the code.  `NewEntries` is the batch loop of `Push`, which
marks pages as it goes.  `Links` is what the visited site contains.

**FrontierClient** is the contract in the comments of `Pop` and `MarkIdle`: take
an entry, perhaps push its links one level deeper, give it back exactly once,
leave only between pages.  It is more permissive than either backend, and its
theorems therefore hold of both; that both do keep it is checked and proved.

**RodCrawl** is the loop of `rodEngine.worker` with `Crawl` around it.  Labels
of `pc` follow the statements: `top` (context check), `budget` (first
`pageBudgetReached`), `pop`, `reserve` (second one, with the reservation),
`visit`, `emit` (one iteration of the emit loop), `push`, `idle`, and the
other `MarkIdle` calls at `drop`, `failed` and `quit`.  Each statement that
touches shared state is its own step, since another worker or the context can
come between.  `visitPage` is nondeterministic in what it captures, whether it
fails and whether it returns links: the page, the network and Chrome decide.

**HttpCrawl** is the worker loop of `HTTPCrawler.Crawl`.  Its page is counted
after the fetch, in the critical section `record`; the worker that records the
last page of the budget cancels `crawlCtx`.  `limit` is the rate limiter, `fetch`
the request, `aborted` and `failed` the error return of a fetch with `crawlCtx`
done or live.

**SiteCrawl** is the abstract specification of a crawl: sets of found, taken
and in-hand pages and a flag that says the crawl was told to stop.  It has no
queue, workers, counters or depth.  The refinement mappings are at the end of
`RodCrawl` and `HttpCrawl`: `found` is `seen`, `taken` is what was seen and is
no longer queued, `inHand` is what the workers hold, and `cut` is the context
or, in the headless engine, the spent budget.  `Spec` says what a crawl may do, `FairSpec`
also that it goes on and ends.

**ProxyConnect** is `connectDialer` with its watcher goroutine: the operations of
the handshake on the connection in order, the mutex-guarded flag, the channel
that stops the watcher, `resolveConnectResult`, the caller's context with or
without a deadline, and a proxy that may answer, refuse, hang up or stay silent.

**CrawlShutdown** is `CrawlCmd.Run` seen from outside the crawl: `main`
(launch Chrome, watch signals, `doCrawl` with its two selects and backstop, write,
deferred cleanup), the crawl goroutine (`RodCrawler.Crawl` around an engine whose
inside is `RodCrawl`'s business: here it just returns at some time), and the
force-exit handler.  Each may tear down Chrome: `BrowserManager.Close` is a CDP
call, then `killOnce`, then `cleanupOnce`, and `once` records who is inside a
`sync.Once`, so that a second caller waits as it does in Go.  A signal goes to every
registered channel (`notify` for the context, `force` for the handler) and ends the
process when there is none.  `headless` is chosen initially; without it there is no
Chrome and the same code runs around the net/http backend.  Standing in for code
outside the repository: signal delivery, `sync.Once`, and Chrome, which may stop
answering, after which a CDP call waits until the process is dead.

**Capture** is `ObservedRequest` with the bounds of the capture format. In the
modules that build on it a path is a sequence of segments, a query maps keys to
sequences of values, and a body maps its fields to values or, in the generator, is a
number with the facts the parsers find in it.

**FormParser** is `forms.go`: the stack of open forms, the element whose value spans
several tokens (`pending`), `handlePendingEndTag`, the flush of what was never
closed, and the request made of each form, with its blanks for sensitive and hidden
fields.  **JsExtract** is the extraction of `jsstatic`: the call sites of a source with
their merging and deduplication, the reconstructed paths against the calls already
known, the cap with its reserve, the sourcemap of a bundle, and the requests.

**JsStatic** puts them together as `Augment` does.  `plan` is the order of the stages:
a scan runs forms and then JavaScript; a crawl runs JavaScript, writes the capture, and a
later generate command runs both again.  `Analyze` is the pool: `workCh`, one program
counter per worker, the result channel, the counters.  A parse is a goroutine
nobody can stop: `running` holds the parses in progress, `FinishParse` ends one at any
time or never, its answer counts only while its worker waits, and `Timeout` ends the
wait.  `Return` is the accounting after the pool, and the dropping of a partial result
by `AnalyzeJS`.

**JsScan** is the lexical half of `jsreplay.go` over an alphabet of tokens: the scanners
for strings, templates, `.concat` lists and `+` chains, the cleaning of
candidates, service prefixes.  **JsReplay** is the other half, one goroutine with one
deadline: each captured bundle, each script of a page, each hop of a redirect through
`canFetchURL`, each probe through the two gates and the budget, and the removal of the
reconstructed requests a 404 refutes.  Servers answer, fail and redirect as they like.

**NetworkCapture** is `network.go`.  The event handlers run one after the other; each
critical section is an action, so `LoadingFinished` marks the entry and releases the
lock, `BodyFetched` comes back with the body or without, and `Results` may fall between.
A redirect reports the next hop under the same id and makes the entry anew.

**Normalize** is the path templates (`normalize.go`): the kinds of segments, the rounds of
slug promotion, the unification of kinds at one position, the names.  **BodySchema** is
`schema.go` and `form.go`; the recursion of `inferSchemaFromValue` is a function of the depth, on
the values met at each depth, from the cut at `MaxSchemaDepth` up.  **Classify** is the classifiers with their confidences,
`RunClassifiers`, `Deduplicate` (a fold of `Admit`) and `DetectAPIType`.  **OpenApi** is `openapi.go`: servers
and trust, grouping, parameters, bodies, responses, collisions, component extraction.

**ScanSpec** composes them: a job is the traffic of a page, the requests a bundle
gave, and the options (a pinned target URL may have no origin).  `Collect` takes the results of the page (in any order, as they come
out of a map) and the requests of the analysis (in the order its workers
finished); `ResolveAndGenerate` is the code's function of that name for a REST document.

**MCFrontier**, **MCRodCrawl**, **MCHttpCrawl**, **MCAugment**, **MCReplay** and
**MCScanSpec** give the instances TLC explores; **FrontierProofs**, **RodProofs**,
**HttpProofs**, **JsReplayProofs**, **JsStaticProofs** and **ScanProofs** hold the theorems,
**FrontierLemmas** what the first three share and **SequenceLemmas** what the last two do.
**HttpProofs** also extends `ProxyConnect` and proves about the dialer, and **RodProofs** extends
`CrawlShutdown` and proves about the command around the engine; hence the prefixes `Dial` and
`Command` of what those modules would otherwise name as the others do.

History variables (`finished` of the frontier, `fate`, `late`, `discarded`) record what
happened for properties to speak about; no guard reads them.

## 3. Runs: what is checked

| Run | Instance | What it shows |
|---|---|---|
| `frontier` | 3 workers, 4 in-scope pages, breadth first | the wait/notify protocol loses no wakeup, the activity count is exact, no page is handed out twice, depths are lengths of real chains of links, exhaustion is final, and every crawl terminates |
| `rod_crawl` | 2 workers, budget 4, site of 5, up to 1 request per page | the budget is exact under races, reaching it costs no visited page its traffic, an uncut crawl is complete, at most one late visit per worker after a cancel; the loop keeps the frontier's contract and is a crawl |
| `http_crawl` | 2 workers, budget 4, site of 6, depth first | list and count agree, over-fetch is less than the number of workers, early ends are explained by the budget or the caller, an uncut crawl is complete; the loop keeps the contract and is a crawl |
| `http_in_flight` | as above, budget 2 | a violation: see section 6 |
| `http_depth` | 1 worker, site where a long way shadows a short one | a violation: see section 6 |
| `proxy_connect` | exact: the dialer has no parameters | however a cancel, a deadline and the proxy's answer interleave, the dial gives a working tunnel or nothing, and ends if its context does |
| `crawl_shutdown` | up to 3 signals; everything else is exact | no exit leaves Chrome or its directory, a stopped crawl keeps its results, `doCrawl` returns even if the crawl does not, the command ends unless Chrome has stopped answering |
| `force_exit` | up to 2 signals | a violation: see section 6 |
| `augment` | 2 workers, 4 captures, every HTML body of up to 5 tokens out of 15 | every bundle is counted once however parses hang, panic or are cancelled; what a bundle contributes is explained by its calls and within its cap; the analysis enters a capture once and whole; forms keep their secrets; the stage ends |
| `replay` | 3 origins, 1 of them private; 2 probes, 1 redirect; every concatenation of up to 2 operands out of 8 | no request leaves past the gates; only refuted reconstructions are dropped; refused paths cost no budget; concatenations are read back; replay ends |
| `scan_spec` | 9 jobs, one per question (below) | the document against the traffic, whatever was answered when the results were taken and in whatever order they came |
| `scan_order` | 1 job | a violation: see section 6 |

Every property of a passing run has a mutant in `PROJECT.json`: a
change of one operation, of the kind a slip in the code would be, that breaks the
property.  The mutated operators stand next to the ones they replace, marked
"Mutant"; the specifications never use them.

`TypeOK` is checked in `frontier`, and proved.  The other modules that define one
state it for the reader and for their proofs; no run repeats the check.

### Bounds, and why they are enough

* *Sites.*  Each has a diamond (two workers find the same page at
  once), a cycle back to the seed, two spellings of one page in one batch, a link
  out of scope and one that does not parse.  Those are all the cases `Push`
  distinguishes.
* *Workers.*  Three for the frontier, so that one can push while one sleeps and
  one is about to sleep; two for the backends, whose loops only interact through
  the frontier, a counter and a context.  The safety properties of the frontier and
  of both loops are also proved for any number.
* *`MaxPages`* is below the number of pages, so that runs reach the budget,
  and large enough that runs end without reaching it (a page that fails, or one
  whose links could not be read, hides the rest of the site), so the
  completeness properties are exercised in both ways.
* *`MaxRequests = 1`* captured request per page: the emit loop either has one more
  iteration or none, which is all that the context check inside it depends on.
* `late` is bounded by the property that watches it.
* *Captures of `augment`*: one where two bundles compete for two workers, one of them
  with more endpoints than the cap and one with two sourcemap sources (one too large); one
  with an empty, a too large and an inline-mapped bundle; one with nothing to parse; one
  that is an HTML page.  `MaxEndpointsPerBundle = 3` and `ConcatMinReserve = 2` make the reserve
  clamp (half of 3) and the cap bind.
* *`MaxTokens = 5`*: a form, an element that spans tokens, two of its children and an
  end tag that may or may not be its own.
* *Inputs of `replay`*: every configuration (target none, given or unusable; cross-origin
  and private addresses allowed or not) on one capture, with its bundle empty, cut or whole;
  and every generated bundle under one configuration.  `MaxEndpoints = 2` is below the
  number of paths the three bundles name.
* *Jobs of `scan_spec`*: `Origins3` (two spellings of one template on two origins, a third
  named by a bundle), `Forms` (a redirected POST and a second set of fields),
  `Deletions` (no bodies, a failure, a path only a bundle knows), `Uploads` (bodies equal up to
  the boundary, one too big), `Slugs` (promotion on two levels beside an identifier),
  `Components` (two resources of one name, one shape under two statuses), `Mixed` (type
  detection, GraphQL beside SOAP and a feed), `Strangers` (no target and no deduplication: an untyped document,
  known for one only by its body, on one origin, its API on another, and a bundle that names the first and a
  third), `Refused` (the same under a target that is no origin).  Each is explored with every point at
  which the results may be taken.  `MaxPromotionRounds = 8` is the code's value;
  `MaxSchemaDepth = 2` is reached by a list of objects; `MaxQueryParamValues = 3`
  is reached by the values of a key in `Origins3`.
* `MaxSignals = 3`: one for the context, one that the context's channel may swallow
  before the handler listens, one for the handler.

### What the properties mean

* `NoLostWakeup`: a worker sleeps in `Pop` only while its wakeup is still to
  come.  `MarkIdle` broadcasts only when it brings `active` to zero on an empty
  queue; this says that is enough.
* `ActiveCountsHolders`: `active` is the number of workers holding an
  entry: if a path forgot `MarkIdle` the crawl would hang, if one called it
  twice the crawl would end early.
* `EachPageOnce`: a seen page is queued, held or finished, in one place and once.
* `DepthHasChain`: the depth of an entry is the length of a chain of links that
  were really followed.  (It need not be the shortest: section 6.)
* `DrainedIsFinal`: when one worker is told the frontier is exhausted, nothing
  can be added any more.
* `BudgetExact`, `RecordsFetchedPages`, `OvershootBounded`: the two budgets,
  which the two backends keep in different ways.
* `InFlightPagesFinalize`: the promise made in `engine.go` that pages being
  visited when the budget is reached still finalize.
* `CutsAreExplained`, `CompleteUnlessCut`, `CancelIsPrompt`: ends of a crawl.
* `TunnelOrNothing`: a returned tunnel is open, stays open whatever the watcher
  still does, and carries no deadline of the handshake; an error leaves no open
  connection behind.
* `NoOrphanChrome`: when the process ends by itself or by force exit, Chrome is dead
  and its directory is gone.  (A signal nobody is registered for ends the process
  at once; that can happen before `NotifyContext` and after `stop`, and is excepted.)
* `StoppedCrawlIsKept`: the command ends in an error only when something failed; being
  stopped by a signal or the timeout is not a failure.
* `BackstopWorks`, `ShutdownEnds`: a command told to stop does.
* `BundlesAccounted`: outside the pool, the counters of `Analyze` add up to the bundles of
  the capture, and a bundle is abandoned only by an analysis that says it failed.
* `EndpointsExplained`: a bundle contributes calls that it or its sourcemap makes;
  reconstructed paths only where no call is known; neither kind starves the other
  when the cap binds; nothing is lost while it does not.
* `AnalysedOnce`: the static requests of a capture are those of one whole analysis, even
  if two commands took it through the stage and one was interrupted.
* `FormSecretsBlank`: no token sequence, nested or unclosed, makes the value of a
  hidden, password or sensitively named field leave its form.
* `AnalysisReturns`: the stages end although a parse may hang for ever.
* `HeadersStayHome`: whatever a bundle holds and a server redirects to, a request goes only
  where the origin and address gates allow, the user's headers go to the target
  only, and a request is recorded with the headers it was sent with.
* `ReplayIsAdditive`: a request is gone after replay only if it was a reconstruction
  whose path was answered with a 404.
* `BudgetForTheAllowed`: what the gates refuse takes nothing from the probe budget.
* `ReadsBack`: a concatenation is read back as its operands, dynamic ones as the sentinel,
  whatever commas, brackets and quotes they hold.
* `ReplayEnds`: circles of redirects and silent servers do not keep it from ending.
* `DocumentedStatusWasSeen`: a documented status is one the server gave to a request of that
  endpoint, also across redirects and half-captured entries, or the default 200 of an entry none of
  whose requests was seen answered.  An entry stands for the requests that deduplication merges
  (those of one key that were classified as calls of an API), or, without deduplication, for one.
* `UnvouchedNeverWins`: an origin only a bundle names takes no slot that an entry seen on the wire, or
  the origin the document is named after, claims; it is served under its own server and never
  under the document's.  The last part needs a capture in which something was located: with no
  target and no origin on the wire the first bundle request names the document (section 6).
  What was on the wire but classified away (a page, a script) vouches for a server, not for a slot.
* `EveryCallDocumented`: every call the page had sent to an API when the results were taken, answered or
  not, and every API path of a bundle, is an operation or is named as displaced by one, at any threshold up to
  the default.  It ranges over the hops of the exchanges (`page[id][h]` up to `hop[id]`), not over what the
  capture hands over, so an entry that `Results` left out would break it.  Excepted by name are the
  hops `Overwritten` by the next one of a redirect (section 6): their entry is gone before the results are taken.
  The deduplication key has no scheme, so a request of another scheme seen first would stand for the
  call, and is excepted.
* `RefsDescribeTheirSchema`: a component has the properties, by name and type, of each
  schema it replaces.  (Nested properties are not compared, nor does the code's
  fingerprint.)
* `SameOutlineInAnyOrder`: the order of capture and of the workers decides neither which
  operations there are nor their origins, parameters, bodies, statuses and
  confidences.  It is about captures with a usable pinned target in which an endpoint was seen on one
  origin and no query key has more values than are kept; without these the order does
  decide (section 6).
* `KeepsFrontierProtocol`, `ImplementsCrawl`: refinement, the second with the
  liveness of the abstract crawl, so it also says that `Crawl` returns.

## 4. Fairness

`WF` of each worker's step: a runnable goroutine is eventually scheduled, and
a visit or a fetch ends because `PageTimeout` bounds it, so being inside one is
not a way to stop.  A worker that sleeps in `Pop` has no enabled step
and gets none from fairness: that it wakes is what is checked.  `WF` of `Start`
and `Return` is the main goroutine.  There is no fairness on cancellation:
nobody has to cancel.  In `ProxyConnect` there is none on the proxy, which may
stay silent for ever, and there is `WF` on the passing of a deadline that exists:
time passes.  Hence `DialEnds` speaks only of dials whose context ends or has
a deadline.

In `CrawlShutdown` there is `WF` on the three goroutines, on the goroutine of
`NotifyContext`, on the backstop timer, and on the engine's return while Chrome answers
(that the engine returns is what `ImplementsCrawl` shows of it).  There is none on
signals, on the crawl timeout or on a hung Chrome.

In `JsStatic` there is `WF` on each worker's step, which includes its timer, on
the collector and on the main goroutine; none on `FinishParse`, for nothing
makes a parse end, none on `ReadToken`, for a page has as many tokens as it has, and none
on panics and cancellation.  In `JsReplay` there is `WF` on its
one goroutine, since every request has a timeout; none on the deadline.  `ScanSpec` states no
fairness: its properties are about what a document says if there is one.

`sync.Mutex` needs no fairness of its own here: every critical section is one step.

## 5. Proofs

All theorems hold for every value of the constants that satisfies the assumptions
named in the modules.

**FrontierLemmas** is about the operations of `UrlFrontier`, whoever calls them.  Its
invariant `FrontierInv` is the typing, `NoLostWakeup` with `ActiveCountsHolders`,
and `EachPageOnce`; there is one lemma per operation (`PushInv`, `PopEntryInv`,
`PopWaitInv`, `MarkIdleInv`, `CloseInv`) that says the operation keeps it, given that
the caller holds an entry where the contract says so.  `NoLostWakeup` is not inductive
alone: when `MarkIdle` brings `active` to something other than zero somebody
else must still be busy, and when a parked worker depends on `active > 0` there must
be a holder behind the number.  `EachPageOnce` rests on `NewEntriesAreNew`: the accepted
entries of a batch are admissible, not seen before and have pairwise different
pages, although the batch may spell one page in several ways.  `PushFinds` is its converse, which
completeness needs: after a push every admissible page of the batch is seen; the
entry that brought it in is the first of its page in the batch.

**FrontierProofs** proves, of `FrontierClient!Spec`, under `FrontierAssumption` (a finite
set of workers, functions of the right type), so for any number of workers, any
site, any depth limit and either order:

* `TypeCorrect`: `TypeOK` with `BusyHolds`.  The second conjunct says a worker
  holds an entry exactly between `Pop` and `MarkIdle` and is on the wait list
  only inside `Pop`.  Without it `PushLinks` could push the links of no
  entry, and the lemmas of the operations would not apply.
* `WakeupsAreNotLost`, `ActiveIsExact`, `EachPageIsVisitedOnce`: parts of `FrontierInv`.
* `ExhaustionIsFinal`, the action property `DrainedIsFinal`: by `ActiveIsExact`, a
  zero count means no worker is busy, and `Push` and `MarkIdle` are steps of
  busy workers only.
* `DepthIsAChain`: `DepthHasChain`.  An entry is queued by a holder of an entry one
  level up that links to it, and `MarkIdle` moves what was held to `finished`, so the
  set of entries that can vouch for a depth only grows.

**RodProofs** and **HttpProofs** prove, of `RodCrawl!Spec` and `HttpCrawl!Spec`, for any
site, any number of workers and any budget, what the runs `rod_crawl` and `http_crawl` check.
Besides `FrontierAssumption` they assume that there is a worker at all
(`clampConcurrency`, `engine.go:141`, and `crawler.go:105` see to it).  Both invariants start with
`LoopInv`: typing, `FrontierInv` and `HoldsByLabel`, which says at which
statements a worker holds an entry; it lets every step cite the lemma of the frontier operation it makes.

* `KeepsProtocol` (both): the safety refinement to `FrontierClient`, one case
  per statement of the loop.  With it the theorems of `FrontierProofs` speak of the code's two loops.
* `BudgetIsExact`: `BudgetExact`.  A reserved slot is a worker between `reserve` and the end
  of its visit, and becomes one visited page; `VisitedWereHeld` makes that page a
  new one, since by `EachPageOnce` what is held was not visited before.
* `InFlightPagesAreKept`: `InFlightPagesFinalize`, by `EmittedInFull`: a worker past
  the emit loop has emitted all that was captured, and only a done context leads to `quit`.
* `ImplementsCrawlSafely` (both): the safety half of the refinement to `SiteCrawl`.  A page seen
  is queued, held or finished and in one place only (`EachPageOnce`), so what is seen and no longer
  queued (`taken`) is what is held or finished; hence a push takes nothing
  (`PushTakesNothing`), a pop takes exactly one page that was found and not taken (`PopTakesOne`),
  and `MarkIdle` settles exactly one and un-takes none (`MarkIdleSettlesOne`).  `LeaveInv` gives the end: when all
  workers have left nothing is in hand, and unless the crawl was cut nothing is queued.
* `CancellationIsPrompt`: `CancelIsPrompt`.  `LateAreCounted` bounds the late
  visits together with the workers that may still begin one; a worker spends its place
  when it begins, and passes the context check for no second one.
* `ListIsExact`: `RecordsFetchedPages`, inductive with `FetchedWereHeld`.
* `OvershootIsBounded`: `OvershootBounded`.  `OvershootInv` counts the discarded pages and
  the fetches in flight together once the budget is spent; the worker that recorded the last page
  is not among them, hence "less than".
* `CutsHaveCauses`: `CutsAreExplained`, with `CanceledWhenSpent` and `CutInv`.
* `UncutCrawlIsComplete` (both): `CompleteUnlessCut`.  `LeaveInv` says that when a worker of
  an uncut crawl has left, the queue is empty and nobody is active; `LinksInv` that the
  admissible links of a page whose links were pushed are seen, by `PushFinds`.  At the
  return all workers have left, so everything seen is finished.

**The dialer** (in HttpProofs): `DialIsSound`, `TunnelOrNothing` as an invariant.
The strengthening `DialInv` relates the dialer's stage to the rest: until the flag is
set only the watcher closes the connection, and only after the context
ended, so a dial that finds the context live at `resolve` has an open connection;
once the flag is set, the watcher closes nothing, so a tunnel handed out stays
open; and the deadline was cleared before the handshake could succeed.

**The command** (in RodProofs): `NoExitLeavesChrome`, `NoOrphanChrome` as an invariant for any
number of signals.  The strengthening `RunInv` says that a `sync.Once` that is done has had
its effect, and that a goroutine past one finds it done; hence whoever reaches its
exit finds both done, whichever goroutine did the work.  `StoppedCrawlsAreKept` is
`StoppedCrawlIsKept`, by a second invariant (`RunKept`): a result that was sent does not change any
more, so what `main` made of it stays true; and until `main` calls `stop` itself a done context
means that a signal was delivered, so only a signalled command can reach the backstop.

**JsReplayProofs** proves, for every capture, bundle, server, redirect limit and probe
budget:

* `HeadersStayHomeAlways`: `HeadersStayHome`, inductive as it stands.  The target origin is a
  function of the configuration and the capture, which no step changes, and each of
  the two actions that send (`FetchHop`, `Probe`) asks both gates in the step in which it
  sends.  The mutant that asks only before the first hop breaks exactly that.
* `ReplayOnlyAdds`: `ReplayIsAdditive`, and `BudgetIsForTheAllowed`: `BudgetForTheAllowed`.  Both follow from
  `ReplayInv`: the paths the scan has found are finitely many and complete, nothing captured is gone before
  the final removal, and the probes counted so far went to as many different paths
  that the gates allow.  The last is what makes a refused path free: the count is the
  cardinality of a set that a refused path never enters.  That there are finitely many paths is
  `PathsFinite`, a lemma about the scanners: a literal or a template begins at one of the tokens, the
  concatenations are numbered, and each is expanded by finitely many prefixes.

**JsStaticProofs** proves the four safety properties of `JsStatic`, for every capture, bundle, page,
number of workers and cap.  Its first half is about functions: what
the form parser emits whatever the order of its tokens, what `Concats`, `Parsed` and
`capBundleEndpoints` leave of the calls of a source.  Then the inductive invariant, in two parts:

* `SInv`: where everything comes from.  Each request of the capture was there at the beginning, or
  is a form of one of its pages, or what one of its bundles gives; a worker at each program counter has
  at most what its bundle gives so far; what waits in the result channel or was collected is the
  report of an analysable bundle.
* `AInv`: where everything is.  While the pool runs, the outcomes counted are the bundles skipped before it
  and those collected, and unless it was cancelled each bundle is in one place: in the channel, with a
  worker, among the results or collected.  Outside the pool the counters are settled: they add up to the
  bundles of the capture, and the static requests of the capture are those of one analysis, or none.

`AnalysisInvariant` is that this is an invariant, and from it follow `BundlesCountedOnce` (`BundlesAccounted`),
`StaticRequestsAddedOnce` (`AnalysedOnce`), `SecretsStayInTheirForms` (`FormSecretsBlank`) and
`RequestsAreExplained` (`EndpointsExplained`).  The count alone is not inductive: that a worker adds
one outcome needs its program counter and its result to agree, and that the requests are those of
one analysis needs to know that no capture comes in with static requests.

The assumptions are these, each named in the module that declares the constants.  `PoolConstants`: there is a worker, and finitely
many (`withDefaults`, `jsstatic.go:131`).  `RawCaptures`: no crawler and no importer labels
a request with a static source, and the body of a JavaScript response is one of the bundles.
`BundleShapes`: the call sites and the sourcemap sources of a bundle are lists.  `TokenShapes` is what the
marker "secret" means: it stands in what a user has in a hidden, password or sensitively named field
and nowhere else in a page, so finding it in a request means that a field leaked.  TLC
evaluates the assumptions in the run `augment`, and `SInv` and `AInv` were found to
hold of a smaller instance (26952 states) before they were proved.

**SequenceLemmas** is about what the models compute with: selecting the elements at a set of
positions (`PickElements`), concatenating (`FlattenElements`, `FlattenAppend`), ranking a finite
set by any strict total order (`RankingBy`), and folding a sequence from the left.  The library
defines a fold by recursion on the set of positions not yet used; `FoldUnfolds` turns that into an
equation a reader expects: there is a sequence of results, the first is the base, and each further
one is the step applied to the one before and the next element.  An invariant of the results is
then an induction over positions.  The step and the base are constants of the module, so a proof
takes an instance of it with the step of its own fold.

**ScanProofs** proves, of `ScanSpec!Spec`, for every job, word list, body table and limit, the way from
a page's traffic to the document.  `ScanInvariant` is its inductive invariant `ScanInv`:

* `NetworkInv`: a pending entry is the hop its exchange has reached, and its answer is that of the last hop
  or none.  This is what a redirect could break, and a body fetched after the
  lock was released.
* `Traffic`: in whatever order the results are taken, a request of the capture is unanswered or has a
  status the server gave to a hop of that path and method; what a bundle names is unanswered and
  comes after what was on the wire.
* `NothingDropped`: the last hop sent of each exchange is in the capture with all its fields but the response
  and the cut query, and so is all the bundles name.  An order of the entries is an injection into a set of
  its own size, hence reaches all of them (`OrdersReach`), and once the results are taken no hop is sent.
* the document is what the stages make of the capture.

The rest is a chain of lemmas about one state, from the capture to the document:

* `ClassifiedAreKept`, `DeduplicateKeeps`, `EntriesAreEndpoints`: each entry stands for requests of one
  key, each request that was classified as a call has an entry, and the response of an entry is one of
  its requests', a populated one if any was.  The middle lemma is the induction over the fold of `Admit`.
* `GroupsPartition`, `WinnerBeatsAll`: the entries are partitioned by template, method and origin, and a
  slot goes to the group of the best rank.  `RanksOfOrigins` computes the ranks: an origin
  on the wire or the document's own is better than any other.
* `InOrderElements` with `LexIsStrict` and `LexIsTotal`: the stable sort of a group is a permutation of it,
  because its comparison is a strict total order of the positions.
* `SlotsAreOrdered`: the order in which operations are visited is total on the slots.  It compares templates
  by the positions of their words; `RenderedIsTemplate` says what the path templates are made of.
* `ExtractIsSound`, `ComponentsAreSound`: the invariant of the walk over the schemas.  A component has
  the fingerprint it was filed under, so has each schema that refers to it, and a name is
  given once: it carries the count of its base, which only grows.

From these follow, each as an invariant of the specification:

* `StatusesDocumented` (`DocumentedStatusWasSeen`): a status of an operation is that of an entry of its group,
  hence of a request, and `Traffic` says where that had it from.
* `UnvouchedLoses` (`UnvouchedNeverWins`): by the ranks, and because `choosePrimaryOrigin` and the servers
  are drawn from the target and the wire when something was located.
* `NoCallIsLost` (`EveryCallDocumented`): a hop that was sent and not overwritten, and what a bundle names, is
  in the capture by `NothingDropped`; what is meant for an API reaches confidence 50 by the rules of its path,
  method or source (`MeantIsConfident`), so it has an entry, the entry a group, and the group a slot or
  a place among the collisions of one.
* `RefsDescribe` (`RefsDescribeTheirSchema`): from `ComponentsAreSound`.

The assumptions are `ScanJobs` (requests are typed; what the browser sent is answered with a status and not
labelled static; what offline analysis names was never sent), `NormalizeConstants` (the words are a
list that contains the empty one, and singulars are words) and `QueryCaps`.  TLC evaluates them in the
run `scan_spec`, and `ScanInv` was found to hold of its instance (21588 states) before it was proved.

Trying to prove these properties showed where they said too much, and each was made exact: a
page or script that the classifiers discard does not vouch for a slot; without deduplication an entry
cannot borrow the answer of its like; an unlocated capture is named by a bundle; a
request of another scheme can stand for a call; and the floor under bundle paths and request-side signals is
the default threshold, not any.  The job `Strangers` was added to the run for the first two of these.

Only model-checked, not proved:

* everything about liveness (`Terminates`, `DialEnds`, `BackstopWorks`, `ShutdownEnds`,
  `AnalysisReturns`, `ReplayEnds`, and the fairness half of `ImplementsCrawl`), which is out
  of the prover's reach;
* `ReadsBack`, which is induction over the operands of a concatenation, through scanners that
  are recursive in the text;
* `SameOutlineInAnyOrder`.  It compares the results of the whole chain on two permutations of one capture: beyond
  the lemmas above it needs that the merges of `Deduplicate` commute and that the promotion rounds of
  the path templates see only sets, for folds over different sequences.  TLC compares all orders of
  each job.

## 6. Where the documentation and the code differ

* `http_in_flight`.  The help text of `--max-pages` says "pages already in flight
  when the limit is reached still finish" (`cmd/vespasian/main.go:235`).  That is
  what the headless engine does (`InFlightPagesFinalize` holds).  The net/http
  backend takes the same option and cancels `crawlCtx` when the last page of the
  budget is recorded (`http_crawler.go:250`): a page another worker has already
  fetched in full is then dropped.
* `http_depth`.  `docs/crawler.md:68` describes the depth as "hops from
  seed".  `Push` marks a page at the depth of the link that reached it first
  and never lowers it.  In the depth-first order of the net/http backend a page
  two hops from the seed can be queued at depth three by a longer way, so its
  links are cut off, and a page three hops away is missed by a crawl in which
  every fetch succeeded and the budget was not spent.

* `force_exit`.  `main.go:124` calls the force-exit handler "the final safety net" for a
  stuck engine, and `main.go:273` says its cleanup runs "with panic recovery to
  guarantee exitFn is called".  The cleanup is `BrowserManager.Close`, which asks
  Chrome to close over CDP, without a deadline, before it kills it.  When Chrome has
  stopped answering (one way for the engine to be stuck) that call
  waits, and neither the deferred cleanup nor the second signal ends the process.
  With a Chrome that answers, `ShutdownEnds` holds.

* `scan_order`.  `README.md:298` says that identical traffic yields "a byte-identical spec every
  run".  `Analyze` appends what each bundle gave in the order its workers finish
  (`jsstatic.go:589`), and `Deduplicate` keeps the source, URL and headers of the
  observation it sees first (`classifier.go:186`).  An endpoint that one bundle holds as a
  literal and another reconstructs is therefore written with one source tag or
  the other.  The outline of the document does not depend on the order
  (`SameOutlineInAnyOrder`), within the preconditions of that property.

Smaller points met while modelling, without a run of their own:

* `main.go:261` says Chrome is already dead when the force exit runs, "killed on first signal".
  The kill comes after the engine has returned (`rod_crawler.go:116`), so a quick second
  signal finds Chrome running; the cleanup kills it then, so nothing is lost.
* A crawl followed by generate and a scan are said to give the same capture
  (`main.go:434`, `augment.go:82`).  The requests are the same, their order is not: forms come
  before JavaScript in a scan and after it in the two commands, and the order reaches the
  document as above.
* Deduplication is also order-dependent in the origin of its representative (the key
  has no host) and in the query values past the cap; groups are then
  sorted by representative URL, which decides whose property types a merged
  response keeps.
* `openapi.go:103` says the primary server comes from the target or the capture's own
  HTML page, "never from bundle content".  The third step of `ResolveTargetOrigin`
  (`jsreplay.go:850`) takes the first request with an origin, which in a capture with
  nothing else located is one a bundle named.
* The bound on goroutines in `jsstatic.go` ("Worst-case in-flight goroutines")
  leaves out the parses that were given up and still run.
* Of the statistics of the analysis: empty bodies are not counted as skipped
  although the comment says so, and a sourcemap source given up for the context counts
  as a timeout.
* The comment at `extractor.go:893` calls a `fetch` without a method, next to one of the
  same URL that has one, a redundant duplicate, and the code drops it.  It need not be one: a bundle that
  calls both `fetch(u)` and `fetch(u, {method: "POST"})` loses the GET.  `EndpointsExplained`
  therefore excepts what is `TakenForRepeats`.
* In `forms.go`, a stray `</textarea>` while a select is pending leaves the marker
  for the selected option as the field's value, and a selected option whose end tag is
  omitted loses its value.
* In `jsreplay.go`, a list argument that is itself a sum of literals is read as one
  literal and the path dropped; a cut bundle that is fetched again with an empty 200 loses
  the part that was captured; and the set of refuted paths has no origin, so a 404 of one
  origin removes the reconstruction of another.
* `network.go:44` says all requests are captured; the entry of a redirect hop is
  overwritten by the next (`Overwritten`; without that exception `EveryCallDocumented` fails in `Forms`).
* The comment at `jsreplay.go:54` says headers are not forwarded to other origins "unless
  AllowCrossOrigin is true"; the one at `jsreplay.go:73` of the same struct says never, and so does the code
  (`HeadersStayHome`).
* A capture is written without a size limit and read with one of 100 MB.
* Without a slug, two kinds of identifier at one position give two templates of
  one shape.

## 7. What is not modelled, and why

* Of the crawl engines: what happens inside a visit (navigation, waits, DOM
  reading) is one nondeterministic step; the redirect checks and
  body handling of `fetchPage` are inside the fetch; results that `rod_crawler.go`
  gathers from `onResult` are represented by the per-page counts.
* Of the scope filters: `Normalize` and `InScope` are constants, so their URL
  arithmetic is not modelled.
* `Len` of the frontier: no code outside tests calls it.  What `Push` returns is used
  only for the seed (`Start`).
* The dialer's TLS to the proxy and its header writing: `DialProxy` and
  `WriteRequest` stand for them; they only succeed or fail.
* Of the command line: flag and header validation, which end the command before
  anything is started; the generate phase of `scan`; a cleanup that panics.  A launch that fails after its
  Chrome was started counts as one that started none: `browser.go:301` returns the launcher's error
  without `Kill` or `Cleanup`, and what is left then is up to the launcher library.
* Of the forms and JavaScript stages: the grammar of JavaScript and HTML is not modelled; a
  bundle is the call sites the parser reports and a page the tokens the tokenizer
  yields.  In `JsScan`, comments and the decoding of string escapes are left
  out, and positions count tokens.  The bindings of gRPC-Web bundles are not modelled.
* Of the classifiers: the gRPC one.  Of the pipeline: the probe stage with its gates, the WSDL
  probe between the stages, the enrichment of gRPC endpoints.
* Of the REST generator: URLs are parseable or not of the web (the raw-key branch of
  `Deduplicate` is left out); a response has one media type, standing for its field or
  its header; a reason is its signals without the media type in them; templates and
  components are visited in one fixed total order, where the code sorts strings; the
  document is not serialised or validated.
* Not modelled: the probes, whose results reach only the WSDL, GraphQL and gRPC generators (what the
  OPTIONS and schema probes find of a REST endpoint no generator reads);
  those generators and the frame reader; the importers; the SDK.  They have
  no concurrency, and what they compute is data conversion over formats.
* Not to be modelled: HTML and JS parsing, XML and YAML output, the sample servers
  under `test`, which are data conversion or fixtures without control of their own.

## 8. Plan

Done: the frontier, both backends and what a crawl promises; the dialer; the shutdown; the
augmentation of a capture; the replay of its bundles; the way from a page's traffic
to the REST document.  Proved: every safety property of these but `ReadsBack` and
`SameOutlineInAnyOrder`, and the safety half of each refinement.

What would come next, in this order:

1. `Probes`: strategies in order under failures, the origin gate of the probe
   stage, the budgets and caches of gRPC reflection.
2. GraphQL type inference against the values it was inferred from.
3. gRPC framing and tnetstrings as functions compared with a reference.
4. A proof of `SameOutlineInAnyOrder`, with a lemma that a fold of a commutative step is the same for
   every permutation of a sequence.
