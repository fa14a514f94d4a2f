------------------------------ MODULE HttpCrawl ------------------------------
(***************************************************************************)
(* The net/http crawl backend (pkg/crawl/http_crawler.go): Concurrency     *)
(* workers share a depth-first frontier, a result list with a page count   *)
(* under one mutex, and crawlCtx.  Here a page is counted after it was     *)
(* fetched, and the worker that records the last page of the budget cancels*)
(* crawlCtx, which stops the other workers and fails what they have in     *)
(* flight.  The caller's own context cancels crawlCtx too, and only that   *)
(* makes Crawl return an error.                                            *)
(***************************************************************************)
EXTENDS UrlFrontier

CONSTANT MaxPages    \* the budget validateCrawlInputs returns

ASSUME HttpAssumption == MaxPages \in Nat \ {0} /\ Dfs = TRUE /\ Worker # {}

VARIABLES
  pc,          \* where each worker is in its loop
  main,        \* Crawl: "start", "running", "rejected", "refused",
               \* "returned" or "interrupted"
  ctxDone,     \* ctx.Err() # nil
  canceled,    \* crawlCancel was called by a worker
  pageCount,   \* pageCount
  results,     \* the entries whose observation is in results, in order
  linked,      \* the workers whose fetch found links
  fate,        \* history: what became of each entry given back
  discarded    \* history: the entries fetched in full and not recorded

crawlVars == <<ctxDone, canceled, pageCount, results, linked, fate, discarded>>
vars == <<frontierVars, pc, main, crawlVars>>

Label == {"top", "pop", "limit", "fetch", "record", "push", "idle", "failed", "aborted",
          "gone"}

(* error: the fetch failed while crawlCtx was live; cut: it failed after   *)
(* crawlCtx was canceled; done, bare: it succeeded, with, without links.   *)
Fate == {"done", "bare", "error", "cut"}

TypeOK ==
  /\ FrontierTypeOK
  /\ pc \in [Worker -> Label]
  /\ main \in {"start", "running", "rejected", "refused", "returned", "interrupted"}
  /\ ctxDone \in BOOLEAN
  /\ canceled \in BOOLEAN
  /\ pageCount \in 0..MaxPages
  /\ results \in Seq(Entry)
  /\ linked \subseteq Worker
  /\ fate \in [Fate -> SUBSET Entry]
  /\ discarded \subseteq Entry

Init ==
  /\ FrontierInit
  /\ pc = [w \in Worker |-> "top"]
  /\ main = "start"
  /\ ctxDone = FALSE
  /\ canceled = FALSE
  /\ pageCount = 0
  /\ results = <<>>
  /\ linked = {}
  /\ fate = [f \in Fate |-> {}]
  /\ discarded = {}

CrawlCtxDone == ctxDone \/ canceled

-----------------------------------------------------------------------------
(* Crawl seeds the frontier, or reports the seed rejected. *)
Start ==
  /\ main = "start"
  /\ Push(SeedEntries)
  /\ main' = IF NewEntries(SeedEntries) = <<>> THEN "rejected" ELSE "running"
  /\ UNCHANGED <<pc, crawlVars>>

(* A context that is done when Crawl is called: it looks once, early. *)
StartInterrupted ==
  /\ main = "start"
  /\ ctxDone
  /\ main' = "refused"
  /\ UNCHANGED <<frontierVars, pc, crawlVars>>

(* A signal, or the crawl timeout. *)
CancelContext ==
  /\ main \in {"start", "running"}
  /\ ~ctxDone
  /\ ctxDone' = TRUE
  /\ UNCHANGED <<frontierVars, pc, main, canceled, pageCount, results, linked,
                 fate, discarded>>

(* wg.Wait and frontier.Close; the snapshot comes with ctx.Err() or nil. *)
Return ==
  /\ main = "running"
  /\ \A w \in Worker : pc[w] = "gone"
  /\ Close
  /\ main' = IF ctxDone THEN "interrupted" ELSE "returned"
  /\ UNCHANGED <<pc, crawlVars>>

Goto(w, from, to) ==
  /\ main = "running"
  /\ pc[w] = from
  /\ pc' = [pc EXCEPT ![w] = to]
  /\ UNCHANGED main

CheckContext(w) ==
  /\ Goto(w, "top", IF CrawlCtxDone THEN "gone" ELSE "pop")
  /\ UNCHANGED <<frontierVars, crawlVars>>

Pop(w) ==
  /\ \/ Goto(w, "pop", "limit") /\ PopEntry(w)
     \/ Goto(w, "pop", "gone") /\ PopExhausted(w)
     \/ Goto(w, "pop", "pop") /\ PopWait(w)
  /\ UNCHANGED crawlVars

(* limiter.Wait refuses a context that is already done; otherwise a token  *)
(* comes, or it is known not to come within the page timeout.              *)
WaitLimiter(w) ==
  /\ \/ CrawlCtxDone /\ Goto(w, "limit", "aborted")
     \/ ~CrawlCtxDone /\ Goto(w, "limit", "failed")
     \/ ~CrawlCtxDone /\ Goto(w, "limit", "fetch")
  /\ UNCHANGED <<frontierVars, crawlVars>>

(* The request, the redirects or the page timeout end in an error; so does *)
(* a request in flight when crawlCtx is canceled, unless its headers are   *)
(* in: then the body read so far counts as the page.                       *)
FetchFails(w) ==
  /\ Goto(w, "fetch", IF CrawlCtxDone THEN "aborted" ELSE "failed")
  /\ UNCHANGED <<frontierVars, crawlVars>>

FetchReturns(w) ==
  /\ Goto(w, "fetch", "record")
  /\ linked' \in {linked \cup {w}, linked \ {w}}
  /\ UNCHANGED <<frontierVars, ctxDone, canceled, pageCount, results, fate, discarded>>

(* Mutant: the budget is not checked again before recording. *)
RecordUnchecked(w) ==
  /\ Goto(w, "record", IF w \in linked THEN "push" ELSE "idle")
  /\ pageCount' = pageCount + 1
  /\ results' = Append(results, held[w])
  /\ canceled' = (canceled \/ pageCount' >= MaxPages)
  /\ UNCHANGED <<frontierVars, ctxDone, linked, fate, discarded>>

(* Mutant: off by one, the page that spends the budget does not cancel. *)
RecordCancelsLate(w) ==
  LET room == pageCount < MaxPages
  IN  /\ Goto(w, "record", IF w \in linked THEN "push" ELSE "idle")
      /\ pageCount' = IF room THEN pageCount + 1 ELSE pageCount
      /\ results' = IF room THEN Append(results, held[w]) ELSE results
      /\ canceled' = (canceled \/ (room /\ pageCount' > MaxPages))
      /\ discarded' = IF room THEN discarded ELSE discarded \cup {held[w]}
      /\ UNCHANGED <<frontierVars, ctxDone, linked, fate>>

(* The critical section: count and record within the budget, cancel when   *)
(* it is spent, drop the page when it was spent before.                    *)
Record(w) ==
  LET room == pageCount < MaxPages
  IN  /\ Goto(w, "record", IF w \in linked THEN "push" ELSE "idle")
      /\ pageCount' = IF room THEN pageCount + 1 ELSE pageCount
      /\ results' = IF room THEN Append(results, held[w]) ELSE results
      /\ canceled' = (canceled \/ (room /\ pageCount' >= MaxPages))
      /\ discarded' = IF room THEN discarded ELSE discarded \cup {held[w]}
      /\ UNCHANGED <<frontierVars, ctxDone, linked, fate>>

(* Mutant: only the links of the first page recorded are pushed. *)
PushLinksOnce(w) ==
  /\ Goto(w, "push", "idle")
  /\ IF pageCount = 1 THEN Push(LinkEntries(held[w])) ELSE UNCHANGED frontierVars
  /\ UNCHANGED crawlVars

(* Links are pushed even when the page itself was dropped. *)
PushLinks(w) ==
  /\ Goto(w, "push", "idle")
  /\ Push(LinkEntries(held[w]))
  /\ UNCHANGED crawlVars

(* Mutant: a fetch cut by the context skips MarkIdle. *)
GiveBackUnlessCut(w, from, f) ==
  /\ Goto(w, from, "top")
  /\ IF f = "cut" THEN UNCHANGED frontierVars ELSE MarkIdle(w)
  /\ fate' = [fate EXCEPT ![f] = @ \cup {held[w]}]
  /\ UNCHANGED <<ctxDone, canceled, pageCount, results, linked, discarded>>

GiveBack(w, from, f) ==
  /\ Goto(w, from, "top")
  /\ MarkIdle(w)
  /\ fate' = [fate EXCEPT ![f] = @ \cup {held[w]}]
  /\ UNCHANGED <<ctxDone, canceled, pageCount, results, linked, discarded>>

Release(w) ==
  \/ GiveBack(w, "failed", "error")
  \/ GiveBack(w, "aborted", "cut")
  \/ w \in linked /\ GiveBack(w, "idle", "done")
  \/ w \notin linked /\ GiveBack(w, "idle", "bare")

Step(w) ==
  \/ CheckContext(w)
  \/ Pop(w)
  \/ WaitLimiter(w)
  \/ FetchFails(w)
  \/ FetchReturns(w)
  \/ Record(w)
  \/ PushLinks(w)
  \/ Release(w)

Ended == {"returned", "interrupted", "rejected", "refused"}
Over == main \in Ended /\ UNCHANGED vars

Next == Start \/ StartInterrupted \/ CancelContext \/ (\E w \in Worker : Step(w)) \/ Return \/ Over

(* A runnable goroutine is scheduled, and a fetch is bounded by the page   *)
(* timeout.  Nobody promises to cancel.                                    *)
Spec ==
  /\ Init /\ [][Next]_vars
  /\ WF_vars(Start \/ StartInterrupted) /\ WF_vars(Return)
  /\ \A w \in Worker : WF_vars(Step(w))

-----------------------------------------------------------------------------
Recorded == {results[i] : i \in DOMAIN results}
Fetched == fate["done"] \cup fate["bare"]
HeldBy(W) == {held[w] : w \in W}
PastRecord == HeldBy({w \in Worker : pc[w] \in {"push", "idle"}})

(* The list and its count stay together under concurrent workers: no page  *)
(* is recorded twice, the budget is never exceeded, and a fetched page that*)
(* is not in the list was discarded because the budget was spent.          *)
RecordsFetchedPages ==
  /\ pageCount = Len(results) /\ pageCount <= MaxPages
  /\ \A i, j \in DOMAIN results : PageOf(results[i]) = PageOf(results[j]) => i = j
  /\ Recorded \cup discarded = Fetched \cup PastRecord
  /\ Recorded \cap discarded = {}
  /\ discarded # {} => pageCount = MaxPages

(* The crawl over-fetches by less than the number of workers: a page is    *)
(* fetched and dropped only if its fetch had begun when the last page of   *)
(* the budget was recorded.                                                *)
OvershootBounded == Cardinality(discarded) < Cardinality(Worker)

(* Only a spent budget or the caller stops a crawl early: a fetch is cut by*)
(* nothing else, and Crawl reports an error exactly when the caller did it.*)
CutsAreExplained ==
  /\ canceled <=> pageCount = MaxPages
  /\ fate["cut"] # {} => ctxDone \/ pageCount = MaxPages
  /\ main = "returned" /\ pageCount < MaxPages => fate["cut"] = {} /\ queue = <<>>

(* A crawl that was not cut short is complete: every page it found was     *)
(* fetched and recorded, or failed, and every admissible link of a fetched *)
(* page has been found.                                                    *)
CompleteUnlessCut ==
  main = "returned" /\ pageCount < MaxPages =>
    /\ seen = PagesIn(results) \cup {PageOf(e) : e \in fate["error"]}
    /\ \A e \in fate["done"] : \A i \in DOMAIN LinkEntries(e) :
         Admissible(LinkEntries(e)[i]) => PageOf(LinkEntries(e)[i]) \in seen

(* The help text of --max-pages: pages already in flight when the limit is *)
(* reached still finish.  Said of this backend: no page that was fetched to*)
(* its end is dropped.                                                     *)
InFlightPagesFinish == discarded = {}

(* The documentation of Depth, "hops from seed": a crawl that ran to its   *)
(* end with every fetch in order has found each page MaxDepth hops away.   *)
DepthIsHops ==
  main = "returned" /\ pageCount < MaxPages /\ fate["error"] \cup fate["bare"] = {} =>
    PagesWithin(MaxDepth) \subseteq seen

-----------------------------------------------------------------------------
(* The worker loop keeps the frontier's protocol.  A crawl refused for its *)
(* context never reached the frontier.                                     *)
clientPc ==
  [w \in Worker |->
     CASE pc[w] = "top"            -> "out"
       [] pc[w] \in {"pop", "gone"} -> pc[w]
       [] OTHER                     -> "busy"]

Client == INSTANCE FrontierClient WITH
            pc <- clientPc,
            main <- CASE main = "interrupted" -> "returned"
                      [] main = "refused"     -> "start"
                      [] OTHER                -> main
KeepsFrontierProtocol == Client!Spec

(* The backend is a crawl. *)
Phase ==
  CASE main = "start"    -> "idle"
    [] main = "running"  -> "crawling"
    [] main \in {"rejected", "refused"} -> "rejected"
    [] OTHER             -> "over"

Abstract == INSTANCE SiteCrawl WITH
  phase <- Phase, found <- seen, taken <- TakenPages, inHand <- HeldPages,
  cut <- CrawlCtxDone
ImplementsCrawl == Abstract!FairSpec
=============================================================================
