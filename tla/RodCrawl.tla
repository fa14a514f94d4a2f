------------------------------ MODULE RodCrawl ------------------------------
(***************************************************************************)
(* The headless crawl engine (pkg/crawl/engine.go): Concurrency workers,   *)
(* one browser tab each, share the frontier, the page budget (pageCount    *)
(* under its own mutex) and the crawl context.  A worker reserves a slot   *)
(* of the budget before it visits, so reaching the budget stops workers    *)
(* from taking pages and never cancels a page in flight; only the context  *)
(* (signal or timeout) cuts a page short.                                  *)
(***************************************************************************)
EXTENDS UrlFrontier

CONSTANTS
  MaxPages,    \* opts.MaxPages; zero or less is unlimited
  MaxRequests  \* bound of the model: requests captured on one page

ASSUME RodAssumption == MaxPages \in Int /\ MaxRequests \in Nat /\ Worker # {}

VARIABLES
  pc,          \* where each worker is in its loop
  main,        \* Crawl: "start", "running", "rejected" or "returned"
  ctxDone,     \* ctx.Err() # nil
  pageCount,   \* the page slots reserved so far
  linked,      \* the workers whose visit returned links
  captured,    \* requests visitPage returned, per page
  emitted,     \* requests passed to onResult, per page
  fate,        \* history: what became of each entry given back
  late         \* history: the visits begun after the context ended

crawlVars == <<ctxDone, pageCount, linked, captured, emitted, fate, late>>
vars == <<frontierVars, pc, main, crawlVars>>

Label == {"top", "budget", "pop", "reserve", "drop", "visit", "failed",
          "emit", "quit", "push", "idle", "gone"}
Visiting == {"visit", "failed", "emit", "quit", "push", "idle"}

(* done: every request emitted and the links pushed; bare: emitted, no     *)
(* links; error: the visit failed; cut: the context ended first; dropped:  *)
(* popped when the budget was already spent.                               *)
Fate == {"done", "bare", "error", "cut", "dropped"}

TypeOK ==
  /\ FrontierTypeOK
  /\ pc \in [Worker -> Label]
  /\ main \in {"start", "running", "rejected", "returned"}
  /\ ctxDone \in BOOLEAN
  /\ pageCount \in Nat
  /\ linked \subseteq Worker
  /\ captured \in [Page -> 0..MaxRequests]
  /\ emitted \in [Page -> 0..MaxRequests]
  /\ fate \in [Fate -> SUBSET Entry]
  /\ late \in Nat

Init ==
  /\ FrontierInit
  /\ pc = [w \in Worker |-> "top"]
  /\ main = "start"
  /\ ctxDone = FALSE
  /\ pageCount = 0
  /\ linked = {}
  /\ captured = [p \in Page |-> 0]
  /\ emitted = [p \in Page |-> 0]
  /\ fate = [f \in Fate |-> {}]
  /\ late = 0

BudgetReached == MaxPages > 0 /\ pageCount >= MaxPages
HeldPage(w) == PageOf(held[w])

-----------------------------------------------------------------------------
(* Crawl: seed the frontier, or report the seed rejected. *)
Start ==
  /\ main = "start"
  /\ Push(SeedEntries)
  /\ main' = IF NewEntries(SeedEntries) = <<>> THEN "rejected" ELSE "running"
  /\ UNCHANGED <<pc, crawlVars>>

(* A signal, or the crawl timeout. *)
CancelContext ==
  /\ main \in {"start", "running"}
  /\ ~ctxDone
  /\ ctxDone' = TRUE
  /\ UNCHANGED <<frontierVars, pc, main, pageCount, linked, captured, emitted, fate, late>>

(* wg.Wait, then frontier.Close. *)
Return ==
  /\ main = "running"
  /\ \A w \in Worker : pc[w] = "gone"
  /\ Close
  /\ main' = "returned"
  /\ UNCHANGED <<pc, crawlVars>>

Goto(w, from, to) ==
  /\ main = "running"
  /\ pc[w] = from
  /\ pc' = [pc EXCEPT ![w] = to]
  /\ UNCHANGED main

(* Mutant: the loop does not look at the context. *)
CheckContextNever(w) ==
  /\ Goto(w, "top", "budget")
  /\ UNCHANGED <<frontierVars, crawlVars>>

CheckContext(w) ==
  /\ Goto(w, "top", IF ctxDone THEN "gone" ELSE "budget")
  /\ UNCHANGED <<frontierVars, crawlVars>>

CheckBudget(w) ==
  /\ Goto(w, "budget", IF BudgetReached THEN "gone" ELSE "pop")
  /\ UNCHANGED <<frontierVars, crawlVars>>

Pop(w) ==
  /\ \/ Goto(w, "pop", "reserve") /\ PopEntry(w)
     \/ Goto(w, "pop", "gone") /\ PopExhausted(w)
     \/ Goto(w, "pop", "pop") /\ PopWait(w)
  /\ UNCHANGED crawlVars

(* Mutant: the slot is taken without a second look at the budget. *)
ReserveSlotBlindly(w) ==
  /\ Goto(w, "reserve", "visit")
  /\ pageCount' = pageCount + 1
  /\ late' = IF ctxDone THEN late + 1 ELSE late
  /\ UNCHANGED <<frontierVars, ctxDone, linked, captured, emitted, fate>>

(* pageBudgetReached with reserve = true: compare and increment under mu. *)
ReserveSlot(w) ==
  /\ Goto(w, "reserve", IF BudgetReached THEN "drop" ELSE "visit")
  /\ pageCount' = IF BudgetReached THEN pageCount ELSE pageCount + 1
  /\ late' = IF ctxDone /\ ~BudgetReached THEN late + 1 ELSE late
  /\ UNCHANGED <<frontierVars, ctxDone, linked, captured, emitted, fate>>

(* visitPage fails: no tab, no navigation, a dead browser, a timeout. *)
VisitFails(w) ==
  /\ Goto(w, "visit", "failed")
  /\ UNCHANGED <<frontierVars, crawlVars>>

(* visitPage returns what was captured so far.  The links are missing when *)
(* the context ended during the waits or the DOM could not be read.        *)
VisitReturns(w) ==
  /\ Goto(w, "visit", "emit")
  /\ \E n \in 0..MaxRequests : captured' = [captured EXCEPT ![HeldPage(w)] = n]
  /\ linked' \in {linked \cup {w}, linked \ {w}}
  /\ UNCHANGED <<frontierVars, ctxDone, pageCount, emitted, fate, late>>

(* Mutant: reaching the budget cancels the pages in flight. *)
EmitRequestUnlessFull(w) ==
  LET stop == ctxDone \/ BudgetReached
  IN  /\ Goto(w, "emit", IF stop THEN "quit" ELSE "emit")
      /\ emitted[HeldPage(w)] < captured[HeldPage(w)]
      /\ emitted' = IF stop THEN emitted ELSE [emitted EXCEPT ![HeldPage(w)] = @ + 1]
      /\ UNCHANGED <<frontierVars, ctxDone, pageCount, linked, captured, fate, late>>

(* The emit loop checks the context before each request. *)
EmitRequest(w) ==
  /\ Goto(w, "emit", IF ctxDone THEN "quit" ELSE "emit")
  /\ emitted[HeldPage(w)] < captured[HeldPage(w)]
  /\ emitted' = IF ctxDone THEN emitted ELSE [emitted EXCEPT ![HeldPage(w)] = @ + 1]
  /\ UNCHANGED <<frontierVars, ctxDone, pageCount, linked, captured, fate, late>>

(* Mutant: the links of a page are forgotten. *)
EmitDoneWithoutLinks(w) ==
  /\ Goto(w, "emit", "idle")
  /\ emitted[HeldPage(w)] = captured[HeldPage(w)]
  /\ UNCHANGED <<frontierVars, crawlVars>>

EmitDone(w) ==
  /\ Goto(w, "emit", IF w \in linked THEN "push" ELSE "idle")
  /\ emitted[HeldPage(w)] = captured[HeldPage(w)]
  /\ UNCHANGED <<frontierVars, crawlVars>>

PushLinks(w) ==
  /\ Goto(w, "push", "idle")
  /\ Push(LinkEntries(held[w]))
  /\ UNCHANGED crawlVars

(* Mutant: a worker that stops for the context returns without MarkIdle. *)
GiveBackUnlessCut(w, from, to, f) ==
  /\ Goto(w, from, to)
  /\ IF f = "cut" THEN UNCHANGED frontierVars ELSE MarkIdle(w)
  /\ fate' = [fate EXCEPT ![f] = @ \cup {held[w]}]
  /\ UNCHANGED <<ctxDone, pageCount, linked, captured, emitted, late>>

(* The four MarkIdle calls of the loop, and where each one goes next. *)
GiveBack(w, from, to, f) ==
  /\ Goto(w, from, to)
  /\ MarkIdle(w)
  /\ fate' = [fate EXCEPT ![f] = @ \cup {held[w]}]
  /\ UNCHANGED <<ctxDone, pageCount, linked, captured, emitted, late>>

Release(w) ==
  \/ GiveBack(w, "drop", "gone", "dropped")
  \/ ctxDone /\ GiveBack(w, "failed", "gone", "cut")
  \/ ~ctxDone /\ GiveBack(w, "failed", "top", "error")
  \/ GiveBack(w, "quit", "gone", "cut")
  \/ w \in linked /\ GiveBack(w, "idle", "top", "done")
  \/ w \notin linked /\ GiveBack(w, "idle", "top", "bare")

Step(w) ==
  \/ CheckContext(w)
  \/ CheckBudget(w)
  \/ Pop(w)
  \/ ReserveSlot(w)
  \/ VisitFails(w)
  \/ VisitReturns(w)
  \/ EmitRequest(w)
  \/ EmitDone(w)
  \/ PushLinks(w)
  \/ Release(w)

Over == main \in {"returned", "rejected"} /\ UNCHANGED vars

Next == Start \/ CancelContext \/ (\E w \in Worker : Step(w)) \/ Return \/ Over

(* A runnable goroutine is scheduled, and a visit is bounded by the page   *)
(* timeout.  Nobody promises to cancel.                                    *)
Spec ==
  /\ Init /\ [][Next]_vars
  /\ WF_vars(Start) /\ WF_vars(Return)
  /\ \A w \in Worker : WF_vars(Step(w))

-----------------------------------------------------------------------------
(* The budget is exact: every reserved slot is one page being visited or   *)
(* visited, there are never more of them than MaxPages, and an entry that  *)
(* was taken is given up unvisited only when no slot is left.              *)
Visited == fate["done"] \cup fate["bare"] \cup fate["error"] \cup fate["cut"]
BudgetExact ==
  /\ MaxPages > 0 => pageCount <= MaxPages
  /\ pageCount = Cardinality(Visited) + Cardinality({w \in Worker : pc[w] \in Visiting})
  /\ fate["dropped"] # {} \/ (\E w \in Worker : pc[w] = "drop") => BudgetReached

(* Reaching the budget never costs a page its traffic: unless the context  *)
(* ends, every request captured on a visited page is emitted.              *)
InFlightPagesFinalize ==
  /\ ~ctxDone => fate["cut"] = {}
  /\ \A e \in fate["done"] \cup fate["bare"] :
       emitted[PageOf(e)] = captured[PageOf(e)]

(* A crawl that was not cut short is complete: every page it found was     *)
(* visited, and every admissible link of a page whose links were read has  *)
(* been found.                                                             *)
CompleteUnlessCut ==
  main = "returned" /\ ~ctxDone /\ ~BudgetReached =>
    /\ queue = <<>>
    /\ seen = {PageOf(e) : e \in fate["done"] \cup fate["bare"] \cup fate["error"]}
    /\ \A e \in fate["done"] : \A i \in DOMAIN LinkEntries(e) :
         Admissible(LinkEntries(e)[i]) => PageOf(LinkEntries(e)[i]) \in seen

(* A canceled crawl winds down: each worker begins at most the one page it *)
(* was already on its way to when the context ended.                       *)
CancelIsPrompt == late <= Cardinality(Worker)

-----------------------------------------------------------------------------
(* The worker loop keeps the frontier's protocol. *)
clientPc ==
  [w \in Worker |->
     CASE pc[w] \in {"top", "budget"} -> "out"
       [] pc[w] \in {"pop", "gone"}   -> pc[w]
       [] OTHER                       -> "busy"]

Client == INSTANCE FrontierClient WITH pc <- clientPc
KeepsFrontierProtocol == Client!Spec

(* The engine is a crawl. *)
Phase ==
  CASE main = "start"    -> "idle"
    [] main = "running"  -> "crawling"
    [] main = "rejected" -> "rejected"
    [] OTHER             -> "over"

CutShort == ctxDone \/ BudgetReached

Abstract == INSTANCE SiteCrawl WITH
  phase <- Phase, found <- seen, taken <- TakenPages, inHand <- HeldPages, cut <- CutShort
ImplementsCrawl == Abstract!FairSpec
=============================================================================
