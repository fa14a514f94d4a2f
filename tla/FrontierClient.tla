--------------------------- MODULE FrontierClient ---------------------------
(***************************************************************************)
(* The protocol Pop's and MarkIdle's comments impose on a crawl worker     *)
(* (pkg/crawl/frontier.go), followed by the worker loops of both backends: *)
(* Pop, visit, push the page's links one level deeper, MarkIdle exactly    *)
(* once, and leave only between pages.  A visit may fail and find no links,*)
(* and a worker may leave at any time between pages (cancellation, page    *)
(* budget).  RodCrawl and HttpCrawl implement this module.                 *)
(***************************************************************************)
EXTENDS UrlFrontier

VARIABLES
  pc,          \* where each worker is: "out", "pop", "busy" or "gone"
  main         \* Crawl itself: "start", "running", "rejected" or "returned"

vars == <<frontierVars, pc, main>>

TypeOK ==
  /\ FrontierTypeOK
  /\ pc \in [Worker -> {"out", "pop", "busy", "gone"}]
  /\ main \in {"start", "running", "rejected", "returned"}

Init ==
  /\ FrontierInit
  /\ pc = [w \in Worker |-> "out"]
  /\ main = "start"

-----------------------------------------------------------------------------
(* Crawl pushes the seed and gives up when the frontier rejects it. *)
Start ==
  /\ main = "start"
  /\ Push(SeedEntries)
  /\ main' = IF NewEntries(SeedEntries) = <<>> THEN "rejected" ELSE "running"
  /\ UNCHANGED pc

Move(w, from, to) ==
  /\ main = "running"
  /\ pc[w] = from
  /\ pc' = [pc EXCEPT ![w] = to]
  /\ UNCHANGED main

EnterPop(w) == Move(w, "out", "pop") /\ UNCHANGED frontierVars
Leave(w) == Move(w, "out", "gone") /\ UNCHANGED frontierVars
Take(w) == Move(w, "pop", "busy") /\ PopEntry(w)
Exhausted(w) == Move(w, "pop", "gone") /\ PopExhausted(w)
Park(w) == Move(w, "pop", "pop") /\ PopWait(w)

PushLinks(w) ==
  /\ Move(w, "busy", "busy")
  /\ Push(LinkEntries(held[w]))

Release(w, to) ==
  /\ Move(w, "busy", to)
  /\ MarkIdle(w)

(* wg.Wait, then frontier.Close. *)
Return ==
  /\ main = "running"
  /\ \A w \in Worker : pc[w] = "gone"
  /\ Close
  /\ main' = "returned"
  /\ UNCHANGED pc

Over == main \in {"returned", "rejected"} /\ UNCHANGED vars

Step(w) ==
  \/ EnterPop(w)
  \/ Leave(w)
  \/ Take(w)
  \/ Exhausted(w)
  \/ Park(w)
  \/ PushLinks(w)
  \/ Release(w, "out")
  \/ Release(w, "gone")

Next == Start \/ (\E w \in Worker : Step(w)) \/ Return \/ Over

Spec == Init /\ [][Next]_vars

(* A runnable goroutine is scheduled and a visit is bounded by the page    *)
(* timeout.  Pushing the same links again changes nothing, so a busy worker*)
(* that takes a real step reaches MarkIdle.                                *)
FairSpec ==
  /\ Spec
  /\ WF_vars(Start)
  /\ WF_vars(Return)
  /\ \A w \in Worker : WF_vars(Step(w))

-----------------------------------------------------------------------------
(* A worker holds an entry exactly while it is between Pop and MarkIdle,   *)
(* and sleeps only inside Pop.                                             *)
BusyHolds ==
  /\ \A w \in Worker : pc[w] = "busy" <=> held[w] # NoEntry
  /\ \A w \in waiters : pc[w] = "pop"

(* A depth is the length of a real chain of links: every entry deeper than *)
(* the seed was linked from an entry one level up that is being visited or *)
(* was visited.                                                            *)
DepthHasChain ==
  LET visited == finished \cup {held[w] : w \in Holders}
      linked(e) == \E v \in visited :
                     /\ e.depth = v.depth + 1
                     /\ \E i \in DOMAIN Links[v.url] : Links[v.url][i] = e.url
  IN  \A e \in visited \cup {queue[i] : i \in DOMAIN queue} :
        (e.depth = 0 /\ e.url = Seed) \/ linked(e)

(* The end is final: when one worker is told the frontier is exhausted, no *)
(* worker holds an entry that could still add pages, so none is ever added.*)
Drained == main = "running" /\ queue = <<>> /\ active = 0
DrainedIsFinal == [][Drained => queue' = <<>> /\ seen' = seen /\ active' = 0]_vars

(* Nobody sleeps through the end: every worker leaves and Crawl returns.   *)
Terminates == <>(main \in {"returned", "rejected"})
=============================================================================
