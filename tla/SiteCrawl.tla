------------------------------ MODULE SiteCrawl ------------------------------
(***************************************************************************)
(* What a crawl promises, without queues, workers or counters: starting    *)
(* from the seed it takes every page it has found, one time each, and ends *)
(* when nothing is left to take and nothing is in hand -- or when it is cut*)
(* short, by its context or by its page budget, and then it still lets go  *)
(* of what it has in hand before it ends.  RodCrawl and HttpCrawl are      *)
(* shown to implement it.                                                  *)
(***************************************************************************)
CONSTANT Page

VARIABLES
  phase,       \* "idle", "crawling", "rejected" or "over"
  found,       \* the pages discovered so far
  taken,       \* the pages handed to a worker so far
  inHand,      \* the pages being worked on now
  cut          \* the crawl has been told to stop early

vars == <<phase, found, taken, inHand, cut>>

Init ==
  /\ phase = "idle"
  /\ found = {}
  /\ taken = {}
  /\ inHand = {}
  /\ cut = FALSE

Begin(p) ==
  /\ phase = "idle"
  /\ phase' = "crawling"
  /\ found' = {p}
  /\ UNCHANGED <<taken, inHand, cut>>

Reject ==
  /\ phase = "idle"
  /\ phase' = "rejected"
  /\ UNCHANGED <<found, taken, inHand, cut>>

Take(p) ==
  /\ phase = "crawling"
  /\ p \in found \ taken
  /\ taken' = taken \cup {p}
  /\ inHand' = inHand \cup {p}
  /\ UNCHANGED <<phase, found, cut>>

Discover(new) ==
  /\ phase = "crawling"
  /\ inHand # {}
  /\ found' = found \cup new
  /\ UNCHANGED <<phase, taken, inHand, cut>>

Settle(p) ==
  /\ phase = "crawling"
  /\ p \in inHand
  /\ inHand' = inHand \ {p}
  /\ UNCHANGED <<phase, found, taken, cut>>

Cut ==
  /\ cut' = TRUE
  /\ UNCHANGED <<phase, found, taken, inHand>>

End ==
  /\ phase = "crawling"
  /\ inHand = {}
  /\ cut \/ found = taken
  /\ phase' = "over"
  /\ UNCHANGED <<found, taken, inHand, cut>>

Progress == (\E p \in Page : Begin(p) \/ Take(p) \/ Settle(p)) \/ Reject \/ End

Next == Progress \/ (\E new \in SUBSET Page : Discover(new)) \/ Cut

Spec == Init /\ [][Next]_vars

(* What it takes is also what it gets done: a crawl that can go on does.    *)
FairSpec == Spec /\ WF_vars(Progress)
=============================================================================
