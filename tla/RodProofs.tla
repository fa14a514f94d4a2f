------------------------------ MODULE RodProofs ------------------------------
(***************************************************************************)
(* Proofs about the headless crawl engine, for every site, every number of *)
(* workers and every page budget; and about the command around it, for any *)
(* number of signals: no exit leaves Chrome or its directory behind, and   *)
(* being stopped is not a failure of the command.                          *)
(***************************************************************************)
EXTENDS RodCrawl, CrawlShutdown, FrontierLemmas

USE FrontierAssumption, RodAssumption

-----------------------------------------------------------------------------
(* The invariant: what a worker's place in its loop says about the entry   *)
(* it holds, the slot it reserved and the requests it emitted.             *)

Holding == Visiting \cup {"reserve", "drop"}
VisitingNow == {w \in Worker : pc[w] \in Visiting}

(* On the way to a visit, past the last look at the context. *)
Approaching == {w \in Worker : pc[w] \in {"budget", "pop", "reserve"}}

HoldsByLabel == \A w \in Worker : pc[w] \in Holding <=> held[w] # NoEntry

VisitedWereHeld == IsFiniteSet(Visited) /\ Visited \subseteq finished

EmittedInFull ==
  /\ \A w \in Worker : pc[w] \in {"push", "idle"} =>
       emitted[HeldPage(w)] = captured[HeldPage(w)]
  /\ \A w \in Worker : pc[w] = "quit" => ctxDone

LateAreCounted ==
  IF ctxDone THEN late + Cardinality(Approaching) <= Cardinality(Worker) ELSE late = 0

(* Nobody leaves a crawl that was not cut before the frontier is empty and *)
(* nobody is left to add to it.                                            *)
LeaveInv ==
  /\ closed => main = "returned"
  /\ main = "start" => seen = {} /\ \A w \in Worker : pc[w] = "top"
  /\ main = "returned" => \A w \in Worker : pc[w] = "gone"
  /\ ~ctxDone /\ ~BudgetReached /\ (\E w \in Worker : pc[w] = "gone") =>
       queue = <<>> /\ active = 0

LinksFound(e) ==
  \A i \in DOMAIN LinkEntries(e) :
    Admissible(LinkEntries(e)[i]) => PageOf(LinkEntries(e)[i]) \in seen

LinksInv ==
  /\ finished = Visited \cup fate["dropped"]
  /\ \A e \in fate["done"] : LinksFound(e)
  /\ \A w \in Worker : pc[w] = "idle" /\ w \in linked => LinksFound(held[w])

LoopInv == TypeOK /\ FrontierInv /\ HoldsByLabel

IInv ==
  /\ LoopInv
  /\ VisitedWereHeld /\ BudgetExact
  /\ EmittedInFull /\ InFlightPagesFinalize
  /\ LateAreCounted
  /\ LeaveInv /\ LinksInv

-----------------------------------------------------------------------------
(* Lemmas about one worker's move.                                         *)

(* A worker that holds an entry holds a page, no other worker holds it and *)
(* it is not the page of a finished entry.                                 *)
LEMMA HeldPageIsOwn ==
  ASSUME LoopInv, NEW w \in Worker, pc[w] \in Holding
  PROVE  /\ held[w] \in Entry /\ HeldPage(w) \in Page
         /\ held[w] \notin finished
         /\ \A v \in Worker : pc[v] \in Holding /\ v # w => HeldPage(v) # HeldPage(w)
         /\ \A e \in finished : PageOf(e) # HeldPage(w)
<1>1. held[w] \in Entry /\ w \in Holders
  BY DEF LoopInv, HoldsByLabel, Holders, FrontierInv, FrontierTypeOK
<1>2. HeldPage(w) \in HeldPages
  BY <1>1 DEF HeldPages, HeldPage
<1>3. HeldPage(w) \in Page
  BY <1>2 DEF LoopInv, FrontierInv, EachPageOnce, FrontierTypeOK
<1>4. \A v \in Worker : pc[v] \in Holding => v \in Holders
  BY DEF LoopInv, HoldsByLabel, Holders
<1>5. \A v \in Worker : pc[v] \in Holding /\ v # w => HeldPage(v) # HeldPage(w)
  BY <1>1, <1>4 DEF LoopInv, FrontierInv, EachPageOnce, HeldPage
<1>6. \A e \in finished : PageOf(e) # HeldPage(w)
  BY <1>2 DEF LoopInv, FrontierInv, EachPageOnce, FinishedPages
<1> QED BY <1>1, <1>3, <1>5, <1>6 DEF HeldPage

(* How the two sets of workers change when one worker moves.               *)
LEMMA MoveSets ==
  ASSUME NEW w \in Worker, NEW from, NEW to \in Label, pc \in [Worker -> Label],
         Goto(w, from, to)
  PROVE  /\ pc[w] = from /\ main = "running" /\ main' = main
         /\ pc' = [pc EXCEPT ![w] = to]
         /\ pc' \in [Worker -> Label]
         /\ VisitingNow' = IF to \in Visiting THEN VisitingNow \cup {w} ELSE VisitingNow \ {w}
         /\ Approaching' = IF to \in {"budget", "pop", "reserve"}
                           THEN Approaching \cup {w} ELSE Approaching \ {w}
<1>1. pc[w] = from /\ main = "running" /\ main' = main /\ pc' = [pc EXCEPT ![w] = to]
  BY DEF Goto
<1>2. pc'[w] = to /\ \A v \in Worker \ {w} : pc'[v] = pc[v]
  BY <1>1
<1>3. VisitingNow' = IF to \in Visiting THEN VisitingNow \cup {w} ELSE VisitingNow \ {w}
  BY <1>2 DEF VisitingNow
<1>4. Approaching' = IF to \in {"budget", "pop", "reserve"}
                     THEN Approaching \cup {w} ELSE Approaching \ {w}
  BY <1>2 DEF Approaching
<1> QED BY <1>1, <1>3, <1>4

LEMMA WorkersFinite ==
  /\ IsFiniteSet(VisitingNow) /\ Cardinality(VisitingNow) \in Nat
  /\ IsFiniteSet(Approaching) /\ Cardinality(Approaching) \in Nat
  /\ Cardinality(Approaching) <= Cardinality(Worker) /\ Cardinality(Worker) \in Nat
BY FS_Subset, FS_CardinalityType DEF VisitingNow, Approaching

-----------------------------------------------------------------------------
(* Types, the frontier and the labels that go with holding an entry.       *)

LEMMA LoopInit == Init => LoopInv
<1> SUFFICES ASSUME Init PROVE LoopInv
  OBVIOUS
<1>1. FrontierInv
  BY FrontierInitInv DEF Init
<1>2. TypeOK
  <2>1. pc \in [Worker -> Label]
    BY DEF Init, Label
  <2>2. captured \in [Page -> 0..MaxRequests] /\ emitted \in [Page -> 0..MaxRequests]
    BY DEF Init
  <2>3. fate \in [Fate -> SUBSET Entry]
    BY DEF Init
  <2> QED BY <1>1, <2>1, <2>2, <2>3 DEF Init, TypeOK, FrontierInv
<1>3. HoldsByLabel
  BY DEF Init, FrontierInit, HoldsByLabel, Holding, Visiting
<1> QED BY <1>1, <1>2, <1>3 DEF LoopInv

(* A step of the loop that leaves the frontier alone.                      *)
LEMMA LocalStep ==
  ASSUME LoopInv, NEW w \in Worker,
         CheckContext(w) \/ CheckBudget(w) \/ ReserveSlot(w) \/ VisitFails(w)
           \/ VisitReturns(w) \/ EmitRequest(w) \/ EmitDone(w)
  PROVE  /\ UNCHANGED <<frontierVars, main, ctxDone, fate>>
         /\ \E from, to \in Label :
              /\ Goto(w, from, to)
              /\ from \in Holding <=> to \in Holding
         /\ TypeOK'
<1>0. TypeOK /\ pc[w] \in Label
  BY DEF LoopInv, TypeOK
<1>1. CASE CheckContext(w)
  BY <1>0, <1>1 DEF CheckContext, Goto, crawlVars, Label, Holding, Visiting, TypeOK,
                   FrontierTypeOK, frontierVars
<1>2. CASE CheckBudget(w)
  BY <1>0, <1>2 DEF CheckBudget, Goto, crawlVars, Label, Holding, Visiting, TypeOK,
                   FrontierTypeOK, frontierVars
<1>3. CASE ReserveSlot(w)
  <2>1. PICK to \in {"drop", "visit"} : Goto(w, "reserve", to)
    BY <1>3 DEF ReserveSlot
  <2>2. pageCount' \in Nat /\ late' \in Nat
    BY <1>0, <1>3 DEF ReserveSlot, TypeOK
  <2>3. UNCHANGED <<frontierVars, ctxDone, linked, captured, emitted, fate>>
    BY <1>3 DEF ReserveSlot
  <2>4. {"reserve", "drop", "visit"} \subseteq Label \cap Holding
    BY DEF Label, Holding, Visiting
  <2>5. pc' \in [Worker -> Label] /\ main' = main
    BY <1>0, <2>1, <2>4, MoveSets DEF TypeOK
  <2>6. TypeOK'
    BY <1>0, <2>2, <2>3, <2>5 DEF TypeOK, FrontierTypeOK, frontierVars
  <2> QED BY <2>1, <2>3, <2>4, <2>5, <2>6
<1>4. CASE VisitFails(w)
  BY <1>0, <1>4 DEF VisitFails, Goto, crawlVars, Label, Holding, Visiting, TypeOK,
                   FrontierTypeOK, frontierVars
<1>5. CASE VisitReturns(w)
  <2>1. Goto(w, "visit", "emit") /\ {"visit", "emit"} \subseteq Label \cap Holding
    BY <1>5 DEF VisitReturns, Label, Holding, Visiting
  <2>2. captured' \in [Page -> 0..MaxRequests]
    BY <1>0, <1>5 DEF VisitReturns, TypeOK
  <2>3. linked' \subseteq Worker
    BY <1>0, <1>5 DEF VisitReturns, TypeOK
  <2>4. UNCHANGED <<frontierVars, ctxDone, pageCount, emitted, fate, late>>
    BY <1>5 DEF VisitReturns
  <2>5. pc' \in [Worker -> Label] /\ main' = main
    BY <1>0, <2>1, MoveSets DEF TypeOK
  <2>6. TypeOK'
    BY <1>0, <2>2, <2>3, <2>4, <2>5 DEF TypeOK, FrontierTypeOK, frontierVars
  <2> QED BY <2>1, <2>4, <2>5, <2>6
<1>6. CASE EmitRequest(w)
  <2>1. HeldPage(w) \in Page
    BY <1>6, HeldPageIsOwn DEF EmitRequest, Goto, Holding, Visiting
  <2>2. emitted' \in [Page -> 0..MaxRequests]
    BY <1>0, <1>6, <2>1 DEF EmitRequest, TypeOK
  <2> QED BY <1>0, <1>6, <2>2 DEF EmitRequest, Goto, Label, Holding, Visiting, TypeOK,
                   FrontierTypeOK, frontierVars
<1>7. CASE EmitDone(w)
  BY <1>0, <1>7 DEF EmitDone, Goto, crawlVars, Label, Holding, Visiting, TypeOK,
                   FrontierTypeOK, frontierVars
<1> QED BY <1>1, <1>2, <1>3, <1>4, <1>5, <1>6, <1>7

(* MarkIdle is only called by a worker that holds an entry.                *)
LEMMA ReleaseStep ==
  ASSUME LoopInv, NEW w \in Worker, Release(w)
  PROVE  \E from \in {"drop", "failed", "quit", "idle"}, to \in {"top", "gone"}, f \in Fate :
           /\ GiveBack(w, from, to, f)
           /\ from = "drop" <=> f = "dropped"
           /\ f = "cut" => ctxDone \/ from = "quit"
           /\ f \in {"done", "bare"} => from = "idle"
BY DEF Release, Fate

LEMMA LoopStep ==
  ASSUME LoopInv, [Next]_vars
  PROVE  LoopInv'
<1>0. TypeOK /\ FrontierInv /\ FrontierTypeOK /\ HoldsByLabel
  BY DEF LoopInv, TypeOK
<1>1. CASE Start
  <2>1. FrontierInv' /\ held' = held /\ UNCHANGED <<pc, crawlVars>>
    BY <1>0, <1>1, SeedEntriesType, PushInv DEF Start, Push
  <2>2. main' \in {"start", "running", "rejected", "returned"}
    BY <1>1 DEF Start
  <2> QED BY <1>0, <2>1, <2>2 DEF LoopInv, TypeOK, FrontierInv, HoldsByLabel, crawlVars
<1>2. CASE CancelContext
  BY <1>0, <1>2, UnchangedInv
     DEF CancelContext, LoopInv, TypeOK, FrontierInv, HoldsByLabel, frontierVars
<1>3. CASE Return
  <2>1. FrontierInv' /\ held' = held /\ main' = "returned" /\ UNCHANGED <<pc, crawlVars>>
    BY <1>0, <1>3, CloseInv DEF Return, Close
  <2> QED BY <1>0, <2>1 DEF LoopInv, TypeOK, FrontierInv, HoldsByLabel, crawlVars
<1>4. CASE Over \/ UNCHANGED vars
  BY <1>0, <1>4, UnchangedInv
     DEF Over, vars, crawlVars, LoopInv, TypeOK, FrontierInv, HoldsByLabel, frontierVars
<1>5. ASSUME NEW w \in Worker,
             CheckContext(w) \/ CheckBudget(w) \/ ReserveSlot(w) \/ VisitFails(w)
               \/ VisitReturns(w) \/ EmitRequest(w) \/ EmitDone(w)
      PROVE  LoopInv'
  <2>1. UNCHANGED frontierVars /\ TypeOK'
    BY <1>5, LocalStep
  <2>2. PICK from, to \in Label : Goto(w, from, to) /\ (from \in Holding <=> to \in Holding)
    BY <1>5, LocalStep
  <2>3. HoldsByLabel'
    BY <1>0, <2>1, <2>2 DEF Goto, HoldsByLabel, frontierVars, TypeOK
  <2> QED BY <1>0, <2>1, <2>3, UnchangedInv DEF LoopInv
<1>6. ASSUME NEW w \in Worker, Pop(w)
      PROVE  LoopInv'
  <2>1. held[w] = NoEntry /\ pc[w] = "pop" /\ UNCHANGED <<main, crawlVars>>
    BY <1>0, <1>6 DEF Pop, Goto, HoldsByLabel, Holding, Visiting
  <2>2. CASE Goto(w, "pop", "reserve") /\ PopEntry(w)
    <3>1. PICK e \in Entry : held' = [held EXCEPT ![w] = e]
      BY <1>0, <2>2, PopEntryTakes
    <3>2. FrontierInv'
      BY <1>0, <2>1, <2>2, PopEntryInv
    <3>3. HoldsByLabel'
      BY <1>0, <2>2, <3>1 DEF Goto, HoldsByLabel, TypeOK, FrontierTypeOK, Holding
    <3>4. pc' \in [Worker -> Label]
      BY <1>0, <2>2 DEF Goto, TypeOK, Label
    <3> QED BY <1>0, <2>1, <3>2, <3>3, <3>4 DEF LoopInv, TypeOK, FrontierInv, crawlVars
  <2>3. CASE Goto(w, "pop", "gone") /\ PopExhausted(w)
    <3>1. UNCHANGED frontierVars /\ held' = held
      BY <2>3 DEF PopExhausted, frontierVars
    <3>2. FrontierInv'
      BY <1>0, <3>1, UnchangedInv
    <3>3. HoldsByLabel' /\ pc' \in [Worker -> Label]
      BY <1>0, <2>3, <3>1 DEF Goto, HoldsByLabel, TypeOK, Label, Holding, Visiting
    <3> QED BY <1>0, <2>1, <3>2, <3>3 DEF LoopInv, TypeOK, FrontierInv, crawlVars
  <2>4. CASE Goto(w, "pop", "pop") /\ PopWait(w)
    <3>1. FrontierInv' /\ held' = held
      BY <1>0, <2>4, PopWaitInv DEF PopWait
    <3>2. pc' = pc
      BY <1>0, <2>4 DEF Goto, TypeOK
    <3> QED BY <1>0, <2>1, <3>1, <3>2 DEF LoopInv, TypeOK, FrontierInv, HoldsByLabel, crawlVars
  <2> QED BY <1>6, <2>2, <2>3, <2>4 DEF Pop
<1>7. ASSUME NEW w \in Worker, PushLinks(w)
      PROVE  LoopInv'
  <2>1. held[w] \in Entry
    BY <1>7, HeldPageIsOwn DEF PushLinks, Goto, Holding, Visiting
  <2>2. FrontierInv' /\ held' = held
    BY <1>0, <1>7, <2>1, LinkEntriesType, PushInv DEF PushLinks, Push
  <2>3. HoldsByLabel' /\ pc' \in [Worker -> Label]
    BY <1>0, <1>7, <2>2 DEF PushLinks, Goto, HoldsByLabel, TypeOK, Label, Holding, Visiting
  <2>4. UNCHANGED <<main, crawlVars>>
    BY <1>7 DEF PushLinks, Goto
  <2> QED BY <1>0, <2>2, <2>3, <2>4 DEF LoopInv, TypeOK, FrontierInv, crawlVars
<1>8. ASSUME NEW w \in Worker, Release(w)
      PROVE  LoopInv'
  <2>1. PICK from \in {"drop", "failed", "quit", "idle"}, to \in {"top", "gone"}, f \in Fate :
          GiveBack(w, from, to, f)
    BY <1>8, ReleaseStep
  <2>2. held[w] \in Entry
    BY <2>1, HeldPageIsOwn DEF GiveBack, Goto, Holding, Visiting
  <2>3. FrontierInv' /\ held' = [held EXCEPT ![w] = NoEntry]
    BY <1>0, <2>1, <2>2, MarkIdleInv DEF GiveBack, MarkIdle
  <2>4. HoldsByLabel' /\ pc' \in [Worker -> Label]
    BY <1>0, <2>1, <2>3
       DEF GiveBack, Goto, HoldsByLabel, TypeOK, FrontierTypeOK, Label, Holding, Visiting
  <2>5. fate' \in [Fate -> SUBSET Entry]
    BY <1>0, <2>1, <2>2 DEF GiveBack, TypeOK
  <2>6. UNCHANGED <<main, ctxDone, pageCount, linked, captured, emitted, late>>
    BY <2>1 DEF GiveBack, Goto
  <2> QED BY <1>0, <2>3, <2>4, <2>5, <2>6 DEF LoopInv, TypeOK, FrontierInv
<1> QED BY <1>1, <1>2, <1>3, <1>4, <1>5, <1>6, <1>7, <1>8 DEF Next, Step

-----------------------------------------------------------------------------
(* The budget.  A slot is reserved by a worker that starts a visit and     *)
(* becomes a visited entry when that worker gives its entry back.          *)

(* No other step touches the slots or decides to drop an entry.            *)
LEMMA SlotsUntouched ==
  ASSUME LoopInv, [Next]_vars, ~\E w \in Worker : ReserveSlot(w) \/ Release(w)
  PROVE  /\ pageCount' = pageCount /\ fate' = fate /\ finished' = finished
         /\ VisitingNow' = VisitingNow
         /\ \A w \in Worker : pc'[w] = "drop" => pc[w] = "drop"
<1>0. pc \in [Worker -> Label]
  BY DEF LoopInv, TypeOK
<1>1. CASE Start \/ CancelContext \/ Return \/ Over \/ UNCHANGED vars
  BY <1>1 DEF Start, CancelContext, Return, Over, vars, crawlVars, frontierVars,
              Push, Close, VisitingNow
<1>2. ASSUME NEW w \in Worker, Step(w)
      PROVE  /\ UNCHANGED <<pageCount, fate, finished>>
             /\ \E from, to \in Label : /\ Goto(w, from, to)
                                        /\ from \in Visiting <=> to \in Visiting
                                        /\ to # "drop"
  <2>1. CASE CheckContext(w)
    BY <2>1 DEF CheckContext, crawlVars, frontierVars, Label, Visiting
  <2>2. CASE CheckBudget(w)
    BY <2>2 DEF CheckBudget, crawlVars, frontierVars, Label, Visiting
  <2>3. CASE Pop(w)
    BY <2>3 DEF Pop, PopEntry, PopExhausted, PopWait, crawlVars, frontierVars, Label, Visiting
  <2>4. CASE VisitFails(w)
    BY <2>4 DEF VisitFails, crawlVars, frontierVars, Label, Visiting
  <2>5. CASE VisitReturns(w)
    BY <2>5 DEF VisitReturns, frontierVars, Label, Visiting
  <2>6. CASE EmitRequest(w)
    BY <2>6 DEF EmitRequest, frontierVars, Label, Visiting
  <2>7. CASE EmitDone(w)
    BY <2>7 DEF EmitDone, crawlVars, frontierVars, Label, Visiting
  <2>8. CASE PushLinks(w)
    BY <2>8 DEF PushLinks, Push, crawlVars, Label, Visiting
  <2> QED BY <1>2, <2>1, <2>2, <2>3, <2>4, <2>5, <2>6, <2>7, <2>8 DEF Step
<1>3. ASSUME NEW w \in Worker, Step(w)
      PROVE  /\ VisitingNow' = VisitingNow
             /\ \A v \in Worker : pc'[v] = "drop" => pc[v] = "drop"
  <2>1. PICK from, to \in Label : /\ Goto(w, from, to)
                                  /\ from \in Visiting <=> to \in Visiting
                                  /\ to # "drop"
    BY <1>2, <1>3
  <2>2. pc[w] = from /\ pc' = [pc EXCEPT ![w] = to]
    BY <2>1 DEF Goto
  <2>3. \A v \in Worker : pc'[v] = pc[v] \/ (v = w /\ pc'[v] = to)
    BY <1>0, <2>2
  <2>4. \A v \in Worker : pc'[v] \in Visiting <=> pc[v] \in Visiting
    BY <2>1, <2>2, <2>3
  <2>5. VisitingNow' = VisitingNow
    BY <2>4 DEF VisitingNow
  <2>6. \A v \in Worker : pc'[v] = "drop" => pc[v] = "drop"
    BY <2>1, <2>3
  <2> QED BY <2>5, <2>6
<1>4. CASE \E w \in Worker : Step(w)
  <2>1. PICK w \in Worker : Step(w)
    BY <1>4
  <2> QED BY <1>2, <1>3, <2>1
<1> QED BY <1>1, <1>4 DEF Next

LEMMA BudgetStep ==
  ASSUME LoopInv, VisitedWereHeld, BudgetExact, [Next]_vars
  PROVE  VisitedWereHeld' /\ BudgetExact'
<1>0. pc \in [Worker -> Label] /\ pageCount \in Nat /\ fate \in [Fate -> SUBSET Entry]
  BY DEF LoopInv, TypeOK
<1>1. pageCount = Cardinality(Visited) + Cardinality(VisitingNow) /\ Cardinality(Visited) \in Nat
  BY FS_CardinalityType DEF BudgetExact, VisitingNow, VisitedWereHeld
<1>2. ASSUME pageCount' = Cardinality(Visited') + Cardinality(VisitingNow')
      PROVE  pageCount' = Cardinality(Visited)' + Cardinality({w \in Worker : pc[w] \in Visiting})'
  BY <1>2 DEF VisitingNow
<1>3. CASE ~\E w \in Worker : ReserveSlot(w) \/ Release(w)
  <2>1. /\ pageCount' = pageCount /\ fate' = fate /\ finished' = finished
        /\ VisitingNow' = VisitingNow
        /\ \A w \in Worker : pc'[w] = "drop" => pc[w] = "drop"
    BY <1>3, SlotsUntouched
  <2>2. Visited' = Visited /\ (BudgetReached' <=> BudgetReached)
    BY <2>1 DEF Visited, BudgetReached
  <2> QED BY <1>1, <1>2, <2>1, <2>2 DEF BudgetExact, VisitedWereHeld
<1>4. ASSUME NEW w \in Worker, ReserveSlot(w)
      PROVE  VisitedWereHeld' /\ BudgetExact'
  <2>1. fate' = fate /\ Visited' = Visited /\ finished' = finished
    BY <1>4 DEF ReserveSlot, Visited, frontierVars
  <2>2. CASE BudgetReached
    <3>1. Goto(w, "reserve", "drop") /\ pageCount' = pageCount
      BY <1>4, <2>2 DEF ReserveSlot
    <3>2. VisitingNow' = VisitingNow
      BY <1>0, <3>1 DEF Goto, VisitingNow, Visiting
    <3>3. BudgetReached'
      BY <2>2, <3>1 DEF BudgetReached
    <3> QED BY <1>1, <1>2, <2>1, <3>1, <3>2, <3>3 DEF BudgetExact, VisitedWereHeld
  <2>3. CASE ~BudgetReached
    <3>1. Goto(w, "reserve", "visit") /\ pageCount' = pageCount + 1
      BY <1>4, <2>3 DEF ReserveSlot
    <3>2. VisitingNow' = VisitingNow \cup {w} /\ w \notin VisitingNow
      BY <1>0, <3>1 DEF Goto, VisitingNow, Visiting
    <3>3. Cardinality(VisitingNow') = Cardinality(VisitingNow) + 1
      BY <3>2, WorkersFinite, FS_AddElement
    <3>4. fate'["dropped"] = {} /\ \A v \in Worker : pc'[v] # "drop"
      BY <1>0, <2>1, <2>3, <3>1 DEF BudgetExact, Goto
    <3>5. MaxPages > 0 => pageCount' <= MaxPages
      BY <1>0, <2>3, <3>1 DEF BudgetReached
    <3>6. pageCount' = Cardinality(Visited') + Cardinality(VisitingNow')
      BY <1>1, <2>1, <3>1, <3>3, WorkersFinite
    <3> QED BY <1>2, <2>1, <3>4, <3>5, <3>6 DEF BudgetExact, VisitedWereHeld
  <2> QED BY <2>2, <2>3
<1>5. ASSUME NEW w \in Worker, Release(w)
      PROVE  VisitedWereHeld' /\ BudgetExact'
  <2>1. PICK from \in {"drop", "failed", "quit", "idle"}, to \in {"top", "gone"}, f \in Fate :
          GiveBack(w, from, to, f) /\ (from = "drop" <=> f = "dropped")
    BY <1>5, ReleaseStep
  <2>2. /\ pageCount' = pageCount /\ finished' = finished \cup {held[w]}
        /\ fate' = [fate EXCEPT ![f] = @ \cup {held[w]}]
        /\ pc[w] = from /\ pc' = [pc EXCEPT ![w] = to]
    BY <2>1 DEF GiveBack, MarkIdle, Goto
  <2>3. BudgetReached' <=> BudgetReached
    BY <2>2 DEF BudgetReached
  <2>4. \A v \in Worker : pc'[v] = "drop" => pc[v] = "drop"
    BY <1>0, <2>2
  <2>5. CASE f = "dropped"
    <3>1. Visited' = Visited
      BY <1>0, <2>2, <2>5 DEF Visited, Fate
    <3>2. VisitingNow' = VisitingNow
      BY <1>0, <2>1, <2>2, <2>5 DEF VisitingNow, Visiting
    <3>3. BudgetReached
      BY <2>1, <2>2, <2>5 DEF BudgetExact
    <3> QED BY <1>1, <1>2, <2>2, <2>3, <3>1, <3>2, <3>3 DEF BudgetExact, VisitedWereHeld
  <2>6. CASE f # "dropped"
    <3>1. Visited' = Visited \cup {held[w]}
      <4>1. f \in {"done", "bare", "error", "cut"}
        BY <2>6 DEF Fate
      <4> QED BY <1>0, <2>2, <4>1 DEF Visited, Fate
    <3>2. VisitingNow' = VisitingNow \ {w} /\ w \in VisitingNow
      BY <1>0, <2>1, <2>2, <2>6 DEF VisitingNow, Visiting
    <3>3. held[w] \notin Visited
      BY <2>1, <2>2, HeldPageIsOwn DEF VisitedWereHeld, Holding, Visiting
    <3>4. /\ IsFiniteSet(Visited')
          /\ Cardinality(Visited') = Cardinality(Visited) + 1
      BY <3>1, <3>3, FS_AddElement DEF VisitedWereHeld
    <3>5. Cardinality(VisitingNow') = Cardinality(VisitingNow) - 1
      BY <3>2, WorkersFinite, FS_RemoveElement
    <3>6. pageCount' = Cardinality(Visited') + Cardinality(VisitingNow')
      BY <1>1, <2>2, <3>4, <3>5, WorkersFinite
    <3>7. fate'["dropped"] = fate["dropped"]
      BY <1>0, <2>2, <2>6 DEF Fate
    <3> QED BY <1>2, <2>2, <2>3, <2>4, <3>1, <3>4, <3>6, <3>7 DEF BudgetExact, VisitedWereHeld
  <2> QED BY <2>5, <2>6
<1> QED BY <1>3, <1>4, <1>5

-----------------------------------------------------------------------------
(* Cancellation.  A worker that is not approaching a visit looks at the    *)
(* context before it approaches the next.                                  *)

LEMMA LateStep ==
  ASSUME LoopInv, LateAreCounted, [Next]_vars
  PROVE  LateAreCounted'
<1>0. pc \in [Worker -> Label] /\ late \in Nat
  BY DEF LoopInv, TypeOK
<1>1. CASE Start \/ Return \/ Over \/ UNCHANGED vars
  <2>1. UNCHANGED <<pc, late, ctxDone>> /\ Approaching' = Approaching
    BY <1>1 DEF Start, Return, Over, vars, crawlVars, Approaching
  <2> QED BY <2>1 DEF LateAreCounted
<1>2. CASE CancelContext
  <2>1. UNCHANGED <<pc, late>> /\ Approaching' = Approaching /\ ~ctxDone /\ ctxDone'
    BY <1>2 DEF CancelContext, Approaching
  <2> QED BY <2>1, WorkersFinite DEF LateAreCounted
<1>3. ASSUME NEW w \in Worker, Step(w)
      PROVE  LateAreCounted'
  <2>1. CASE CheckContext(w) /\ ~ctxDone
    BY <2>1 DEF CheckContext, crawlVars, LateAreCounted
  <2>2. CASE ReserveSlot(w)
    <3>1. PICK to \in {"drop", "visit"} : Goto(w, "reserve", to)
      BY <2>2 DEF ReserveSlot
    <3>2. w \in Approaching /\ Approaching' = Approaching \ {w}
      <4>1. to \in Label /\ to \notin {"budget", "pop", "reserve"}
        BY DEF Label
      <4> QED BY <1>0, <3>1, <4>1, MoveSets DEF Approaching
    <3>3. Cardinality(Approaching') = Cardinality(Approaching) - 1
      BY <3>2, WorkersFinite, FS_RemoveElement
    <3>4. ctxDone' = ctxDone /\ late' \in {late, IF ctxDone THEN late + 1 ELSE late}
      BY <2>2 DEF ReserveSlot
    <3> QED BY <1>0, <3>3, <3>4, WorkersFinite DEF LateAreCounted
  <2>3. CASE ~ReserveSlot(w) /\ ~(CheckContext(w) /\ ~ctxDone)
    <3>1. /\ UNCHANGED <<late, ctxDone>>
          /\ \E from, to \in Label :
               /\ Goto(w, from, to)
               /\ to \in {"budget", "pop", "reserve"} => from \in {"budget", "pop", "reserve"}
      <4>1. CASE CheckContext(w)
        BY <2>3, <4>1 DEF CheckContext, crawlVars, Label
      <4>2. CASE CheckBudget(w)
        BY <4>2 DEF CheckBudget, crawlVars, Label
      <4>3. CASE Pop(w)
        BY <4>3 DEF Pop, crawlVars, Label
      <4>4. CASE VisitFails(w)
        BY <4>4 DEF VisitFails, crawlVars, Label
      <4>5. CASE VisitReturns(w)
        BY <4>5 DEF VisitReturns, Label
      <4>6. CASE EmitRequest(w)
        BY <4>6 DEF EmitRequest, Label
      <4>7. CASE EmitDone(w)
        BY <4>7 DEF EmitDone, crawlVars, Label
      <4>8. CASE PushLinks(w)
        BY <4>8 DEF PushLinks, crawlVars, Label
      <4>9. CASE Release(w)
        BY <4>9, ReleaseStep DEF GiveBack, Label
      <4> QED BY <1>3, <2>3, <4>1, <4>2, <4>3, <4>4, <4>5, <4>6, <4>7, <4>8, <4>9 DEF Step
    <3>2. PICK from, to \in Label :
            /\ Goto(w, from, to)
            /\ to \in {"budget", "pop", "reserve"} => from \in {"budget", "pop", "reserve"}
      BY <3>1
    <3>3. Approaching' \subseteq Approaching
      BY <1>0, <3>2, MoveSets DEF Approaching
    <3>4. Cardinality(Approaching') <= Cardinality(Approaching) /\ Cardinality(Approaching') \in Nat
      BY <3>3, WorkersFinite, FS_Subset, FS_CardinalityType
    <3> QED BY <1>0, <3>1, <3>4, WorkersFinite DEF LateAreCounted
  <2> QED BY <2>1, <2>2, <2>3
<1> QED BY <1>1, <1>2, <1>3 DEF Next

-----------------------------------------------------------------------------
(* Emission.  A visit writes only what was captured on the page it holds,  *)
(* and no other worker and no finished entry has that page.                *)

LEMMA OtherPages ==
  ASSUME LoopInv, EmittedInFull, InFlightPagesFinalize, VisitedWereHeld,
         NEW w \in Worker, pc[w] \in {"visit", "emit"},
         NEW to \in Label \ {"push", "idle"}, Goto(w, pc[w], to),
         to = "quit" => ctxDone,
         UNCHANGED <<frontierVars, ctxDone, fate>>,
         \A p \in Page \ {HeldPage(w)} : captured'[p] = captured[p] /\ emitted'[p] = emitted[p]
  PROVE  EmittedInFull' /\ InFlightPagesFinalize'
<1>0. pc \in [Worker -> Label] /\ pc' = [pc EXCEPT ![w] = to] /\ held' = held
  BY DEF LoopInv, TypeOK, Goto, frontierVars
<1>1. \A v \in Worker : pc'[v] \in {"push", "idle"} =>
        v # w /\ pc[v] = pc'[v] /\ HeldPage(v) \in Page \ {HeldPage(w)}
  BY <1>0, HeldPageIsOwn DEF Holding, Visiting
<1>2. \A v \in Worker : HeldPage(v)' = HeldPage(v)
  BY <1>0 DEF HeldPage, PageOf
<1>3. \A v \in Worker : pc'[v] \in {"push", "idle"} =>
        emitted'[HeldPage(v)'] = captured'[HeldPage(v)']
  BY <1>1, <1>2 DEF EmittedInFull
<1>4. \A v \in Worker : pc'[v] = "quit" => ctxDone'
  BY <1>0 DEF EmittedInFull
<1>5. \A e \in fate["done"] \cup fate["bare"] : PageOf(e) \in Page \ {HeldPage(w)}
  <2>1. \A e \in finished : PageOf(e) # HeldPage(w) /\ PageOf(e) \in Page
    <3>1. pc[w] \in Holding
      BY DEF Holding, Visiting
    <3> QED BY <3>1, HeldPageIsOwn
            DEF LoopInv, FrontierInv, EachPageOnce, FinishedPages, FrontierTypeOK
  <2> QED BY <2>1 DEF VisitedWereHeld, Visited
<1>6. InFlightPagesFinalize'
  <2>1. \A e \in fate["done"] \cup fate["bare"] : emitted'[PageOf(e)] = captured'[PageOf(e)]
    BY <1>5 DEF InFlightPagesFinalize
  <2> QED BY <2>1 DEF InFlightPagesFinalize, PageOf
<1> QED BY <1>3, <1>4, <1>6 DEF EmittedInFull

LEMMA EmitStep ==
  ASSUME LoopInv, EmittedInFull, InFlightPagesFinalize, VisitedWereHeld, [Next]_vars
  PROVE  EmittedInFull' /\ InFlightPagesFinalize'
<1>0. pc \in [Worker -> Label] /\ fate \in [Fate -> SUBSET Entry]
      /\ held \in [Worker -> Entry \cup {NoEntry}]
  BY DEF LoopInv, TypeOK, FrontierTypeOK
<1>1. CASE Start \/ CancelContext \/ Return \/ Over \/ UNCHANGED vars
  <2>1. UNCHANGED <<pc, held, captured, emitted, fate>> /\ (ctxDone => ctxDone')
    BY <1>1 DEF Start, Push, CancelContext, Return, Close, Over, vars, crawlVars, frontierVars
  <2> QED BY <2>1 DEF EmittedInFull, InFlightPagesFinalize, HeldPage, PageOf
<1>2. ASSUME NEW w \in Worker, VisitReturns(w) \/ EmitRequest(w)
      PROVE  EmittedInFull' /\ InFlightPagesFinalize'
  <2>1. PICK to \in {"emit", "quit"} : Goto(w, pc[w], to) /\ (to = "quit" => ctxDone)
    BY <1>2 DEF VisitReturns, EmitRequest, Goto
  <2>2. /\ pc[w] \in {"visit", "emit"}
        /\ UNCHANGED <<frontierVars, ctxDone, fate>>
    BY <1>2 DEF VisitReturns, EmitRequest, Goto
  <2>3. \A p \in Page \ {HeldPage(w)} : captured'[p] = captured[p] /\ emitted'[p] = emitted[p]
    BY <1>2 DEF VisitReturns, EmitRequest, LoopInv, TypeOK
  <2>4. to \in Label \ {"push", "idle"}
    BY DEF Label
  <2> QED BY <2>1, <2>2, <2>3, <2>4, OtherPages
<1>3. ASSUME NEW w \in Worker,
             CheckContext(w) \/ CheckBudget(w) \/ Pop(w) \/ ReserveSlot(w)
               \/ VisitFails(w) \/ EmitDone(w) \/ PushLinks(w)
      PROVE  EmittedInFull' /\ InFlightPagesFinalize'
  <2>1. UNCHANGED <<captured, emitted, fate, ctxDone>>
    BY <1>3 DEF CheckContext, CheckBudget, Pop, ReserveSlot, VisitFails, EmitDone, PushLinks,
                crawlVars
  <2>2. \E from, to \in Label :
          /\ Goto(w, from, to)
          /\ to # "quit"
          /\ to \in {"push", "idle"} =>
               emitted[HeldPage(w)] = captured[HeldPage(w)] /\ held'[w] = held[w]
    <3>1. CASE CheckContext(w) \/ CheckBudget(w) \/ Pop(w) \/ ReserveSlot(w) \/ VisitFails(w)
      BY <3>1 DEF CheckContext, CheckBudget, Pop, ReserveSlot, VisitFails, Label
    <3>2. CASE EmitDone(w)
      BY <3>2 DEF EmitDone, Label, frontierVars
    <3>3. CASE PushLinks(w)
      BY <3>3 DEF PushLinks, Push, Goto, Label, EmittedInFull
    <3> QED BY <1>3, <3>1, <3>2, <3>3
  <2>3. PICK from, to \in Label :
          /\ Goto(w, from, to)
          /\ to # "quit"
          /\ to \in {"push", "idle"} =>
               emitted[HeldPage(w)] = captured[HeldPage(w)] /\ held'[w] = held[w]
    BY <2>2
  <2>4. \A v \in Worker \ {w} : held'[v] = held[v]
    BY <1>0, <1>3 DEF CheckContext, CheckBudget, Pop, PopEntry, PopExhausted, PopWait,
         ReserveSlot, VisitFails, EmitDone, PushLinks, Push, frontierVars
  <2>5. \A v \in Worker : pc'[v] \in {"push", "idle"} =>
          held'[v] = held[v] /\ emitted[HeldPage(v)] = captured[HeldPage(v)]
    BY <1>0, <2>3, <2>4 DEF Goto, EmittedInFull
  <2>6. \A v \in Worker : pc'[v] = "quit" => ctxDone'
    BY <1>0, <2>1, <2>3 DEF Goto, EmittedInFull
  <2>7. EmittedInFull'
    BY <2>1, <2>5, <2>6 DEF EmittedInFull, HeldPage, PageOf
  <2> QED BY <2>1, <2>7 DEF InFlightPagesFinalize, PageOf
<1>4. ASSUME NEW w \in Worker, Release(w)
      PROVE  EmittedInFull' /\ InFlightPagesFinalize'
  <2>1. PICK from \in {"drop", "failed", "quit", "idle"}, to \in {"top", "gone"}, f \in Fate :
          /\ GiveBack(w, from, to, f)
          /\ f = "cut" => ctxDone \/ from = "quit"
          /\ f \in {"done", "bare"} => from = "idle"
    BY <1>4, ReleaseStep
  <2>2. /\ UNCHANGED <<captured, emitted, ctxDone>>
        /\ fate' = [fate EXCEPT ![f] = @ \cup {held[w]}]
        /\ held' = [held EXCEPT ![w] = NoEntry]
        /\ pc[w] = from /\ pc' = [pc EXCEPT ![w] = to]
    BY <2>1 DEF GiveBack, MarkIdle, Goto
  <2>3. \A v \in Worker : pc'[v] \in {"push", "idle", "quit"} =>
          v # w /\ pc'[v] = pc[v] /\ held'[v] = held[v]
    BY <1>0, <2>2
  <2>4. EmittedInFull'
    BY <2>2, <2>3 DEF EmittedInFull, HeldPage, PageOf
  <2>5. f = "cut" => ctxDone
    BY <2>1, <2>2 DEF EmittedInFull
  <2>6. ~ctxDone' => fate'["cut"] = {}
    BY <1>0, <2>2, <2>5 DEF InFlightPagesFinalize, Fate
  <2>7. \A e \in fate'["done"] \cup fate'["bare"] :
          e \in fate["done"] \cup fate["bare"] \/ (e = held[w] /\ pc[w] = "idle")
    BY <1>0, <2>1, <2>2 DEF Fate
  <2>8. \A e \in fate'["done"] \cup fate'["bare"] : emitted[PageOf(e)] = captured[PageOf(e)]
    BY <2>7 DEF InFlightPagesFinalize, EmittedInFull, HeldPage
  <2> QED BY <2>2, <2>4, <2>6, <2>8 DEF InFlightPagesFinalize, PageOf
<1> QED BY <1>1, <1>2, <1>3, <1>4 DEF Next, Step

-----------------------------------------------------------------------------
(* Completeness: who may leave, and what the links of a page lead to.      *)

LEMMA LeaveStep ==
  ASSUME LoopInv, LeaveInv, EmittedInFull, BudgetExact, [Next]_vars
  PROVE  LeaveInv'
<1>0. pc \in [Worker -> Label] /\ pageCount \in Nat
  BY DEF LoopInv, TypeOK
<1>1. CASE Start
  <2>1. /\ main = "start" /\ main' \in {"running", "rejected"}
        /\ UNCHANGED <<pc, closed>>
    BY <1>1 DEF Start, Push
  <2>2. ~closed /\ \A w \in Worker : pc'[w] = "top"
    BY <2>1 DEF LeaveInv
  <2> QED BY <2>1, <2>2 DEF LeaveInv
<1>2. CASE CancelContext
  BY <1>2 DEF CancelContext, LeaveInv, frontierVars
<1>3. CASE Return
  BY <1>3 DEF Return, Close, LeaveInv, BudgetReached, crawlVars
<1>4. CASE Over \/ UNCHANGED vars
  BY <1>4 DEF Over, vars, crawlVars, frontierVars, LeaveInv, BudgetReached
<1>5. ASSUME NEW w \in Worker, Step(w)
      PROVE  LeaveInv'
  <2>1. main = "running" /\ main' = main /\ ctxDone' = ctxDone /\ closed' = closed
    BY <1>5 DEF Step, CheckContext, CheckBudget, Pop, PopEntry, PopExhausted, PopWait,
         ReserveSlot, VisitFails, VisitReturns, EmitRequest, EmitDone, PushLinks, Push,
         Release, GiveBack, MarkIdle, Goto, crawlVars, frontierVars
  <2>2. ~closed
    BY <2>1 DEF LeaveInv
  <2>3. BudgetReached => BudgetReached'
    <3>1. pageCount' \in {pageCount, pageCount + 1}
      BY <1>5 DEF Step, CheckContext, CheckBudget, Pop, ReserveSlot, VisitFails,
           VisitReturns, EmitRequest, EmitDone, PushLinks, Release, GiveBack, crawlVars
    <3> QED BY <1>0, <3>1 DEF BudgetReached
  <2> SUFFICES ASSUME ~ctxDone', ~BudgetReached', NEW v \in Worker, pc'[v] = "gone"
               PROVE  queue' = <<>> /\ active' = 0
    BY <2>1, <2>2 DEF LeaveInv
  <2>4. ~ctxDone /\ ~BudgetReached
    BY <2>1, <2>3
  <2>5. CASE pc[v] = "gone"
    <3>1. queue = <<>> /\ active = 0
      BY <2>4, <2>5 DEF LeaveInv
    <3>2. Holders = {}
      BY <3>1, HoldersFinite, FS_EmptySet
         DEF LoopInv, FrontierInv, Wakeup, ActiveCountsHolders
    <3>3. pc[w] \notin Holding
      BY <3>2 DEF LoopInv, HoldsByLabel, Holders
    <3>4. CheckContext(w) \/ CheckBudget(w) \/ Pop(w)
      BY <1>5, <3>3 DEF Step, ReserveSlot, VisitFails, VisitReturns, EmitRequest, EmitDone,
           PushLinks, Release, GiveBack, Goto, Holding, Visiting
    <3> QED BY <3>1, <3>4 DEF CheckContext, CheckBudget, Pop, PopEntry, PopExhausted, PopWait,
                   frontierVars
  <2>6. CASE pc[v] # "gone"
    <3>1. Goto(w, "pop", "gone") /\ PopExhausted(w)
      <4>1. CASE CheckContext(w) \/ CheckBudget(w)
        BY <1>0, <2>4, <2>6, <4>1 DEF CheckContext, CheckBudget, Goto
      <4>2. CASE Pop(w)
        BY <1>0, <2>6, <4>2 DEF Pop, Goto
      <4>3. CASE ReserveSlot(w) \/ VisitFails(w) \/ VisitReturns(w) \/ EmitRequest(w)
                   \/ EmitDone(w) \/ PushLinks(w)
        BY <1>0, <2>6, <4>3 DEF ReserveSlot, VisitFails, VisitReturns, EmitRequest, EmitDone,
             PushLinks, Goto
      <4>4. CASE Release(w)
        <5>1. pc[w] # "drop" /\ pc[w] # "quit"
          BY <2>4 DEF EmittedInFull, BudgetExact
        <5>2. \E from \in {"failed", "idle"} : Goto(w, from, "top")
          BY <2>4, <4>4, <5>1 DEF Release, GiveBack, Goto
        <5> QED BY <1>0, <2>6, <5>2 DEF Goto
      <4> QED BY <1>5, <4>1, <4>2, <4>3, <4>4 DEF Step
    <3> QED BY <2>2, <3>1 DEF PopExhausted, frontierVars
  <2> QED BY <2>5, <2>6
<1>6. CASE \E w \in Worker : Step(w)
  BY <1>5, <1>6
<1> QED BY <1>1, <1>2, <1>3, <1>4, <1>6 DEF Next

(* A page once seen stays seen. *)
LEMMA SeenGrows ==
  ASSUME [Next]_vars
  PROVE  seen \subseteq seen' /\ \A e : LinksFound(e) => LinksFound(e)'
<1>1. seen \subseteq seen'
  BY DEF Next, Start, CancelContext, Return, Over, vars, Step, CheckContext, CheckBudget,
         Pop, PopEntry, PopExhausted, PopWait, ReserveSlot, VisitFails, VisitReturns,
         EmitRequest, EmitDone, PushLinks, Push, Release, GiveBack, MarkIdle, Close,
         frontierVars
<1>2. ASSUME NEW e, LinksFound(e)
      PROVE  LinksFound(e)'
  BY <1>1, <1>2 DEF LinksFound, Admissible, PageOf, LinkEntries
<1> QED BY <1>1, <1>2

LEMMA LinksStep ==
  ASSUME LoopInv, LeaveInv, LinksInv, [Next]_vars
  PROVE  LinksInv'
<1>0. /\ pc \in [Worker -> Label] /\ fate \in [Fate -> SUBSET Entry]
      /\ held \in [Worker -> Entry \cup {NoEntry}]
  BY DEF LoopInv, TypeOK, FrontierTypeOK
<1>1. CASE ~\E w \in Worker : Release(w)
  <2>1. fate' = fate /\ finished' = finished /\ Visited' = Visited
    <3>1. CASE \E w \in Worker : ReserveSlot(w)
      BY <3>1 DEF ReserveSlot, Visited, frontierVars
    <3>2. CASE ~\E w \in Worker : ReserveSlot(w)
      BY <1>1, <3>2, SlotsUntouched DEF Visited
    <3> QED BY <3>1, <3>2
  <2>2. ASSUME NEW v \in Worker, pc'[v] = "idle", v \in linked'
        PROVE  LinksFound(held[v])' /\ held'[v] = held[v]
    <3>1. CASE Start \/ CancelContext \/ Return \/ Over \/ UNCHANGED vars
      <4>1. UNCHANGED <<pc, linked, held>>
        BY <3>1 DEF Start, CancelContext, Return, Over, vars, crawlVars, frontierVars, Push, Close
      <4> QED BY <2>2, <4>1, SeenGrows DEF LinksInv
    <3>2. ASSUME NEW w \in Worker, Step(w)
          PROVE  LinksFound(held[v])' /\ held'[v] = held[v]
      <4>1. CASE PushLinks(w)
        <5>1. Push(LinkEntries(held[w])) /\ held' = held /\ linked' = linked
              /\ pc[w] = "push" /\ main = "running" /\ pc' = [pc EXCEPT ![w] = "idle"]
          BY <4>1 DEF PushLinks, Push, Goto, crawlVars
        <5>2. CASE v = w
          <6>1. pc[w] \in Holding
            BY <5>1 DEF Holding, Visiting
          <6>2. LinkEntries(held[w]) \in Seq(Entry)
            BY <6>1, HeldPageIsOwn, LinkEntriesType
          <6>3. ~closed /\ FrontierTypeOK
            BY <5>1 DEF LeaveInv, LoopInv, TypeOK
          <6>4. \A i \in DOMAIN LinkEntries(held[w]) :
                  Admissible(LinkEntries(held[w])[i]) => PageOf(LinkEntries(held[w])[i]) \in seen'
            BY <5>1, <6>2, <6>3, PushFinds
          <6> QED BY <5>1, <5>2, <6>4 DEF LinksFound, Admissible, PageOf, LinkEntries
        <5>3. CASE v # w
          BY <1>0, <2>2, <5>1, <5>3, SeenGrows DEF LinksInv
        <5> QED BY <5>2, <5>3
      <4>2. CASE CheckContext(w) \/ CheckBudget(w) \/ Pop(w) \/ ReserveSlot(w)
                   \/ VisitFails(w) \/ VisitReturns(w) \/ EmitRequest(w) \/ EmitDone(w)
        <5>1. pc[v] = "idle" /\ v \in linked /\ held'[v] = held[v]
          <6>1. CASE CheckContext(w) \/ CheckBudget(w) \/ ReserveSlot(w) \/ VisitFails(w)
                       \/ EmitRequest(w)
            BY <1>0, <2>2, <6>1 DEF CheckContext, CheckBudget, ReserveSlot, VisitFails,
                 EmitRequest, Goto, crawlVars, frontierVars
          <6>2. CASE Pop(w)
            <7>1. linked' = linked /\ v # w /\ pc[v] = "idle"
              BY <1>0, <2>2, <6>2 DEF Pop, Goto, crawlVars
            <7>2. held'[v] = held[v]
              BY <1>0, <6>2, <7>1 DEF Pop, PopEntry, PopExhausted, PopWait, frontierVars
            <7> QED BY <2>2, <7>1, <7>2
          <6>3. CASE VisitReturns(w)
            BY <1>0, <2>2, <6>3 DEF VisitReturns, Goto, frontierVars
          <6>4. CASE EmitDone(w)
            BY <1>0, <2>2, <6>4 DEF EmitDone, Goto, crawlVars, frontierVars
          <6> QED BY <4>2, <6>1, <6>2, <6>3, <6>4
        <5> QED BY <5>1, SeenGrows DEF LinksInv
      <4> QED BY <1>1, <3>2, <4>1, <4>2 DEF Step
    <3> QED BY <3>1, <3>2 DEF Next
  <2>3. \A e \in fate'["done"] : LinksFound(e)'
    BY <2>1, SeenGrows DEF LinksInv
  <2>4. finished' = Visited' \cup fate'["dropped"]
    BY <2>1 DEF LinksInv
  <2>5. \A v \in Worker : pc'[v] = "idle" /\ v \in linked' => LinksFound(held[v])'
    BY <2>2
  <2> QED BY <2>3, <2>4, <2>5 DEF LinksInv
<1>2. ASSUME NEW w \in Worker, Release(w)
      PROVE  LinksInv'
  <2>1. PICK from \in {"drop", "failed", "quit", "idle"}, to \in {"top", "gone"}, f \in Fate :
          GiveBack(w, from, to, f)
    BY <1>2, ReleaseStep
  <2>2. /\ fate' = [fate EXCEPT ![f] = @ \cup {held[w]}]
        /\ finished' = finished \cup {held[w]} /\ linked' = linked
        /\ held' = [held EXCEPT ![w] = NoEntry]
        /\ pc[w] = from /\ pc' = [pc EXCEPT ![w] = to]
    BY <2>1 DEF GiveBack, MarkIdle, Goto
  <2>3. Visited' \cup fate'["dropped"] = Visited \cup fate["dropped"] \cup {held[w]}
    BY <1>0, <2>2 DEF Visited, Fate
  <2>4. fate'["done"] \subseteq fate["done"] \cup {held[w]}
        /\ (fate'["done"] # fate["done"] => pc[w] = "idle" /\ w \in linked)
    <3>1. CASE pc[w] = "idle" /\ w \in linked
      BY <1>0, <2>2, <3>1 DEF Fate
    <3>2. CASE ~(pc[w] = "idle" /\ w \in linked)
      <4>1. \E g \in Fate \ {"done"} : fate' = [fate EXCEPT ![g] = @ \cup {held[w]}]
        BY <1>2, <3>2 DEF Release, GiveBack, Goto, Fate
      <4>2. fate'["done"] = fate["done"]
        BY <1>0, <4>1 DEF Fate
      <4> QED BY <4>2
    <3> QED BY <3>1, <3>2
  <2>5. \A e \in fate'["done"] : LinksFound(e)'
    BY <2>4, SeenGrows DEF LinksInv
  <2>6. \A v \in Worker : pc'[v] = "idle" /\ v \in linked' => LinksFound(held[v])'
    <3> SUFFICES ASSUME NEW v \in Worker, pc'[v] = "idle", v \in linked'
                 PROVE  LinksFound(held[v])'
      OBVIOUS
    <3>1. v # w /\ pc[v] = "idle" /\ v \in linked /\ held'[v] = held[v]
      BY <1>0, <2>2
    <3> QED BY <3>1, SeenGrows DEF LinksInv
  <2> QED BY <2>2, <2>3, <2>5, <2>6 DEF LinksInv
<1> QED BY <1>1, <1>2

-----------------------------------------------------------------------------
(* The invariant holds.                                                    *)

LEMMA InvInit == Init => IInv
<1> SUFFICES ASSUME Init PROVE IInv
  OBVIOUS
<1>1. LoopInv
  BY LoopInit
<1>2. /\ pageCount = 0 /\ late = 0 /\ ctxDone = FALSE
      /\ \A w \in Worker : pc[w] = "top"
      /\ \A f \in Fate : fate[f] = {}
  BY DEF Init
<1>3. Visited = {} /\ VisitingNow = {} /\ fate["dropped"] = {} /\ fate["cut"] = {}
      /\ fate["done"] \cup fate["bare"] = {}
  BY <1>2 DEF Visited, VisitingNow, Visiting, Fate
<1>4. VisitedWereHeld
  BY <1>3, FS_EmptySet DEF VisitedWereHeld
<1>5. BudgetExact
  <2>1. Cardinality(Visited) = 0 /\ Cardinality(VisitingNow) = 0
    BY <1>3, FS_EmptySet
  <2>2. Cardinality({w \in Worker : pc[w] \in Visiting}) = 0
    BY <2>1 DEF VisitingNow
  <2> QED BY <1>2, <1>3, <2>1, <2>2 DEF BudgetExact
<1>6. EmittedInFull /\ InFlightPagesFinalize /\ LateAreCounted
  BY <1>2, <1>3 DEF EmittedInFull, InFlightPagesFinalize, LateAreCounted
<1>7. closed = FALSE /\ main = "start" /\ seen = {} /\ finished = {} /\ fate["done"] = {}
  BY <1>3 DEF Init, FrontierInit
<1>8. LeaveInv /\ LinksInv
  BY <1>2, <1>3, <1>7 DEF LeaveInv, LinksInv
<1> QED BY <1>1, <1>4, <1>5, <1>6, <1>8 DEF IInv

LEMMA InvStep == IInv /\ [Next]_vars => IInv'
BY LoopStep, BudgetStep, EmitStep, LateStep, LeaveStep, LinksStep DEF IInv

-----------------------------------------------------------------------------
(* The engine follows the protocol of FrontierClient.                      *)

View(l) ==
  CASE l \in {"top", "budget"} -> "out"
    [] l \in {"pop", "gone"}   -> l
    [] OTHER                   -> "busy"

(* A move of the loop is a move of the client, or is invisible to it.      *)
LEMMA ClientMove ==
  ASSUME LoopInv, NEW w \in Worker, NEW from, NEW to, Goto(w, from, to)
  PROVE  /\ clientPc[w] = View(from) /\ main = "running" /\ main' = main
         /\ clientPc' = [clientPc EXCEPT ![w] = View(to)]
         /\ View(from) = View(to) => clientPc' = clientPc
<1>1. clientPc = [v \in Worker |-> View(pc[v])] /\ clientPc' = [v \in Worker |-> View(pc'[v])]
  BY DEF clientPc, View
<1>2. pc \in [Worker -> Label] /\ pc[w] = from /\ pc' = [pc EXCEPT ![w] = to]
      /\ main = "running" /\ main' = main
  BY DEF LoopInv, TypeOK, Goto
<1>3. clientPc' = [clientPc EXCEPT ![w] = View(to)]
  <2>1. \A v \in Worker : View(pc'[v]) = IF v = w THEN View(to) ELSE View(pc[v])
    BY <1>2
  <2> HIDE DEF View
  <2> QED BY <1>1, <2>1
<1>4. clientPc[w] = View(from)
  <2> HIDE DEF View
  <2> QED BY <1>1, <1>2
<1>5. View(from) = View(to) => clientPc' = clientPc
  <2> HIDE DEF View
  <2> QED BY <1>1, <1>3, <1>4
<1> QED BY <1>2, <1>3, <1>4, <1>5

(* The instance's copies of the frontier's operations are the frontier's.  *)
LEMMA ClientPush ==
  ASSUME NEW es, Push(es)
  PROVE  Client!Push(es) /\ Client!NewEntries(es) = NewEntries(es)
<1>1. Client!NewEntries(es) = NewEntries(es)
  BY DEF Client!NewEntries, NewEntries, Client!AcceptedAt, AcceptedAt, Client!RankIn, RankIn,
         Client!Admissible, Admissible, Client!PageOf, PageOf, Client!Cardinality, Cardinality
<1>2. PagesIn(NewEntries(es)) = Client!PagesIn(NewEntries(es))
      /\ PagesIn(<<>>) = Client!PagesIn(<<>>)
  BY DEF PagesIn, Client!PagesIn, PageOf, Client!PageOf
<1> QED BY <1>1, <1>2 DEF Push, Client!Push

LEMMA ClientStep == IInv /\ [Next]_vars => [Client!Next]_(Client!vars)
<1> SUFFICES ASSUME LoopInv, [Next]_vars PROVE [Client!Next]_(Client!vars)
  BY DEF IInv
<1> USE DEF Client!frontierVars, frontierVars
<1>1. CASE Start
  <2>1. Client!Push(Client!SeedEntries) /\ Client!NewEntries(Client!SeedEntries) = NewEntries(SeedEntries)
    BY <1>1, ClientPush DEF Start, SeedEntries, Client!SeedEntries
  <2>2. clientPc' = clientPc
    BY <1>1 DEF Start, clientPc
  <2> QED BY <1>1, <2>1, <2>2 DEF Start, Client!Start, Client!Next
<1>2. CASE CancelContext \/ UNCHANGED vars \/ Over
  <2>1. UNCHANGED <<frontierVars, pc, main>>
    BY <1>2 DEF CancelContext, vars, Over
  <2> QED BY <2>1 DEF Client!vars, clientPc
<1>3. CASE Return
  <2>1. \A w \in Worker : clientPc[w] = "gone"
    BY <1>3 DEF Return, clientPc
  <2>2. clientPc' = clientPc
    BY <1>3 DEF Return, clientPc
  <2> QED BY <1>3, <2>1, <2>2 DEF Return, Close, Client!Close, Client!Return, Client!Next
<1>4. ASSUME NEW w \in Worker, Step(w)
      PROVE  Client!Step(w) \/ UNCHANGED Client!vars
  <2>1. CASE \/ ReserveSlot(w) \/ VisitFails(w) \/ VisitReturns(w)
             \/ EmitRequest(w) \/ EmitDone(w)
    <3>1. UNCHANGED frontierVars
          /\ \E from, to \in Holding : Goto(w, from, to)
      BY <2>1 DEF ReserveSlot, VisitFails, VisitReturns, EmitRequest, EmitDone, Holding, Visiting
    <3>2. \A l \in Holding : View(l) = "busy"
      BY DEF Holding, Visiting, View
    <3>3. main' = main /\ clientPc' = clientPc
      BY <3>1, <3>2, ClientMove
    <3> QED BY <3>1, <3>3 DEF Client!vars
  <2>2. CASE CheckContext(w)
    <3>1. UNCHANGED frontierVars /\ \E to \in {"budget", "gone"} : Goto(w, "top", to)
      BY <2>2 DEF CheckContext
    <3>2. View("top") = "out" /\ View("budget") = "out" /\ View("gone") = "gone"
      BY DEF View
    <3> QED BY <3>1, <3>2, ClientMove DEF Client!vars, Client!Step, Client!Leave, Client!Move
  <2>3. CASE CheckBudget(w)
    <3>1. UNCHANGED frontierVars /\ \E to \in {"pop", "gone"} : Goto(w, "budget", to)
      BY <2>3 DEF CheckBudget
    <3>2. View("budget") = "out" /\ View("pop") = "pop" /\ View("gone") = "gone"
      BY DEF View
    <3> QED BY <3>1, <3>2, ClientMove
            DEF Client!Step, Client!Leave, Client!EnterPop, Client!Move
  <2>4. CASE Pop(w)
    <3>1. View("pop") = "pop" /\ View("reserve") = "busy" /\ View("gone") = "gone"
      BY DEF View
    <3>2. CASE Goto(w, "pop", "reserve") /\ PopEntry(w)
      BY <3>1, <3>2, ClientMove
         DEF PopEntry, Client!PopEntry, Client!Step, Client!Take, Client!Move
    <3>3. CASE Goto(w, "pop", "gone") /\ PopExhausted(w)
      BY <3>1, <3>3, ClientMove
         DEF PopExhausted, Client!PopExhausted, Client!Step, Client!Exhausted, Client!Move
    <3>4. CASE Goto(w, "pop", "pop") /\ PopWait(w)
      BY <3>1, <3>4, ClientMove
         DEF PopWait, Client!PopWait, Client!Step, Client!Park, Client!Move
    <3> QED BY <2>4, <3>2, <3>3, <3>4 DEF Pop
  <2>5. CASE PushLinks(w)
    <3>1. Client!Push(Client!LinkEntries(held[w]))
      BY <2>5, ClientPush DEF PushLinks, LinkEntries, Client!LinkEntries
    <3>2. View("push") = "busy" /\ View("idle") = "busy"
      BY DEF View
    <3> QED BY <2>5, <3>1, <3>2, ClientMove
            DEF PushLinks, Client!Step, Client!PushLinks, Client!Move
  <2>6. CASE Release(w)
    <3>1. PICK from \in {"drop", "failed", "quit", "idle"}, to \in {"top", "gone"}, f \in Fate :
            GiveBack(w, from, to, f)
      BY <2>6, ReleaseStep
    <3>2. View(from) = "busy" /\ View("top") = "out" /\ View("gone") = "gone"
      BY DEF View
    <3>3. Client!MarkIdle(w)
      BY <3>1 DEF GiveBack, MarkIdle, Client!MarkIdle
    <3> QED BY <3>1, <3>2, <3>3, ClientMove
            DEF GiveBack, Client!Step, Client!Release, Client!Move
  <2> QED BY <1>4, <2>1, <2>2, <2>3, <2>4, <2>5, <2>6 DEF Step
<1>5. CASE \E w \in Worker : Step(w)
  BY <1>4, <1>5 DEF Client!Next
<1> QED BY <1>1, <1>2, <1>3, <1>5 DEF Next

-----------------------------------------------------------------------------
(* The engine is a crawl: what its steps do to the pages found, taken and  *)
(* in hand.                                                                *)

(* A step that leaves the frontier and Crawl alone is invisible, unless it *)
(* is the one that spends the budget.                                      *)
LEMMA QuietStep ==
  ASSUME UNCHANGED <<frontierVars, main>>, CutShort => CutShort'
  PROVE  Abstract!Cut \/ UNCHANGED Abstract!vars
<1>1. Phase' = Phase
  BY DEF Phase
<1>2. seen' = seen /\ TakenPages' = TakenPages /\ HeldPages' = HeldPages
  BY DEF frontierVars, TakenPages, QueuedPages, PagesIn, HeldPages, Holders
<1>3. CASE CutShort' = CutShort
  BY <1>1, <1>2, <1>3 DEF Abstract!vars
<1>4. CASE CutShort' # CutShort
  <2>1. CutShort' = TRUE
    BY <1>4 DEF CutShort
  <2> QED BY <1>1, <1>2, <2>1 DEF Abstract!Cut
<1> QED BY <1>3, <1>4

LEMMA CrawlStep == IInv /\ [Next]_vars => [Abstract!Next]_(Abstract!vars)
<1> SUFFICES ASSUME IInv, [Next]_vars PROVE [Abstract!Next]_(Abstract!vars)
  OBVIOUS
<1>0. LoopInv /\ FrontierInv /\ LeaveInv /\ pageCount \in Nat
  BY DEF IInv, LoopInv, TypeOK
<1>1. CASE Start
  <2>1. main = "start" /\ seen = {} /\ ~closed /\ Push(SeedEntries)
    BY <1>0, <1>1 DEF Start, LeaveInv
  <2>2. HeldPages' = HeldPages /\ TakenPages' = TakenPages
    BY <1>0, <2>1, SeedEntriesType, PushTakesNothing
  <2>3. CutShort' = CutShort
    BY <1>1 DEF Start, crawlVars, CutShort, BudgetReached
  <2>4. CASE NewEntries(SeedEntries) = <<>>
    <3>1. seen' = {}
      BY <1>0, <2>1, <2>4, SeedPush
    <3>2. Phase = "idle" /\ Phase' = "rejected"
      BY <1>1, <2>4 DEF Start, Phase
    <3> QED BY <2>1, <2>2, <2>3, <3>1, <3>2
            DEF Abstract!Reject, Abstract!Progress, Abstract!Next
  <2>5. CASE NewEntries(SeedEntries) # <<>>
    <3>1. PICK p \in Page : seen' = {p}
      BY <1>0, <2>1, <2>5, SeedPush
    <3>2. Phase = "idle" /\ Phase' = "crawling"
      BY <1>1, <2>5 DEF Start, Phase
    <3> QED BY <2>2, <2>3, <3>1, <3>2
            DEF Abstract!Begin, Abstract!Progress, Abstract!Next
  <2> QED BY <2>4, <2>5
<1>2. CASE CancelContext \/ Over \/ UNCHANGED vars
  <2>1. UNCHANGED <<frontierVars, main>> /\ (CutShort => CutShort')
    BY <1>2 DEF CancelContext, Over, vars, crawlVars, CutShort, BudgetReached
  <2> QED BY <2>1, QuietStep DEF Abstract!Next
<1>3. CASE Return
  <2>1. /\ Phase = "crawling" /\ Phase' = "over" /\ CutShort' = CutShort
        /\ UNCHANGED <<queue, seen, held>>
    BY <1>3 DEF Return, Close, Phase, CutShort, BudgetReached, crawlVars
  <2>2. Holders = {}
    BY <1>0, <1>3 DEF Return, LoopInv, HoldsByLabel, Holders, Holding, Visiting
  <2>3. HeldPages = {} /\ HeldPages' = HeldPages
    BY <2>1, <2>2 DEF HeldPages, Holders
  <2>4. TakenPages' = TakenPages
    BY <2>1 DEF TakenPages, QueuedPages, PagesIn
  <2>5. CutShort \/ seen = TakenPages
    <3>1. CutShort \/ queue = <<>>
      BY <1>0, <1>3 DEF Return, LeaveInv, CutShort
    <3>2. queue = <<>> => QueuedPages = {}
      BY DEF QueuedPages, PagesIn
    <3> QED BY <3>1, <3>2 DEF TakenPages
  <2> QED BY <2>1, <2>3, <2>4, <2>5 DEF Abstract!End, Abstract!Progress, Abstract!Next
<1>4. ASSUME NEW w \in Worker, Step(w)
      PROVE  [Abstract!Next]_(Abstract!vars)
  <2>1. Phase = "crawling" /\ Phase' = "crawling"
    <3>1. main = "running" /\ main' = main
      BY <1>4 DEF Step, CheckContext, CheckBudget, Pop, ReserveSlot, VisitFails, VisitReturns,
           EmitRequest, EmitDone, PushLinks, Release, GiveBack, Goto
    <3> QED BY <3>1 DEF Phase
  <2>2. ASSUME UNCHANGED crawlVars \/ UNCHANGED <<ctxDone, pageCount>>
        PROVE  CutShort' = CutShort
    BY <2>2 DEF crawlVars, CutShort, BudgetReached
  <2>3. CASE CheckContext(w) \/ CheckBudget(w) \/ ReserveSlot(w) \/ VisitFails(w)
               \/ VisitReturns(w) \/ EmitRequest(w) \/ EmitDone(w)
    <3>1. UNCHANGED <<frontierVars, main, ctxDone>>
      BY <1>0, <2>3, LocalStep
    <3>2. pageCount' \in {pageCount, pageCount + 1}
      BY <2>3 DEF CheckContext, CheckBudget, ReserveSlot, VisitFails, VisitReturns,
           EmitRequest, EmitDone, crawlVars
    <3>3. BudgetReached => BudgetReached'
      BY <1>0, <3>2 DEF BudgetReached
    <3>4. CutShort => CutShort'
      BY <3>1, <3>3 DEF CutShort
    <3> QED BY <3>1, <3>4, QuietStep DEF Abstract!Next
  <2>4. CASE Pop(w)
    <3>1. held[w] = NoEntry /\ UNCHANGED crawlVars
      BY <1>0, <2>4 DEF Pop, Goto, LoopInv, HoldsByLabel, Holding, Visiting
    <3>2. CASE PopEntry(w)
      <4>1. PICK p \in seen \ TakenPages :
              seen' = seen /\ HeldPages' = HeldPages \cup {p} /\ TakenPages' = TakenPages \cup {p}
        BY <1>0, <3>1, <3>2, PopTakesOne
      <4>2. p \in Page
        BY <1>0, <4>1 DEF FrontierInv, FrontierTypeOK
      <4>3. Abstract!Take(p)
        BY <2>1, <2>2, <3>1, <4>1 DEF Abstract!Take
      <4> QED BY <4>2, <4>3 DEF Abstract!Progress, Abstract!Next
    <3>3. CASE PopExhausted(w) \/ PopWait(w)
      <4>1. UNCHANGED <<queue, seen, held>> /\ CutShort' = CutShort
        BY <2>2, <3>1, <3>3 DEF PopExhausted, PopWait, frontierVars
      <4>2. TakenPages' = TakenPages /\ HeldPages' = HeldPages
        BY <4>1 DEF TakenPages, QueuedPages, PagesIn, HeldPages, Holders
      <4> QED BY <2>1, <4>1, <4>2 DEF Abstract!vars
    <3> QED BY <2>4, <3>2, <3>3 DEF Pop
  <2>5. CASE PushLinks(w)
    <3>1. held[w] \in Entry /\ w \in Holders
      BY <1>0, <2>5, HeldPageIsOwn
         DEF PushLinks, Goto, Holding, Visiting, LoopInv, HoldsByLabel, Holders
    <3>2. Push(LinkEntries(held[w])) /\ LinkEntries(held[w]) \in Seq(Entry) /\ CutShort' = CutShort
      BY <2>2, <2>5, <3>1, LinkEntriesType DEF PushLinks
    <3>3. /\ seen \subseteq seen' /\ seen' \in SUBSET Page
          /\ HeldPages' = HeldPages /\ TakenPages' = TakenPages
      BY <1>0, <3>2, PushTakesNothing
    <3>4. HeldPages # {}
      BY <3>1 DEF HeldPages
    <3>5. Abstract!Discover(seen')
      BY <2>1, <3>2, <3>3, <3>4 DEF Abstract!Discover
    <3> QED BY <3>3, <3>5 DEF Abstract!Next
  <2>6. CASE Release(w)
    <3>1. PICK from \in {"drop", "failed", "quit", "idle"}, to \in {"top", "gone"}, f \in Fate :
            GiveBack(w, from, to, f)
      BY <1>0, <2>6, ReleaseStep
    <3>2. held[w] \in Entry
      BY <1>0, <3>1, HeldPageIsOwn DEF GiveBack, Goto, Holding, Visiting
    <3>3. MarkIdle(w) /\ CutShort' = CutShort
      BY <2>2, <3>1 DEF GiveBack
    <3>4. PICK p \in HeldPages :
            seen' = seen /\ HeldPages' = HeldPages \ {p} /\ TakenPages' = TakenPages
      BY <1>0, <3>2, <3>3, MarkIdleSettlesOne
    <3>5. p \in Page
      BY <1>0, <3>4 DEF FrontierInv, FrontierTypeOK, EachPageOnce
    <3>6. Abstract!Settle(p)
      BY <2>1, <3>3, <3>4 DEF Abstract!Settle
    <3> QED BY <3>5, <3>6 DEF Abstract!Progress, Abstract!Next
  <2> QED BY <1>4, <2>3, <2>4, <2>5, <2>6 DEF Step
<1>5. CASE \E w \in Worker : Step(w)
  BY <1>4, <1>5
<1> QED BY <1>1, <1>2, <1>3, <1>5 DEF Next

(* Both backends' workers are clients of one frontier: each step of the    *)
(* headless engine is a step of the protocol frontier.go documents, or     *)
(* changes nothing the protocol talks about.                               *)
THEOREM KeepsProtocol == Spec => KeepsFrontierProtocol
<1>1. Init => Client!Init
  BY DEF Init, Client!Init, FrontierInit, Client!FrontierInit, clientPc
<1> QED BY InvInit, InvStep, ClientStep, <1>1, PTL
        DEF Spec, KeepsFrontierProtocol, Client!Spec

(* The engine is a crawl: whatever its workers' interleaving it takes only *)
(* pages it found, each of them once, finds pages only while it has one in *)
(* hand, and ends with nothing in hand and, unless the context or the      *)
(* budget cut it short, with nothing left to take.                         *)
THEOREM ImplementsCrawlSafely == Spec => Abstract!Spec
<1>1. Init => Abstract!Init
  <2> SUFFICES ASSUME Init PROVE Abstract!Init
    OBVIOUS
  <2>1. main = "start" /\ seen = {} /\ Holders = {} /\ ctxDone = FALSE /\ pageCount = 0
    BY DEF Init, FrontierInit, Holders
  <2>2. CutShort = FALSE
    BY <2>1 DEF CutShort, BudgetReached
  <2> QED BY <2>1, <2>2 DEF Abstract!Init, Phase, TakenPages, HeldPages
<1> QED BY InvInit, InvStep, CrawlStep, <1>1, PTL DEF Spec, Abstract!Spec

(* Every slot of the page budget is one page visited or being visited,     *)
(* never more than MaxPages of them, whatever the workers' interleaving;   *)
(* an entry is given up unvisited only when no slot is left.               *)
THEOREM BudgetIsExact == Spec => []BudgetExact
<1>1. IInv => BudgetExact
  BY DEF IInv
<1> QED BY InvInit, InvStep, <1>1, PTL DEF Spec

(* Reaching the budget costs no page its traffic: only the context cuts.   *)
THEOREM InFlightPagesAreKept == Spec => []InFlightPagesFinalize
<1>1. IInv => InFlightPagesFinalize
  BY DEF IInv
<1> QED BY InvInit, InvStep, <1>1, PTL DEF Spec

(* After the context ends each worker begins at most one more page.        *)
THEOREM CancellationIsPrompt == Spec => []CancelIsPrompt
<1>1. IInv => CancelIsPrompt
  <2> SUFFICES ASSUME IInv PROVE late <= Cardinality(Worker)
    BY DEF CancelIsPrompt
  <2>1. late \in Nat /\ LateAreCounted
    BY DEF IInv, LoopInv, TypeOK
  <2> QED BY <2>1, WorkersFinite DEF LateAreCounted
<1> QED BY InvInit, InvStep, <1>1, PTL DEF Spec

(* A crawl that neither the context nor the budget cut is complete, on     *)
(* every site: it visited every page it found, and it found every          *)
(* admissible link of each page whose links it read.                       *)
THEOREM UncutCrawlIsComplete == Spec => []CompleteUnlessCut
<1>1. IInv => CompleteUnlessCut
  <2> SUFFICES ASSUME IInv, main = "returned", ~ctxDone, ~BudgetReached
               PROVE  /\ queue = <<>>
                      /\ seen = {PageOf(e) : e \in fate["done"] \cup fate["bare"] \cup fate["error"]}
                      /\ \A e \in fate["done"] : LinksFound(e)
    BY DEF CompleteUnlessCut, LinksFound
  <2>1. (\A w \in Worker : pc[w] = "gone") /\ queue = <<>> /\ active = 0
    BY DEF IInv, LeaveInv
  <2>2. Holders = {}
    BY <2>1, HoldersFinite, FS_EmptySet
       DEF IInv, LoopInv, FrontierInv, Wakeup, ActiveCountsHolders
  <2>3. QueuedPages = {} /\ HeldPages = {}
    BY <2>1, <2>2 DEF QueuedPages, PagesIn, HeldPages
  <2>4. fate["cut"] = {} /\ fate["dropped"] = {}
    BY DEF IInv, InFlightPagesFinalize, BudgetExact
  <2>5. finished = fate["done"] \cup fate["bare"] \cup fate["error"]
    BY <2>4 DEF IInv, LinksInv, Visited
  <2>6. seen = FinishedPages
    BY <2>3 DEF IInv, LoopInv, FrontierInv, EachPageOnce
  <2> QED BY <2>1, <2>5, <2>6 DEF IInv, LinksInv, FinishedPages
<1> QED BY InvInit, InvStep, <1>1, PTL DEF Spec

-----------------------------------------------------------------------------
(* The command around the engine: main, the crawl it starts and the        *)
(* handler of a second signal (CrawlShutdown), for any number of signals.  *)

RunEarly == {"launch", "connect", "notify", "spawn"}
RunTeardown == {"close", "kill", "clean"}
RunOnceFresh == once["kill"] = "fresh" /\ once["clean"] = "fresh"
RunTornDown == once["kill"] = "done" /\ once["clean"] = "done"

(* The parts of CommandTypeOK the argument needs. *)
RunTyped ==
  /\ goroutine \in [Goroutine -> CommandLabel]
  /\ once \in [{"kill", "clean"} -> {"fresh", "done"} \cup Goroutine]

(* A Once that is done has had its effect, and a goroutine gets past one   *)
(* only when it is done; so whoever reaches its exit finds both done.      *)
RunInv ==
  /\ RunTyped
  /\ goroutine["main"] \in RunEarly =>
       goroutine["crawl"] = "none" /\ goroutine["handler"] = "none" /\ RunOnceFresh
  /\ goroutine["main"] = "launch" => chrome = "none" /\ ~profile
  /\ ~headless => /\ chrome = "none" /\ ~profile
                  /\ \A g \in Goroutine :
                       goroutine[g] \notin RunTeardown \cup {"launch", "connect"}
  /\ once["kill"] = "done" => chrome = "dead"
  /\ once["clean"] = "done" => ~profile
  /\ \A g \in Goroutine : goroutine[g] = "clean" => once["kill"] = "done"
  /\ \A g \in Goroutine :
       goroutine[g] = "exit" /\ headless /\ exit = "no" => RunTornDown
  /\ exit \in {"ok", "error", "forced"} => chrome \in {"none", "dead"} /\ ~profile

-----------------------------------------------------------------------------
LEMMA RunInitInv == CommandInit => RunInv
  BY DEF CommandInit, RunInv, RunTyped, Goroutine, CommandLabel, RunEarly,
         RunTeardown, RunOnceFresh

(* Steps of the environment: no goroutine moves and no Once changes. *)
LEMMA RunOutsideKeepsInv ==
  ASSUME RunInv,
         \/ Signal \/ CancelOnSignal \/ CrawlTimeout
         \/ ChromeHangs \/ KillProcess \/ BackstopFires
  PROVE  RunInv'
<1> USE DEF RunInv, RunTyped, Goroutine, RunEarly, RunTeardown, RunOnceFresh,
            RunTornDown, chromeVars, signalVars, resultVars
<1>1. CASE Signal BY <1>1 DEF Signal
<1>2. CASE CancelOnSignal BY <1>2 DEF CancelOnSignal
<1>3. CASE CrawlTimeout BY <1>3 DEF CrawlTimeout
<1>4. CASE ChromeHangs BY <1>4 DEF ChromeHangs
<1>5. CASE KillProcess BY <1>5 DEF KillProcess
<1>6. CASE BackstopFires BY <1>6 DEF BackstopFires
<1> QED BY <1>1, <1>2, <1>3, <1>4, <1>5, <1>6

(* The tear-down of Chrome by any goroutine that has a reason for it. *)
LEMMA RunKillKeepsInv ==
  ASSUME NEW g \in Goroutine, NEW to \in {"clean", "report"},
         RunInv, Kill(g, "kill", to)
  PROVE  RunInv'
<1> USE DEF RunInv, RunTyped, Goroutine, CommandLabel, RunEarly, RunTeardown,
            RunOnceFresh, RunTornDown, CommandGoto, chromeVars, signalVars, resultVars
<1>1. CASE EnterOnce("kill", g, "kill") BY <1>1 DEF EnterOnce
<1>2. CASE FinishKill(g, "kill", to) BY <1>2 DEF FinishKill
<1>3. CASE SkipOnce("kill", g, "kill", to) BY <1>3 DEF SkipOnce
<1> QED BY <1>1, <1>2, <1>3 DEF Kill

LEMMA RunCloseCallKeepsInv ==
  ASSUME NEW g \in Goroutine, NEW from \in {"close", "disconnect"},
         NEW to \in {"kill", "send"}, from = "close" <=> to = "kill",
         RunInv, CloseCall(g, from, to)
  PROVE  RunInv'
  BY DEF RunInv, RunTyped, Goroutine, CommandLabel, RunEarly, RunTeardown,
         RunOnceFresh, RunTornDown, CommandGoto, chromeVars, signalVars, resultVars,
         CloseCall

LEMMA RunCloseBrowserKeepsInv ==
  ASSUME NEW g \in {"main", "handler"}, RunInv, CloseBrowser(g)
  PROVE  RunInv'
<1> g \in Goroutine BY DEF Goroutine
<1>1. CASE CloseCall(g, "close", "kill") BY <1>1, RunCloseCallKeepsInv
<1>2. CASE Kill(g, "kill", "clean") BY <1>2, RunKillKeepsInv
<1> USE DEF RunInv, RunTyped, Goroutine, CommandLabel, RunEarly, RunTeardown,
            RunOnceFresh, RunTornDown, CommandGoto, chromeVars, signalVars, resultVars
<1>3. CASE EnterOnce("clean", g, "clean") BY <1>3 DEF EnterOnce
<1>4. CASE FinishCleanup(g, "clean", "exit") BY <1>4 DEF FinishCleanup
<1>5. CASE SkipOnce("clean", g, "clean", "exit") BY <1>5 DEF SkipOnce
<1> QED BY <1>1, <1>2, <1>3, <1>4, <1>5 DEF CloseBrowser

(* Receiving a result moves main and touches nothing of Chrome. *)
LEMMA RunReceiveKeepsInv ==
  ASSUME NEW from \in {"select", "drain"}, RunInv, Receive(from)
  PROVE  RunInv'
<1>1. PICK to \in {"stop", "write"} : CommandGoto("main", from, to)
  BY DEF Receive
<1>2. UNCHANGED <<chromeVars, exit>>
  BY DEF Receive
<1> QED BY <1>1, <1>2 DEF RunInv, RunTyped, Goroutine, CommandLabel, RunEarly,
           RunTeardown, RunOnceFresh, RunTornDown, CommandGoto, chromeVars

LEMMA RunMainKeepsInv == RunInv /\ Main => RunInv'
<1> SUFFICES ASSUME RunInv, Main PROVE RunInv'
  OBVIOUS
<1>1. CASE CloseBrowser("main") BY <1>1, RunCloseBrowserKeepsInv
<1>8. CASE Receive("select") \/ Receive("drain") BY <1>8, RunReceiveKeepsInv
<1> USE DEF RunInv, RunTyped, Goroutine, CommandLabel, RunEarly, RunTeardown,
            RunOnceFresh, RunTornDown, CommandGoto, chromeVars, signalVars, resultVars
<1>2. CASE LaunchFails BY <1>2 DEF LaunchFails, Fail
<1>3. CASE LaunchChrome BY <1>3 DEF LaunchChrome
<1>4. CASE ConnectFails BY <1>4 DEF ConnectFails, Fail
<1>5. CASE Connect BY <1>5 DEF Connect
<1>6. CASE NotifyContext BY <1>6 DEF NotifyContext
<1>7. CASE Spawn BY <1>7 DEF Spawn
<1>14. CASE RejectProxy BY <1>14 DEF RejectProxy
<1>9. CASE Interrupted BY <1>9 DEF Interrupted
<1>10. CASE GiveUp BY <1>10 DEF GiveUp
<1>11. CASE WriteOutput BY <1>11 DEF WriteOutput
<1>12. CASE Stop BY <1>12 DEF Stop, Closing
<1>13. CASE ExitMain BY <1>13 DEF ExitMain
<1> QED BY <1>1, <1>2, <1>3, <1>4, <1>5, <1>6, <1>7, <1>8, <1>9, <1>10, <1>11, <1>12,
           <1>13, <1>14 DEF Main

LEMMA RunCrawlKeepsInv == RunInv /\ (Crawl \/ EngineReturns) => RunInv'
<1> SUFFICES ASSUME RunInv, Crawl \/ EngineReturns PROVE RunInv'
  OBVIOUS
<1> "crawl" \in Goroutine BY DEF Goroutine
<1>1. CASE Kill("crawl", "kill", "report") BY <1>1, RunKillKeepsInv
<1>2. CASE CloseCall("crawl", "disconnect", "send") BY <1>2, RunCloseCallKeepsInv
<1> USE DEF RunInv, RunTyped, Goroutine, CommandLabel, RunEarly, RunTeardown,
            RunOnceFresh, RunTornDown, CommandGoto, chromeVars, signalVars, resultVars
<1>3. CASE CrawlRefused BY <1>3 DEF CrawlRefused, Returns
<1>4. CASE StartEngine BY <1>4 DEF StartEngine
<1>5. CASE CheckInterrupted BY <1>5 DEF CheckInterrupted
<1>6. CASE Report BY <1>6 DEF Report, Returns
<1>7. CASE Send BY <1>7 DEF Send
<1>8. CASE EngineReturns BY <1>8 DEF EngineReturns
<1> QED BY <1>1, <1>2, <1>3, <1>4, <1>5, <1>6, <1>7, <1>8 DEF Crawl

LEMMA RunHandlerKeepsInv == RunInv /\ Handler => RunInv'
<1> SUFFICES ASSUME RunInv, Handler PROVE RunInv'
  OBVIOUS
<1>1. CASE CloseBrowser("handler") BY <1>1, RunCloseBrowserKeepsInv
<1> USE DEF RunInv, RunTyped, Goroutine, CommandLabel, RunEarly, RunTeardown,
            RunOnceFresh, RunTornDown, CommandGoto, chromeVars, signalVars, resultVars
<1>2. CASE FirstSignalHandled BY <1>2 DEF FirstSignalHandled
<1>3. CASE Register BY <1>3 DEF Register
<1>4. CASE ForceExit BY <1>4 DEF ForceExit, Closing
<1>5. CASE ExitForced BY <1>5 DEF ExitForced
<1> QED BY <1>1, <1>2, <1>3, <1>4, <1>5 DEF Handler

LEMMA RunStutterKeepsInv == RunInv /\ UNCHANGED commandVars => RunInv'
  BY DEF RunInv, RunTyped, RunEarly, RunTeardown, RunOnceFresh, RunTornDown,
         commandVars, chromeVars, signalVars, resultVars

(* No exit of the command leaves Chrome running or its directory behind,   *)
(* however the tear-downs of main, crawl and force-exit handler overlap.   *)
THEOREM NoExitLeavesChrome == CommandSpec => []NoOrphanChrome
<1>1. RunInv /\ [CommandNext]_commandVars => RunInv'
  BY RunOutsideKeepsInv, RunMainKeepsInv, RunCrawlKeepsInv, RunHandlerKeepsInv,
     RunStutterKeepsInv DEF CommandNext, CommandOver
<1>2. RunInv => NoOrphanChrome
  BY DEF RunInv, NoOrphanChrome
<1> QED BY RunInitInv, <1>1, <1>2, PTL DEF CommandSpec

-----------------------------------------------------------------------------
(* What main does with the crawl's result.  The result does not change any *)
(* more once it was sent, so what main made of it stays true; and until    *)
(* main stops the context itself, a done context means a signal.           *)
RunBefore == RunEarly \cup {"select", "drain", "write"}
RunEnds ==
  {"launch failed", "bad proxy", "crawl failed", "timed out", "written", "write failed"}
RunFromResult == {"received", "written", "write failed", "crawl failed"}

RunKept ==
  /\ RunTyped
  /\ result \in {"none", "complete", "stopped", "failed"}
  /\ goroutine["main"] \in RunEarly => goroutine["crawl"] = "none" /\ ~channel
  /\ goroutine["main"] \in RunEarly \cup {"select", "drain"} => outcome = "none"
  /\ goroutine["main"] = "write" => outcome = "received"
  /\ goroutine["main"] \notin RunBefore => outcome \in RunEnds
  /\ goroutine["crawl"] \in {"disconnect", "send", "sent"} => result # "none"
  /\ channel => goroutine["crawl"] = "sent"
  /\ outcome \in RunFromResult =>
       goroutine["crawl"] = "sent" /\ (outcome = "crawl failed" <=> result = "failed")
  /\ goroutine["main"] \in RunBefore /\ sigDone => notified
  /\ goroutine["main"] = "drain" => sigDone
  /\ outcome = "timed out" => fired /\ notified
  /\ exit = "ok" => outcome = "written"
  /\ exit = "error" => outcome \in RunEnds \ {"written"}

LEMMA RunKeptInit == CommandInit => RunKept
  BY DEF CommandInit, RunKept, RunTyped, Goroutine, CommandLabel, RunEarly, RunBefore,
         RunEnds, RunFromResult

LEMMA RunOutsideKeepsKept ==
  ASSUME RunKept,
         \/ Signal \/ CancelOnSignal \/ CrawlTimeout
         \/ ChromeHangs \/ KillProcess \/ BackstopFires
  PROVE  RunKept'
<1> USE DEF RunKept, RunTyped, Goroutine, RunEarly, RunBefore, RunEnds, RunFromResult,
            chromeVars, signalVars, resultVars
<1>1. CASE Signal BY <1>1 DEF Signal
<1>2. CASE CancelOnSignal BY <1>2 DEF CancelOnSignal
<1>3. CASE CrawlTimeout BY <1>3 DEF CrawlTimeout
<1>4. CASE ChromeHangs BY <1>4 DEF ChromeHangs
<1>5. CASE KillProcess BY <1>5 DEF KillProcess
<1>6. CASE BackstopFires BY <1>6 DEF BackstopFires
<1> QED BY <1>1, <1>2, <1>3, <1>4, <1>5, <1>6

(* Taking down Chrome leaves the result alone. *)
LEMMA RunKillKeepsKept ==
  ASSUME NEW g \in Goroutine, NEW to \in {"clean", "report"},
         g = "crawl" <=> to = "report", RunKept, Kill(g, "kill", to)
  PROVE  RunKept'
<1> USE DEF RunKept, RunTyped, Goroutine, CommandLabel, RunEarly, RunBefore, RunEnds,
            RunFromResult, CommandGoto, chromeVars, signalVars, resultVars
<1>1. CASE EnterOnce("kill", g, "kill") BY <1>1 DEF EnterOnce
<1>2. CASE FinishKill(g, "kill", to) BY <1>2 DEF FinishKill
<1>3. CASE SkipOnce("kill", g, "kill", to) BY <1>3 DEF SkipOnce
<1> QED BY <1>1, <1>2, <1>3 DEF Kill

LEMMA RunCloseBrowserKeepsKept ==
  ASSUME NEW g \in {"main", "handler"}, RunKept, CloseBrowser(g)
  PROVE  RunKept'
<1> g \in Goroutine BY DEF Goroutine
<1>2. CASE Kill(g, "kill", "clean") BY <1>2, RunKillKeepsKept
<1> USE DEF RunKept, RunTyped, Goroutine, CommandLabel, RunEarly, RunBefore, RunEnds,
            RunFromResult, CommandGoto, chromeVars, signalVars, resultVars
<1>1. CASE CloseCall(g, "close", "kill") BY <1>1 DEF CloseCall
<1>3. CASE EnterOnce("clean", g, "clean") BY <1>3 DEF EnterOnce
<1>4. CASE FinishCleanup(g, "clean", "exit") BY <1>4 DEF FinishCleanup
<1>5. CASE SkipOnce("clean", g, "clean", "exit") BY <1>5 DEF SkipOnce
<1> QED BY <1>1, <1>2, <1>3, <1>4, <1>5 DEF CloseBrowser

LEMMA RunMainKeepsKept == RunKept /\ Main => RunKept'
<1> SUFFICES ASSUME RunKept, Main PROVE RunKept'
  OBVIOUS
<1>1. CASE CloseBrowser("main") BY <1>1, RunCloseBrowserKeepsKept
<1> USE DEF RunKept, RunTyped, Goroutine, CommandLabel, RunEarly, RunBefore, RunEnds,
            RunFromResult, CommandGoto, chromeVars, signalVars, resultVars
<1>2. CASE LaunchFails BY <1>2 DEF LaunchFails, Fail
<1>3. CASE LaunchChrome BY <1>3 DEF LaunchChrome
<1>4. CASE ConnectFails BY <1>4 DEF ConnectFails, Fail
<1>5. CASE Connect BY <1>5 DEF Connect
<1>6. CASE NotifyContext BY <1>6 DEF NotifyContext
<1>7. CASE Spawn BY <1>7 DEF Spawn
<1>8. CASE RejectProxy BY <1>8 DEF RejectProxy
<1>9. CASE Receive("select") BY <1>9 DEF Receive
<1>10. CASE Receive("drain") BY <1>10 DEF Receive
<1>11. CASE Interrupted BY <1>11 DEF Interrupted
<1>12. CASE GiveUp BY <1>12 DEF GiveUp
<1>13. CASE WriteOutput BY <1>13 DEF WriteOutput
<1>14. CASE Stop BY <1>14 DEF Stop, Closing
<1>15. CASE ExitMain BY <1>15 DEF ExitMain
<1> QED BY <1>1, <1>2, <1>3, <1>4, <1>5, <1>6, <1>7, <1>8, <1>9, <1>10, <1>11, <1>12,
           <1>13, <1>14, <1>15 DEF Main

LEMMA RunCrawlKeepsKept == RunKept /\ (Crawl \/ EngineReturns) => RunKept'
<1> SUFFICES ASSUME RunKept, Crawl \/ EngineReturns PROVE RunKept'
  OBVIOUS
<1> "crawl" \in Goroutine BY DEF Goroutine
<1>1. CASE Kill("crawl", "kill", "report") BY <1>1, RunKillKeepsKept
<1> USE DEF RunKept, RunTyped, Goroutine, CommandLabel, RunEarly, RunBefore, RunEnds,
            RunFromResult, CommandGoto, chromeVars, signalVars, resultVars
<1>2. CASE CloseCall("crawl", "disconnect", "send") BY <1>2 DEF CloseCall
<1>3. CASE CrawlRefused
  <2>1. CASE Returns("start", "send", "failed") BY <2>1 DEF Returns
  <2>2. CASE Returns("start", "send", "stopped") BY <2>2 DEF Returns
  <2> QED BY <1>3, <2>1, <2>2 DEF CrawlRefused
<1>4. CASE StartEngine BY <1>4 DEF StartEngine
<1>5. CASE CheckInterrupted BY <1>5 DEF CheckInterrupted
<1>6. CASE Report
  <2>1. PICK to \in {"disconnect", "send"}, r \in {"stopped", "complete", "failed"} :
          Returns("report", to, r)
    BY <1>6 DEF Report
  <2> QED BY <2>1 DEF Returns
<1>7. CASE Send BY <1>7 DEF Send
<1>8. CASE EngineReturns BY <1>8 DEF EngineReturns
<1> QED BY <1>1, <1>2, <1>3, <1>4, <1>5, <1>6, <1>7, <1>8 DEF Crawl

LEMMA RunHandlerKeepsKept == RunKept /\ Handler => RunKept'
<1> SUFFICES ASSUME RunKept, Handler PROVE RunKept'
  OBVIOUS
<1>1. CASE CloseBrowser("handler") BY <1>1, RunCloseBrowserKeepsKept
<1> USE DEF RunKept, RunTyped, Goroutine, CommandLabel, RunEarly, RunBefore, RunEnds,
            RunFromResult, CommandGoto, chromeVars, signalVars, resultVars
<1>2. CASE FirstSignalHandled BY <1>2 DEF FirstSignalHandled
<1>3. CASE Register BY <1>3 DEF Register
<1>4. CASE ForceExit BY <1>4 DEF ForceExit, Closing
<1>5. CASE ExitForced BY <1>5 DEF ExitForced
<1> QED BY <1>1, <1>2, <1>3, <1>4, <1>5 DEF Handler

LEMMA RunStutterKeepsKept == RunKept /\ UNCHANGED commandVars => RunKept'
<1> SUFFICES ASSUME RunKept, UNCHANGED commandVars PROVE RunKept'
  OBVIOUS
<1> QED BY DEF RunKept, RunTyped, RunEarly, RunBefore, RunEnds, RunFromResult,
               commandVars, chromeVars, signalVars, resultVars

(* The command ends in an error only when something failed or the crawl    *)
(* had not come back at the backstop: a signal or a timeout of the crawl   *)
(* is no error, and a command that ends well wrote a crawl's results.      *)
THEOREM StoppedCrawlsAreKept == CommandSpec => []StoppedCrawlIsKept
<1>1. RunKept /\ [CommandNext]_commandVars => RunKept'
  BY RunOutsideKeepsKept, RunMainKeepsKept, RunCrawlKeepsKept, RunHandlerKeepsKept,
     RunStutterKeepsKept DEF CommandNext, CommandOver
<1>2. RunKept => StoppedCrawlIsKept
  BY DEF RunKept, StoppedCrawlIsKept, RunEnds, RunFromResult
<1> QED BY RunKeptInit, <1>1, <1>2, PTL DEF CommandSpec
=============================================================================
