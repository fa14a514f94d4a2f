------------------------------ MODULE HttpProofs ------------------------------
(***************************************************************************)
(* Proofs about the net/http crawl backend, for every site, every number   *)
(* of workers and every page budget; and, apart from it, about the dialer  *)
(* for connections through an HTTP proxy, for every order of the steps of  *)
(* the dialer, its watcher and the proxy.                                  *)
(***************************************************************************)
EXTENDS HttpCrawl, ProxyConnect, FrontierLemmas

USE FrontierAssumption, HttpAssumption

-----------------------------------------------------------------------------
(* The invariant: what a worker's place in its loop says about the entry   *)
(* it holds, and what the shared list, the budget and crawlCtx say about   *)
(* each other.                                                             *)

Holding == Label \ {"top", "pop", "gone"}
InFlight == {w \in Worker : pc[w] \in {"fetch", "record"}}
AtHome == {w \in Worker : pc[w] \in {"push", "idle"}}

HoldsByLabel == \A w \in Worker : pc[w] \in Holding <=> held[w] # NoEntry

LoopInv == TypeOK /\ FrontierInv /\ HoldsByLabel

FetchedWereHeld == Fetched \subseteq finished

CanceledWhenSpent == canceled <=> pageCount = MaxPages

OvershootInv ==
  /\ IsFiniteSet(discarded)
  /\ IF canceled THEN Cardinality(discarded) + Cardinality(InFlight) < Cardinality(Worker)
     ELSE discarded = {}

CutInv ==
  /\ fate["cut"] # {} => CrawlCtxDone
  /\ \A w \in Worker : pc[w] = "aborted" => CrawlCtxDone

(* Nobody leaves a crawl that was not cut before the frontier is empty and *)
(* nobody is left to add to it.                                            *)
LeaveInv ==
  /\ closed => main \in {"returned", "interrupted"}
  /\ main = "start" => seen = {} /\ \A w \in Worker : pc[w] = "top"
  /\ main = "returned" => ~ctxDone /\ \A w \in Worker : pc[w] = "gone"
  /\ ~CrawlCtxDone /\ (\E w \in Worker : pc[w] = "gone") => queue = <<>> /\ active = 0

LinksFound(e) ==
  \A i \in DOMAIN LinkEntries(e) :
    Admissible(LinkEntries(e)[i]) => PageOf(LinkEntries(e)[i]) \in seen

LinksInv ==
  /\ finished = Fetched \cup fate["error"] \cup fate["cut"]
  /\ \A e \in fate["done"] : LinksFound(e)
  /\ \A w \in Worker : pc[w] = "idle" /\ w \in linked => LinksFound(held[w])

IInv ==
  /\ LoopInv
  /\ FetchedWereHeld /\ RecordsFetchedPages
  /\ CanceledWhenSpent /\ OvershootInv
  /\ CutInv /\ LeaveInv /\ LinksInv

-----------------------------------------------------------------------------
(* Lemmas about one worker's move.                                         *)

(* A worker that holds an entry holds a page, no other worker holds it and *)
(* it is not the page of a finished entry.                                 *)
LEMMA HeldPageIsOwn ==
  ASSUME LoopInv, NEW w \in Worker, pc[w] \in Holding
  PROVE  /\ held[w] \in Entry
         /\ \A v \in Worker : pc[v] \in Holding /\ v # w => PageOf(held[v]) # PageOf(held[w])
         /\ \A e \in finished : PageOf(e) # PageOf(held[w])
<1>1. held[w] \in Entry /\ w \in Holders
  BY DEF LoopInv, HoldsByLabel, Holders, FrontierInv, FrontierTypeOK
<1>2. PageOf(held[w]) \in HeldPages
  BY <1>1 DEF HeldPages
<1>3. \A v \in Worker : pc[v] \in Holding => v \in Holders
  BY DEF LoopInv, HoldsByLabel, Holders
<1>4. \A v \in Worker : pc[v] \in Holding /\ v # w => PageOf(held[v]) # PageOf(held[w])
  BY <1>1, <1>3 DEF LoopInv, FrontierInv, EachPageOnce
<1>5. \A e \in finished : PageOf(e) # PageOf(held[w])
  BY <1>2 DEF LoopInv, FrontierInv, EachPageOnce, FinishedPages
<1> QED BY <1>1, <1>4, <1>5

(* How the sets of workers change when one worker moves.                   *)
LEMMA MoveSets ==
  ASSUME NEW w \in Worker, NEW from, NEW to \in Label, pc \in [Worker -> Label],
         Goto(w, from, to)
  PROVE  /\ pc[w] = from /\ main = "running" /\ main' = main
         /\ pc' = [pc EXCEPT ![w] = to]
         /\ pc' \in [Worker -> Label]
         /\ InFlight' = IF to \in {"fetch", "record"} THEN InFlight \cup {w} ELSE InFlight \ {w}
         /\ AtHome' = IF to \in {"push", "idle"} THEN AtHome \cup {w} ELSE AtHome \ {w}
<1>1. pc[w] = from /\ main = "running" /\ main' = main /\ pc' = [pc EXCEPT ![w] = to]
  BY DEF Goto
<1>2. pc'[w] = to /\ \A v \in Worker \ {w} : pc'[v] = pc[v]
  BY <1>1
<1>3. InFlight' = IF to \in {"fetch", "record"} THEN InFlight \cup {w} ELSE InFlight \ {w}
  BY <1>2 DEF InFlight
<1>4. AtHome' = IF to \in {"push", "idle"} THEN AtHome \cup {w} ELSE AtHome \ {w}
  BY <1>2 DEF AtHome
<1> QED BY <1>1, <1>3, <1>4

LEMMA WorkersFinite ==
  /\ IsFiniteSet(InFlight) /\ Cardinality(InFlight) \in Nat
  /\ Cardinality(Worker) \in Nat \ {0}
<1>1. Cardinality(Worker) # 0
  BY FS_EmptySet
<1> QED BY <1>1, FS_Subset, FS_CardinalityType DEF InFlight

-----------------------------------------------------------------------------
(* Types, the frontier and the labels that go with holding an entry.       *)

LEMMA LoopInit == Init => LoopInv
<1> SUFFICES ASSUME Init PROVE LoopInv
  OBVIOUS
<1>1. FrontierInv
  BY FrontierInitInv DEF Init
<1>2. TypeOK
  <2>1. pc \in [Worker -> Label]
    BY DEF Init, Label
  <2>2. results \in Seq(Entry) /\ pageCount \in 0..MaxPages
    BY EmptySeq DEF Init
  <2>3. fate \in [Fate -> SUBSET Entry]
    BY DEF Init
  <2> QED BY <1>1, <2>1, <2>2, <2>3 DEF Init, TypeOK, FrontierInv
<1>3. HoldsByLabel
  BY DEF Init, FrontierInit, HoldsByLabel, Holding, Label
<1> QED BY <1>1, <1>2, <1>3 DEF LoopInv

(* A step of the loop that leaves the frontier alone.                      *)
LEMMA LocalStep ==
  ASSUME LoopInv, NEW w \in Worker,
         CheckContext(w) \/ WaitLimiter(w) \/ FetchFails(w) \/ FetchReturns(w) \/ Record(w)
  PROVE  /\ UNCHANGED <<frontierVars, main, ctxDone, fate>>
         /\ \E from, to \in Label :
              /\ Goto(w, from, to)
              /\ from \in Holding <=> to \in Holding
         /\ TypeOK'
<1>0. TypeOK /\ pc \in [Worker -> Label]
  BY DEF LoopInv, TypeOK
<1>1. UNCHANGED <<frontierVars, ctxDone, fate>>
  BY DEF CheckContext, WaitLimiter, FetchFails, FetchReturns, Record, crawlVars
<1>2. PICK from, to \in Label : Goto(w, from, to) /\ (from \in Holding <=> to \in Holding)
  <2>1. CASE CheckContext(w)
    BY <2>1 DEF CheckContext, Label, Holding
  <2>2. CASE WaitLimiter(w)
    BY <2>2 DEF WaitLimiter, Label, Holding
  <2>3. CASE FetchFails(w) \/ FetchReturns(w)
    BY <2>3 DEF FetchFails, FetchReturns, Label, Holding
  <2>4. CASE Record(w)
    BY <2>4 DEF Record, Label, Holding
  <2> QED BY <2>1, <2>2, <2>3, <2>4
<1>3. pc' \in [Worker -> Label] /\ main' = main
  BY <1>0, <1>2, MoveSets
<1>4. /\ pageCount' \in 0..MaxPages /\ results' \in Seq(Entry) /\ canceled' \in BOOLEAN
      /\ linked' \subseteq Worker /\ discarded' \subseteq Entry
  <2>1. CASE CheckContext(w) \/ WaitLimiter(w) \/ FetchFails(w)
    BY <1>0, <2>1 DEF CheckContext, WaitLimiter, FetchFails, crawlVars, TypeOK
  <2>2. CASE FetchReturns(w)
    BY <1>0, <2>2 DEF FetchReturns, TypeOK
  <2>3. CASE Record(w)
    <3>1. pc[w] \in Holding
      BY <2>3 DEF Record, Goto, Holding, Label
    <3>2. held[w] \in Entry
      BY <3>1, HeldPageIsOwn
    <3>3. results' \in Seq(Entry)
      BY <1>0, <2>3, <3>2, AppendProperties DEF Record, TypeOK
    <3>4. pageCount' \in 0..MaxPages /\ linked' = linked
      BY <1>0, <2>3 DEF Record, TypeOK
    <3>5. canceled' \in BOOLEAN
      BY <1>0, <2>3 DEF Record, TypeOK
    <3>6. discarded' \subseteq Entry
      BY <1>0, <2>3, <3>2 DEF Record, TypeOK
    <3> QED BY <1>0, <3>3, <3>4, <3>5, <3>6 DEF TypeOK
  <2> QED BY <2>1, <2>2, <2>3
<1>5. TypeOK'
  BY <1>0, <1>1, <1>3, <1>4 DEF TypeOK, FrontierTypeOK, frontierVars
<1> QED BY <1>1, <1>2, <1>3, <1>5

(* MarkIdle is only called by a worker that holds an entry.                *)
LEMMA ReleaseStep ==
  ASSUME LoopInv, NEW w \in Worker, Release(w)
  PROVE  \E from \in {"failed", "aborted", "idle"}, f \in Fate :
           /\ GiveBack(w, from, f)
           /\ from = "idle" <=> f \in {"done", "bare"}
           /\ from = "aborted" <=> f = "cut"
BY DEF Release, Fate

LEMMA LoopStep ==
  ASSUME LoopInv, [Next]_vars
  PROVE  LoopInv'
<1>0. TypeOK /\ FrontierInv /\ FrontierTypeOK /\ HoldsByLabel
  BY DEF LoopInv, TypeOK
<1>1. CASE Start
  <2>1. FrontierInv' /\ held' = held /\ UNCHANGED <<pc, crawlVars>>
    BY <1>0, <1>1, SeedEntriesType, PushInv DEF Start, Push
  <2>2. main' \in {"running", "rejected"}
    BY <1>1 DEF Start
  <2> QED BY <1>0, <2>1, <2>2 DEF LoopInv, TypeOK, FrontierInv, HoldsByLabel, crawlVars
<1>2. CASE CancelContext
  BY <1>0, <1>2, UnchangedInv
     DEF CancelContext, LoopInv, TypeOK, FrontierInv, HoldsByLabel, frontierVars
<1>3. CASE Return
  <2>1. FrontierInv' /\ held' = held /\ UNCHANGED <<pc, crawlVars>>
    BY <1>0, <1>3, CloseInv DEF Return, Close
  <2>2. main' \in {"returned", "interrupted"}
    BY <1>3 DEF Return
  <2> QED BY <1>0, <2>1, <2>2 DEF LoopInv, TypeOK, FrontierInv, HoldsByLabel, crawlVars
<1>4. CASE StartInterrupted \/ Over \/ UNCHANGED vars
  <2>1. UNCHANGED <<frontierVars, pc, crawlVars>> /\ main' \in {main, "refused"}
    BY <1>4 DEF StartInterrupted, Over, vars
  <2>2. FrontierInv' /\ held' = held
    BY <1>0, <2>1, UnchangedInv DEF frontierVars
  <2> QED BY <1>0, <2>1, <2>2 DEF LoopInv, TypeOK, FrontierInv, HoldsByLabel, crawlVars
<1>5. ASSUME NEW w \in Worker,
             CheckContext(w) \/ WaitLimiter(w) \/ FetchFails(w) \/ FetchReturns(w) \/ Record(w)
      PROVE  LoopInv'
  <2>1. UNCHANGED frontierVars /\ TypeOK'
    BY <1>5, LocalStep
  <2>2. PICK from, to \in Label : Goto(w, from, to) /\ (from \in Holding <=> to \in Holding)
    BY <1>5, LocalStep
  <2>3. HoldsByLabel'
    BY <1>0, <2>1, <2>2 DEF Goto, HoldsByLabel, frontierVars, TypeOK
  <2> QED BY <1>0, <2>1, <2>3, UnchangedInv DEF LoopInv
<1>6. ASSUME NEW w \in Worker, Pop(w)
      PROVE  LoopInv'
  <2>1. held[w] = NoEntry /\ pc[w] = "pop" /\ UNCHANGED <<main, crawlVars>>
    BY <1>0, <1>6 DEF Pop, Goto, HoldsByLabel, Holding
  <2>2. CASE Goto(w, "pop", "limit") /\ PopEntry(w)
    <3>1. PICK e \in Entry : held' = [held EXCEPT ![w] = e]
      BY <1>0, <2>2, PopEntryTakes
    <3>2. FrontierInv'
      BY <1>0, <2>1, <2>2, PopEntryInv
    <3>3. HoldsByLabel'
      BY <1>0, <2>2, <3>1 DEF Goto, HoldsByLabel, TypeOK, FrontierTypeOK, Holding, Label
    <3>4. pc' \in [Worker -> Label]
      BY <1>0, <2>2 DEF Goto, TypeOK, Label
    <3> QED BY <1>0, <2>1, <3>2, <3>3, <3>4 DEF LoopInv, TypeOK, FrontierInv, crawlVars
  <2>3. CASE Goto(w, "pop", "gone") /\ PopExhausted(w)
    <3>1. UNCHANGED frontierVars /\ held' = held
      BY <2>3 DEF PopExhausted, frontierVars
    <3>2. FrontierInv'
      BY <1>0, <3>1, UnchangedInv
    <3>3. HoldsByLabel' /\ pc' \in [Worker -> Label]
      BY <1>0, <2>3, <3>1 DEF Goto, HoldsByLabel, TypeOK, Label, Holding
    <3> QED BY <1>0, <2>1, <3>2, <3>3 DEF LoopInv, TypeOK, FrontierInv, crawlVars
  <2>4. CASE Goto(w, "pop", "pop") /\ PopWait(w)
    <3>1. FrontierInv' /\ held' = held
      BY <1>0, <2>4, PopWaitInv DEF PopWait
    <3>2. pc' = pc
      BY <1>0, <2>4 DEF Goto, TypeOK
    <3> QED BY <1>0, <2>1, <3>1, <3>2 DEF LoopInv, TypeOK, FrontierInv, HoldsByLabel, crawlVars
  <2> QED BY <1>6, <2>2, <2>3, <2>4 DEF Pop
<1>7. ASSUME NEW w \in Worker, PushLinks(w)
      PROVE  LoopInv'
  <2>1. held[w] \in Entry
    <3>1. pc[w] \in Holding
      BY <1>7 DEF PushLinks, Goto, Holding, Label
    <3> QED BY <3>1, HeldPageIsOwn
  <2>2. FrontierInv' /\ held' = held
    BY <1>0, <1>7, <2>1, LinkEntriesType, PushInv DEF PushLinks, Push
  <2>3. HoldsByLabel' /\ pc' \in [Worker -> Label]
    BY <1>0, <1>7, <2>2 DEF PushLinks, Goto, HoldsByLabel, TypeOK, Label, Holding
  <2>4. UNCHANGED <<main, crawlVars>>
    BY <1>7 DEF PushLinks, Goto
  <2> QED BY <1>0, <2>2, <2>3, <2>4 DEF LoopInv, TypeOK, FrontierInv, crawlVars
<1>8. ASSUME NEW w \in Worker, Release(w)
      PROVE  LoopInv'
  <2>1. PICK from \in {"failed", "aborted", "idle"}, f \in Fate : GiveBack(w, from, f)
    BY <1>8, ReleaseStep
  <2>2. held[w] \in Entry
    <3>1. pc[w] \in Holding
      BY <2>1 DEF GiveBack, Goto, Holding, Label
    <3> QED BY <3>1, HeldPageIsOwn
  <2>3. FrontierInv' /\ held' = [held EXCEPT ![w] = NoEntry]
    BY <1>0, <2>1, <2>2, MarkIdleInv DEF GiveBack, MarkIdle
  <2>4. HoldsByLabel' /\ pc' \in [Worker -> Label]
    BY <1>0, <2>1, <2>3
       DEF GiveBack, Goto, HoldsByLabel, TypeOK, FrontierTypeOK, Label, Holding
  <2>5. fate' \in [Fate -> SUBSET Entry]
    BY <1>0, <2>1, <2>2 DEF GiveBack, TypeOK
  <2>6. UNCHANGED <<main, ctxDone, canceled, pageCount, results, linked, discarded>>
    BY <2>1 DEF GiveBack, Goto
  <2> QED BY <1>0, <2>3, <2>4, <2>5, <2>6 DEF LoopInv, TypeOK, FrontierInv
<1> QED BY <1>1, <1>2, <1>3, <1>4, <1>5, <1>6, <1>7, <1>8 DEF Next, Step

-----------------------------------------------------------------------------
(* What the steps other than Record and MarkIdle leave alone.              *)

LEMMA ListUntouched ==
  ASSUME LoopInv, [Next]_vars, ~\E w \in Worker : Record(w) \/ Release(w)
  PROVE  /\ UNCHANGED <<canceled, pageCount, results, fate, discarded, finished>>
         /\ ctxDone => ctxDone'
         /\ AtHome' = AtHome
         /\ \A w \in AtHome : held'[w] = held[w]
         /\ InFlight' \subseteq InFlight \/ (~CrawlCtxDone /\ ~canceled')
<1>0. pc \in [Worker -> Label] /\ held \in [Worker -> Entry \cup {NoEntry}]
  BY DEF LoopInv, TypeOK, FrontierTypeOK
<1>1. CASE Start \/ StartInterrupted \/ CancelContext \/ Return \/ Over \/ UNCHANGED vars
  BY <1>1 DEF Start, StartInterrupted, CancelContext, Return, Over, vars, crawlVars,
              frontierVars, Push, Close, AtHome, InFlight
<1>2. ASSUME NEW w \in Worker, Step(w)
      PROVE  /\ UNCHANGED <<canceled, pageCount, results, fate, discarded, finished>>
             /\ ctxDone => ctxDone'
             /\ AtHome' = AtHome
             /\ \A v \in AtHome : held'[v] = held[v]
             /\ InFlight' \subseteq InFlight \/ (~CrawlCtxDone /\ ~canceled')
  <2>1. /\ UNCHANGED <<ctxDone, canceled, pageCount, results, fate, discarded, finished>>
        /\ \E from, to \in Label :
             /\ Goto(w, from, to)
             /\ from \in {"push", "idle"} <=> to \in {"push", "idle"}
             /\ \/ to \in {"fetch", "record"} => from \in {"fetch", "record"}
                \/ ~CrawlCtxDone
    <3>1. CASE CheckContext(w)
      BY <3>1 DEF CheckContext, crawlVars, frontierVars, Label
    <3>2. CASE Pop(w)
      BY <3>2 DEF Pop, PopEntry, PopExhausted, PopWait, crawlVars, frontierVars, Label
    <3>3. CASE WaitLimiter(w)
      BY <3>3 DEF WaitLimiter, crawlVars, frontierVars, Label
    <3>4. CASE FetchFails(w)
      BY <3>4 DEF FetchFails, crawlVars, frontierVars, Label
    <3>5. CASE FetchReturns(w)
      BY <3>5 DEF FetchReturns, frontierVars, Label
    <3>6. CASE PushLinks(w)
      BY <3>6 DEF PushLinks, Push, crawlVars, Label
    <3> QED BY <1>2, <3>1, <3>2, <3>3, <3>4, <3>5, <3>6 DEF Step
  <2>2. PICK from, to \in Label :
             /\ Goto(w, from, to)
             /\ from \in {"push", "idle"} <=> to \in {"push", "idle"}
             /\ \/ to \in {"fetch", "record"} => from \in {"fetch", "record"}
                \/ ~CrawlCtxDone
    BY <2>1
  <2>3. AtHome' = AtHome
    BY <1>0, <2>2, MoveSets DEF AtHome
  <2>4. InFlight' \subseteq InFlight \/ ~CrawlCtxDone
    BY <1>0, <2>2, MoveSets DEF InFlight
  <2>5. \A v \in AtHome : held'[v] = held[v]
    <3>1. CASE Pop(w)
      <4>1. pc[w] = "pop"
        BY <3>1 DEF Pop, Goto
      <4>2. \A v \in Worker \ {w} : held'[v] = held[v]
        BY <1>0, <3>1 DEF Pop, PopEntry, PopExhausted, PopWait, frontierVars
      <4> QED BY <4>1, <4>2 DEF AtHome
    <3>2. CASE ~Pop(w)
      BY <1>2, <3>2 DEF Step, CheckContext, WaitLimiter, FetchFails, FetchReturns, PushLinks,
                   Push, frontierVars
    <3> QED BY <3>1, <3>2
  <2> QED BY <2>1, <2>3, <2>4, <2>5 DEF CrawlCtxDone
<1>3. CASE \E w \in Worker : Step(w)
  BY <1>2, <1>3
<1> QED BY <1>1, <1>3 DEF Next

-----------------------------------------------------------------------------
(* The list of results and its count.                                      *)

LEMMA PastRecordOf == PastRecord = {held[w] : w \in AtHome}
BY DEF PastRecord, HeldBy, AtHome

LEMMA RecordsStep ==
  ASSUME LoopInv, FetchedWereHeld, RecordsFetchedPages, [Next]_vars
  PROVE  FetchedWereHeld' /\ RecordsFetchedPages'
<1>0. /\ pc \in [Worker -> Label] /\ fate \in [Fate -> SUBSET Entry]
      /\ results \in Seq(Entry) /\ pageCount \in 0..MaxPages
      /\ held \in [Worker -> Entry \cup {NoEntry}]
  BY DEF LoopInv, TypeOK, FrontierTypeOK
<1>1. CASE ~\E w \in Worker : Record(w) \/ Release(w)
  <2>1. /\ UNCHANGED <<pageCount, results, fate, discarded, finished>>
        /\ AtHome' = AtHome /\ \A w \in AtHome : held'[w] = held[w]
    BY <1>1, ListUntouched
  <2>2. PastRecord' = PastRecord
    <3>1. PastRecord' = {held'[w] : w \in AtHome'}
      BY DEF PastRecord, HeldBy, AtHome
    <3> QED BY <2>1, <3>1, PastRecordOf
  <2>3. Fetched' = Fetched /\ Recorded' = Recorded
    BY <2>1 DEF Fetched, Recorded
  <2> QED BY <2>1, <2>2, <2>3 DEF FetchedWereHeld, RecordsFetchedPages, PageOf
<1>2. ASSUME NEW w \in Worker, Record(w)
      PROVE  FetchedWereHeld' /\ RecordsFetchedPages'
  <2>1. /\ fate' = fate /\ finished' = finished /\ held' = held
        /\ pc[w] = "record"
    BY <1>2 DEF Record, Goto, frontierVars
  <2>2. Fetched' = Fetched
    BY <2>1 DEF Fetched
  <2>3. PastRecord' = PastRecord \cup {held[w]}
    <3>1. PICK to \in {"push", "idle"} : Goto(w, "record", to)
      BY <1>2 DEF Record
    <3>2. AtHome' = AtHome \cup {w}
      <4>1. to \in Label
        BY DEF Label
      <4> QED BY <1>0, <3>1, <4>1, MoveSets
    <3>3. PastRecord' = {held'[v] : v \in AtHome'}
      BY DEF PastRecord, HeldBy, AtHome
    <3> QED BY <2>1, <3>2, <3>3, PastRecordOf
  <2>4. /\ held[w] \in Entry
        /\ \A e \in Fetched \cup PastRecord : PageOf(e) # PageOf(held[w])
    <3>1. pc[w] \in Holding /\ w \notin AtHome /\ \A v \in AtHome : v \in Worker /\ pc[v] \in Holding
      BY <2>1 DEF Holding, Label, AtHome
    <3>2. \A e \in finished : PageOf(e) # PageOf(held[w])
      BY <3>1, HeldPageIsOwn
    <3>3. \A v \in AtHome : PageOf(held[v]) # PageOf(held[w])
      BY <3>1, HeldPageIsOwn
    <3>4. held[w] \in Entry
      BY <3>1, HeldPageIsOwn
    <3> QED BY <3>2, <3>3, <3>4, PastRecordOf DEF FetchedWereHeld
  <2>5. CASE pageCount < MaxPages
    <3>1. pageCount' = pageCount + 1 /\ results' = Append(results, held[w]) /\ discarded' = discarded
      BY <1>2, <2>5 DEF Record
    <3>2. /\ Len(results') = Len(results) + 1 /\ Len(results) \in Nat
          /\ DOMAIN results = 1..Len(results) /\ DOMAIN results' = 1..(Len(results) + 1)
          /\ \A i \in 1..Len(results) : results'[i] = results[i]
          /\ results'[Len(results) + 1] = held[w]
      BY <1>0, <2>4, <3>1, AppendProperties, LenProperties
    <3>3. Recorded' = Recorded \cup {held[w]}
      <4>1. \A i \in DOMAIN results' : results'[i] \in Recorded \cup {held[w]}
        BY <3>2 DEF Recorded
      <4>2. \A i \in DOMAIN results : i \in DOMAIN results' /\ results'[i] = results[i]
        BY <3>2
      <4>3. Len(results) + 1 \in DOMAIN results'
        BY <3>2
      <4>4. Recorded' = {results'[i] : i \in DOMAIN results'}
        BY DEF Recorded
      <4>5. Recorded \subseteq Recorded'
        BY <4>2, <4>4 DEF Recorded
      <4>6. held[w] \in Recorded'
        BY <3>2, <4>3, <4>4
      <4> QED BY <4>1, <4>4, <4>5, <4>6
    <3>4. \A i \in DOMAIN results : PageOf(results[i]) # PageOf(held[w])
      BY <2>4 DEF RecordsFetchedPages, Recorded
    <3>5. \A i, j \in DOMAIN results' : PageOf(results'[i]) = PageOf(results'[j]) => i = j
      <4> SUFFICES ASSUME NEW i \in DOMAIN results', NEW j \in DOMAIN results',
                          PageOf(results'[i]) = PageOf(results'[j])
                   PROVE  i = j
        OBVIOUS
      <4>1. /\ i \in DOMAIN results \/ i = Len(results) + 1
            /\ j \in DOMAIN results \/ j = Len(results) + 1
        BY <3>2
      <4>2. CASE i \in DOMAIN results /\ j \in DOMAIN results
        BY <3>2, <4>2 DEF RecordsFetchedPages
      <4>3. CASE i \in DOMAIN results /\ j = Len(results) + 1
        BY <3>2, <3>4, <4>3
      <4>4. CASE i = Len(results) + 1 /\ j \in DOMAIN results
        BY <3>2, <3>4, <4>4
      <4> QED BY <4>1, <4>2, <4>3, <4>4
    <3>6. Recorded' \cap discarded' = {}
      <4>1. held[w] \notin discarded
        BY <2>4 DEF RecordsFetchedPages
      <4> QED BY <3>1, <3>3, <4>1 DEF RecordsFetchedPages
    <3>7. Recorded' \cup discarded' = Fetched' \cup PastRecord'
      BY <2>2, <2>3, <3>1, <3>3 DEF RecordsFetchedPages
    <3>8. discarded' = {}
      BY <1>0, <2>5, <3>1 DEF RecordsFetchedPages
    <3>9. pageCount' = Len(results') /\ pageCount' <= MaxPages
      BY <1>0, <2>5, <3>1, <3>2 DEF RecordsFetchedPages
    <3> QED BY <2>1, <2>2, <3>5, <3>6, <3>7, <3>8, <3>9
            DEF FetchedWereHeld, RecordsFetchedPages, PageOf
  <2>6. CASE ~(pageCount < MaxPages)
    <3>1. /\ pageCount' = pageCount /\ results' = results
          /\ discarded' = discarded \cup {held[w]} /\ pageCount = MaxPages
      BY <1>0, <1>2, <2>6 DEF Record
    <3>2. Recorded' = Recorded
      BY <3>1 DEF Recorded
    <3>3. Recorded' \cap discarded' = {}
      <4>1. held[w] \notin Recorded
        BY <2>4 DEF RecordsFetchedPages
      <4> QED BY <3>1, <3>2, <4>1 DEF RecordsFetchedPages
    <3>4. Recorded' \cup discarded' = Fetched' \cup PastRecord'
      BY <2>2, <2>3, <3>1, <3>2 DEF RecordsFetchedPages
    <3> QED BY <2>1, <2>2, <3>1, <3>3, <3>4 DEF FetchedWereHeld, RecordsFetchedPages, PageOf
  <2> QED BY <2>5, <2>6
<1>3. ASSUME NEW w \in Worker, Release(w)
      PROVE  FetchedWereHeld' /\ RecordsFetchedPages'
  <2>1. PICK from \in {"failed", "aborted", "idle"}, f \in Fate :
          GiveBack(w, from, f) /\ (from = "idle" <=> f \in {"done", "bare"})
    BY <1>3, ReleaseStep
  <2>2. /\ UNCHANGED <<pageCount, results, discarded>>
        /\ fate' = [fate EXCEPT ![f] = @ \cup {held[w]}]
        /\ finished' = finished \cup {held[w]}
        /\ held' = [held EXCEPT ![w] = NoEntry]
        /\ Goto(w, from, "top")
    BY <2>1 DEF GiveBack, MarkIdle
  <2>3. Recorded' = Recorded
    BY <2>2 DEF Recorded
  <2>4. AtHome' = AtHome \ {w} /\ (w \in AtHome <=> from = "idle")
    <3>1. pc[w] = from
      BY <2>2 DEF Goto
    <3> QED BY <1>0, <2>2, <3>1, MoveSets DEF Label, AtHome
  <2>5. PastRecord' = {held[v] : v \in AtHome \ {w}}
    <3>1. PastRecord' = {held'[v] : v \in AtHome'}
      BY DEF PastRecord, HeldBy, AtHome
    <3>2. \A v \in AtHome' : held'[v] = held[v]
      BY <1>0, <2>2, <2>4 DEF AtHome
    <3> QED BY <2>4, <3>1, <3>2
  <2>6. Fetched' = IF from = "idle" THEN Fetched \cup {held[w]} ELSE Fetched
    BY <1>0, <2>1, <2>2 DEF Fetched, Fate
  <2>7. Fetched' \cup PastRecord' = Fetched \cup PastRecord
    BY <2>4, <2>5, <2>6, PastRecordOf
  <2>8. FetchedWereHeld'
    BY <2>2, <2>6 DEF FetchedWereHeld
  <2> QED BY <2>2, <2>3, <2>7, <2>8 DEF RecordsFetchedPages, PageOf
<1> QED BY <1>1, <1>2, <1>3

-----------------------------------------------------------------------------
(* The budget and the pages fetched in vain.  Only the fetches in flight   *)
(* when the last page of the budget is recorded can be discarded, and the  *)
(* worker that records it has no fetch in flight.                          *)

LEMMA OvershootStep ==
  ASSUME LoopInv, CanceledWhenSpent, OvershootInv, [Next]_vars
  PROVE  CanceledWhenSpent' /\ OvershootInv'
<1>0. /\ pc \in [Worker -> Label] /\ pageCount \in 0..MaxPages /\ canceled \in BOOLEAN
      /\ IsFiniteSet(discarded) /\ Cardinality(discarded) \in Nat
  BY FS_CardinalityType DEF LoopInv, TypeOK, OvershootInv
<1>1. ASSUME UNCHANGED <<canceled, pageCount, discarded>>,
             InFlight' \subseteq InFlight \/ ~canceled'
      PROVE  CanceledWhenSpent' /\ OvershootInv'
  <2>1. CASE ~canceled
    BY <1>1, <2>1 DEF CanceledWhenSpent, OvershootInv
  <2>2. CASE canceled
    <3>1. InFlight' \subseteq InFlight
      BY <1>1, <2>2
    <3>2. Cardinality(InFlight') <= Cardinality(InFlight) /\ Cardinality(InFlight') \in Nat
      BY <3>1, WorkersFinite, FS_Subset, FS_CardinalityType
    <3>3. Cardinality(discarded) + Cardinality(InFlight') < Cardinality(Worker)
      BY <1>0, <2>2, <3>2, WorkersFinite DEF OvershootInv
    <3> QED BY <1>0, <1>1, <2>2, <3>3 DEF CanceledWhenSpent, OvershootInv
  <2> QED BY <2>1, <2>2
<1>2. CASE ~\E w \in Worker : Record(w) \/ Release(w)
  BY <1>1, <1>2, ListUntouched
<1>3. ASSUME NEW w \in Worker, Release(w)
      PROVE  CanceledWhenSpent' /\ OvershootInv'
  <2>1. PICK from \in {"failed", "aborted", "idle"}, f \in Fate : GiveBack(w, from, f)
    BY <1>3, ReleaseStep
  <2>2. Goto(w, from, "top") /\ UNCHANGED <<canceled, pageCount, discarded>> /\ "top" \in Label
    BY <2>1 DEF GiveBack, Label
  <2>3. InFlight' \subseteq InFlight
    BY <1>0, <2>2, MoveSets
  <2> QED BY <1>1, <2>2, <2>3
<1>4. ASSUME NEW w \in Worker, Record(w)
      PROVE  CanceledWhenSpent' /\ OvershootInv'
  <2>1. InFlight' = InFlight \ {w} /\ w \in InFlight
    <3>1. PICK to \in {"push", "idle"} : Goto(w, "record", to)
      BY <1>4 DEF Record
    <3>2. to \in Label /\ to \notin {"fetch", "record"}
      BY DEF Label
    <3> QED BY <1>0, <3>1, <3>2, MoveSets DEF InFlight
  <2>2. /\ Cardinality(InFlight') = Cardinality(InFlight) - 1
        /\ Cardinality(InFlight') \in Nat
    BY <2>1, WorkersFinite, FS_RemoveElement, FS_CardinalityType
  <2>3. Cardinality(InFlight') < Cardinality(Worker)
    <3>1. InFlight \in SUBSET Worker
      BY DEF InFlight
    <3>2. Cardinality(InFlight) <= Cardinality(Worker)
      BY <3>1, FS_Subset
    <3> QED BY <2>2, <3>2, WorkersFinite
  <2>4. CASE pageCount < MaxPages
    <3>1. ~canceled /\ discarded = {} /\ discarded' = discarded
      BY <1>0, <1>4, <2>4 DEF Record, CanceledWhenSpent, OvershootInv
    <3>2. pageCount' = pageCount + 1 /\ canceled' = (canceled \/ pageCount' >= MaxPages)
      BY <1>4, <2>4 DEF Record
    <3>3. pageCount' >= MaxPages <=> pageCount' = MaxPages
      BY <1>0, <2>4, <3>2
    <3>4. CanceledWhenSpent'
      BY <3>1, <3>2, <3>3 DEF CanceledWhenSpent
    <3>5. Cardinality(discarded') + Cardinality(InFlight') < Cardinality(Worker)
      BY <2>2, <2>3, <3>1, WorkersFinite, FS_EmptySet
    <3> QED BY <1>0, <3>1, <3>4, <3>5 DEF OvershootInv
  <2>5. CASE ~(pageCount < MaxPages)
    <3>1. canceled /\ pageCount' = pageCount /\ discarded' = discarded \cup {held[w]}
      BY <1>0, <1>4, <2>5 DEF Record, CanceledWhenSpent
    <3>2. canceled'
      BY <1>4, <3>1 DEF Record
    <3>3. IsFiniteSet(discarded') /\ Cardinality(discarded') <= Cardinality(discarded) + 1
          /\ Cardinality(discarded') \in Nat
      <4>1. CASE held[w] \in discarded
        <5>1. discarded' = discarded
          BY <3>1, <4>1
        <5> QED BY <1>0, <5>1
      <4>2. CASE held[w] \notin discarded
        <5>1. /\ IsFiniteSet(discarded \cup {held[w]})
              /\ Cardinality(discarded \cup {held[w]}) = Cardinality(discarded) + 1
          BY <1>0, <4>2, FS_AddElement
        <5> QED BY <1>0, <3>1, <5>1
      <4> QED BY <4>1, <4>2
    <3>4. Cardinality(discarded') + Cardinality(InFlight') < Cardinality(Worker)
      BY <1>0, <2>2, <3>1, <3>3, WorkersFinite DEF OvershootInv
    <3> QED BY <3>1, <3>2, <3>3, <3>4 DEF CanceledWhenSpent, OvershootInv
  <2> QED BY <2>4, <2>5
<1> QED BY <1>2, <1>3, <1>4

-----------------------------------------------------------------------------
(* What cuts a fetch, and who may leave.                                   *)

LEMMA CtxIsMonotone ==
  ASSUME LoopInv, [Next]_vars, CrawlCtxDone
  PROVE  CrawlCtxDone'
<1>1. CASE ~\E w \in Worker : Record(w) \/ Release(w)
  BY <1>1, ListUntouched DEF CrawlCtxDone
<1>2. ASSUME NEW w \in Worker, Record(w) \/ Release(w)
      PROVE  CrawlCtxDone'
  BY <1>2 DEF Record, Release, GiveBack, CrawlCtxDone
<1> QED BY <1>1, <1>2

LEMMA CutStep ==
  ASSUME LoopInv, CutInv, [Next]_vars
  PROVE  CutInv'
<1>0. pc \in [Worker -> Label] /\ fate \in [Fate -> SUBSET Entry]
  BY DEF LoopInv, TypeOK
<1>1. fate'["cut"] # {} => fate["cut"] # {} \/ \E w \in Worker : pc[w] = "aborted"
  <2>1. CASE ~\E w \in Worker : Record(w) \/ Release(w)
    BY <2>1, ListUntouched
  <2>2. ASSUME NEW w \in Worker, Record(w)
        PROVE  fate' = fate
    BY <2>2 DEF Record
  <2>3. ASSUME NEW w \in Worker, Release(w)
        PROVE  fate'["cut"] = fate["cut"] \/ pc[w] = "aborted"
    <3>1. PICK from \in {"failed", "aborted", "idle"}, f \in Fate :
            GiveBack(w, from, f) /\ (from = "aborted" <=> f = "cut")
      BY <2>3, ReleaseStep
    <3> QED BY <1>0, <3>1 DEF GiveBack, Goto, Fate
  <2> QED BY <2>1, <2>2, <2>3
<1>2. ASSUME NEW v \in Worker, pc'[v] = "aborted"
      PROVE  pc[v] = "aborted" \/ CrawlCtxDone
  <2>1. CASE Start \/ StartInterrupted \/ CancelContext \/ Return \/ Over \/ UNCHANGED vars
    BY <1>2, <2>1 DEF Start, StartInterrupted, CancelContext, Return, Over, vars
  <2>2. ASSUME NEW w \in Worker, Step(w)
        PROVE  pc[v] = "aborted" \/ CrawlCtxDone
    <3>1. CASE CheckContext(w) \/ Pop(w) \/ FetchReturns(w) \/ Record(w) \/ PushLinks(w)
      BY <1>0, <1>2, <3>1 DEF CheckContext, Pop, FetchReturns, Record, PushLinks, Goto
    <3>2. CASE WaitLimiter(w) \/ FetchFails(w)
      BY <1>0, <1>2, <3>2 DEF WaitLimiter, FetchFails, Goto
    <3>3. CASE Release(w)
      BY <1>0, <1>2, <3>3 DEF Release, GiveBack, Goto
    <3> QED BY <2>2, <3>1, <3>2, <3>3 DEF Step
  <2> QED BY <2>1, <2>2 DEF Next
<1> QED BY <1>1, <1>2, CtxIsMonotone DEF CutInv

LEMMA LeaveStep ==
  ASSUME LoopInv, LeaveInv, [Next]_vars
  PROVE  LeaveInv'
<1>0. pc \in [Worker -> Label]
  BY DEF LoopInv, TypeOK
<1>1. CASE Start \/ StartInterrupted
  <2>1. /\ main = "start" /\ main' \in {"running", "rejected", "refused"}
        /\ UNCHANGED <<pc, closed, ctxDone, canceled>>
    BY <1>1 DEF Start, StartInterrupted, Push, crawlVars, frontierVars
  <2>2. ~closed /\ \A w \in Worker : pc'[w] = "top"
    BY <2>1 DEF LeaveInv
  <2> QED BY <2>1, <2>2 DEF LeaveInv
<1>2. CASE CancelContext
  BY <1>2 DEF CancelContext, LeaveInv, CrawlCtxDone, frontierVars
<1>3. CASE Return
  BY <1>3 DEF Return, Close, LeaveInv, CrawlCtxDone, crawlVars
<1>4. CASE Over \/ UNCHANGED vars
  BY <1>4 DEF Over, vars, crawlVars, frontierVars, LeaveInv, CrawlCtxDone
<1>5. ASSUME NEW w \in Worker, Step(w)
      PROVE  LeaveInv'
  <2>1. main = "running" /\ main' = main /\ ctxDone' = ctxDone /\ closed' = closed
    BY <1>5 DEF Step, CheckContext, Pop, PopEntry, PopExhausted, PopWait, WaitLimiter,
         FetchFails, FetchReturns, Record, PushLinks, Push, Release, GiveBack, MarkIdle,
         Goto, crawlVars, frontierVars
  <2>2. ~closed
    BY <2>1 DEF LeaveInv
  <2> SUFFICES ASSUME ~CrawlCtxDone', NEW v \in Worker, pc'[v] = "gone"
               PROVE  queue' = <<>> /\ active' = 0
    BY <2>1, <2>2 DEF LeaveInv
  <2>3. ~CrawlCtxDone
    BY CtxIsMonotone
  <2>4. CASE pc[v] = "gone"
    <3>1. queue = <<>> /\ active = 0
      BY <2>3, <2>4 DEF LeaveInv
    <3>2. Holders = {}
      BY <3>1, HoldersFinite, FS_EmptySet
         DEF LoopInv, FrontierInv, Wakeup, ActiveCountsHolders
    <3>3. pc[w] \notin Holding
      BY <3>2 DEF LoopInv, HoldsByLabel, Holders
    <3>4. CheckContext(w) \/ Pop(w)
      BY <1>5, <3>3 DEF Step, WaitLimiter, FetchFails, FetchReturns, Record, PushLinks,
           Release, GiveBack, Goto, Holding, Label
    <3> QED BY <3>1, <3>4 DEF CheckContext, Pop, PopEntry, PopExhausted, PopWait, frontierVars
  <2>5. CASE pc[v] # "gone"
    <3>1. Goto(w, "pop", "gone") /\ PopExhausted(w)
      <4>1. CASE CheckContext(w)
        BY <1>0, <2>3, <2>5, <4>1 DEF CheckContext, Goto
      <4>2. CASE Pop(w)
        BY <1>0, <2>5, <4>2 DEF Pop, Goto
      <4>3. CASE WaitLimiter(w) \/ FetchFails(w) \/ FetchReturns(w) \/ Record(w)
        BY <1>0, <2>5, <4>3 DEF WaitLimiter, FetchFails, FetchReturns, Record, Goto
      <4>4. CASE PushLinks(w) \/ Release(w)
        BY <1>0, <2>5, <4>4 DEF PushLinks, Release, GiveBack, Goto
      <4> QED BY <1>5, <4>1, <4>2, <4>3, <4>4 DEF Step
    <3> QED BY <2>2, <3>1 DEF PopExhausted, frontierVars
  <2> QED BY <2>4, <2>5
<1>6. CASE \E w \in Worker : Step(w)
  BY <1>5, <1>6
<1> QED BY <1>1, <1>2, <1>3, <1>4, <1>6 DEF Next

-----------------------------------------------------------------------------
(* Completeness: what the links of a page lead to.                         *)

(* A page once seen stays seen. *)
LEMMA SeenGrows ==
  ASSUME [Next]_vars
  PROVE  seen \subseteq seen' /\ \A e : LinksFound(e) => LinksFound(e)'
<1>1. seen \subseteq seen'
  BY DEF Next, Start, StartInterrupted, CancelContext, Return, Over, vars, Step, CheckContext,
         Pop, PopEntry, PopExhausted, PopWait, WaitLimiter, FetchFails, FetchReturns, Record,
         PushLinks, Push, Release, GiveBack, MarkIdle, Close, frontierVars
<1>2. ASSUME NEW e, LinksFound(e)
      PROVE  LinksFound(e)'
  BY <1>1, <1>2 DEF LinksFound, Admissible, PageOf, LinkEntries
<1> QED BY <1>1, <1>2

LEMMA LinksStep ==
  ASSUME LoopInv, LeaveInv, LinksInv, [Next]_vars
  PROVE  LinksInv'
<1>0. /\ pc \in [Worker -> Label] /\ fate \in [Fate -> SUBSET Entry]
      /\ held \in [Worker -> Entry \cup {NoEntry}]
  BY DEF LoopInv, TypeOK, FrontierTypeOK
<1>1. CASE ~\E w \in Worker : Release(w)
  <2>1. fate' = fate /\ finished' = finished /\ Fetched' = Fetched
    <3>1. CASE \E w \in Worker : Record(w)
      BY <3>1 DEF Record, Fetched, frontierVars
    <3>2. CASE ~\E w \in Worker : Record(w)
      BY <1>1, <3>2, ListUntouched DEF Fetched
    <3> QED BY <3>1, <3>2
  <2>2. ASSUME NEW v \in Worker, pc'[v] = "idle", v \in linked'
        PROVE  LinksFound(held[v])'
    <3>1. CASE Start \/ StartInterrupted \/ CancelContext \/ Return \/ Over \/ UNCHANGED vars
      <4>1. UNCHANGED <<pc, linked, held>>
        BY <3>1 DEF Start, StartInterrupted, CancelContext, Return, Over, vars, crawlVars,
             frontierVars, Push, Close
      <4> QED BY <2>2, <4>1, SeenGrows DEF LinksInv
    <3>2. ASSUME NEW w \in Worker, Step(w)
          PROVE  LinksFound(held[v])'
      <4>1. CASE PushLinks(w)
        <5>1. Push(LinkEntries(held[w])) /\ held' = held /\ linked' = linked
              /\ pc[w] = "push" /\ main = "running" /\ pc' = [pc EXCEPT ![w] = "idle"]
          BY <4>1 DEF PushLinks, Push, Goto, crawlVars
        <5>2. CASE v = w
          <6>1. pc[w] \in Holding
            BY <5>1 DEF Holding, Label
          <6>2. LinkEntries(held[w]) \in Seq(Entry)
            BY <6>1, HeldPageIsOwn, LinkEntriesType
          <6>3. ~closed /\ FrontierTypeOK
            BY <5>1 DEF LeaveInv, LoopInv, TypeOK
          <6>4. \A i \in DOMAIN LinkEntries(held[w]) :
                  Admissible(LinkEntries(held[w])[i]) => PageOf(LinkEntries(held[w])[i]) \in seen'
            BY <5>1, <6>2, <6>3, PushFinds
          <6> QED BY <5>1, <5>2, <6>4 DEF LinksFound, Admissible, PageOf, LinkEntries
        <5>3. CASE v # w
          BY <1>0, <2>2, <5>1, <5>3, SeenGrows DEF LinksInv
        <5> QED BY <5>2, <5>3
      <4>2. CASE CheckContext(w) \/ Pop(w) \/ WaitLimiter(w) \/ FetchFails(w)
                   \/ FetchReturns(w) \/ Record(w)
        <5>1. pc[v] = "idle" /\ v \in linked /\ held'[v] = held[v]
          <6>1. CASE CheckContext(w) \/ WaitLimiter(w) \/ FetchFails(w)
            BY <1>0, <2>2, <6>1 DEF CheckContext, WaitLimiter, FetchFails, Goto, crawlVars,
                 frontierVars
          <6>2. CASE Pop(w)
            <7>1. linked' = linked /\ v # w /\ pc[v] = "idle"
              BY <1>0, <2>2, <6>2 DEF Pop, Goto, crawlVars
            <7>2. held'[v] = held[v]
              BY <1>0, <6>2, <7>1 DEF Pop, PopEntry, PopExhausted, PopWait, frontierVars
            <7> QED BY <2>2, <7>1, <7>2
          <6>3. CASE FetchReturns(w)
            BY <1>0, <2>2, <6>3 DEF FetchReturns, Goto, frontierVars
          <6>4. CASE Record(w)
            BY <1>0, <2>2, <6>4 DEF Record, Goto, frontierVars
          <6> QED BY <4>2, <6>1, <6>2, <6>3, <6>4
        <5> QED BY <5>1, SeenGrows DEF LinksInv
      <4> QED BY <1>1, <3>2, <4>1, <4>2 DEF Step
    <3> QED BY <3>1, <3>2 DEF Next
  <2>3. \A e \in fate'["done"] : LinksFound(e)'
    BY <2>1, SeenGrows DEF LinksInv
  <2>4. \A v \in Worker : pc'[v] = "idle" /\ v \in linked' => LinksFound(held[v])'
    BY <2>2
  <2> QED BY <2>1, <2>3, <2>4 DEF LinksInv
<1>2. ASSUME NEW w \in Worker, Release(w)
      PROVE  LinksInv'
  <2>1. PICK from \in {"failed", "aborted", "idle"}, f \in Fate : GiveBack(w, from, f)
    BY <1>2, ReleaseStep
  <2>2. /\ fate' = [fate EXCEPT ![f] = @ \cup {held[w]}]
        /\ finished' = finished \cup {held[w]} /\ linked' = linked
        /\ held' = [held EXCEPT ![w] = NoEntry]
        /\ pc[w] = from /\ pc' = [pc EXCEPT ![w] = "top"]
    BY <2>1 DEF GiveBack, MarkIdle, Goto
  <2>3. Fetched' \cup fate'["error"] \cup fate'["cut"]
          = Fetched \cup fate["error"] \cup fate["cut"] \cup {held[w]}
    BY <1>0, <2>2 DEF Fetched, Fate
  <2>4. fate'["done"] \subseteq fate["done"] \cup {held[w]}
        /\ (fate'["done"] # fate["done"] => pc[w] = "idle" /\ w \in linked)
    <3>1. CASE pc[w] = "idle" /\ w \in linked
      BY <1>0, <2>2, <3>1 DEF Fate
    <3>2. CASE ~(pc[w] = "idle" /\ w \in linked)
      <4>1. \E g \in Fate \ {"done"} : fate' = [fate EXCEPT ![g] = @ \cup {held[w]}]
        BY <1>2, <3>2 DEF Release, GiveBack, Goto, Fate
      <4>2. fate'["done"] = fate["done"]
        BY <1>0, <4>1 DEF Fate
      <4> QED BY <4>2
    <3> QED BY <3>1, <3>2
  <2>5. \A e \in fate'["done"] : LinksFound(e)'
    BY <2>4, SeenGrows DEF LinksInv
  <2>6. \A v \in Worker : pc'[v] = "idle" /\ v \in linked' => LinksFound(held[v])'
    <3> SUFFICES ASSUME NEW v \in Worker, pc'[v] = "idle", v \in linked'
                 PROVE  LinksFound(held[v])'
      OBVIOUS
    <3>1. v # w /\ pc[v] = "idle" /\ v \in linked /\ held'[v] = held[v]
      BY <1>0, <2>2
    <3> QED BY <3>1, SeenGrows DEF LinksInv
  <2> QED BY <2>2, <2>3, <2>5, <2>6 DEF LinksInv
<1> QED BY <1>1, <1>2

-----------------------------------------------------------------------------
(* The invariant holds.                                                    *)

LEMMA InvInit == Init => IInv
<1> SUFFICES ASSUME Init PROVE IInv
  OBVIOUS
<1>1. LoopInv
  BY LoopInit
<1>2. /\ pageCount = 0 /\ results = <<>> /\ discarded = {} /\ ctxDone = FALSE
      /\ canceled = FALSE /\ main = "start" /\ closed = FALSE /\ seen = {}
      /\ \A w \in Worker : pc[w] = "top"
      /\ \A f \in Fate : fate[f] = {}
  BY DEF Init, FrontierInit
<1>3. Fetched = {} /\ fate["cut"] = {} /\ PastRecord = {} /\ DOMAIN results = {}
  <2>1. {w \in Worker : pc[w] \in {"push", "idle"}} = {}
    BY <1>2
  <2>2. PastRecord = {}
    BY <2>1 DEF PastRecord, HeldBy
  <2> QED BY <1>2, <2>2 DEF Fetched, Fate
<1>4. Recorded = {}
  BY <1>3 DEF Recorded
<1>5. FetchedWereHeld /\ RecordsFetchedPages
  BY <1>2, <1>3, <1>4, EmptySeq DEF FetchedWereHeld, RecordsFetchedPages
<1>6. CanceledWhenSpent /\ OvershootInv /\ CutInv /\ LeaveInv
  BY <1>2, <1>3, FS_EmptySet DEF CanceledWhenSpent, OvershootInv, CutInv, LeaveInv
<1>7. finished = {} /\ fate["done"] = {} /\ fate["error"] = {}
  BY <1>2 DEF Init, FrontierInit, Fate
<1>8. LinksInv
  BY <1>2, <1>3, <1>7 DEF LinksInv
<1> QED BY <1>1, <1>5, <1>6, <1>8 DEF IInv

LEMMA InvStep == IInv /\ [Next]_vars => IInv'
BY LoopStep, RecordsStep, OvershootStep, CutStep, LeaveStep, LinksStep DEF IInv

-----------------------------------------------------------------------------
(* The backend follows the protocol of FrontierClient.                     *)

View(l) ==
  CASE l = "top"            -> "out"
    [] l \in {"pop", "gone"} -> l
    [] OTHER                 -> "busy"

(* A move of the loop is a move of the client, or is invisible to it.      *)
LEMMA ClientMove ==
  ASSUME LoopInv, NEW w \in Worker, NEW from, NEW to, Goto(w, from, to)
  PROVE  /\ clientPc[w] = View(from) /\ main = "running" /\ main' = main
         /\ clientPc' = [clientPc EXCEPT ![w] = View(to)]
         /\ View(from) = View(to) => clientPc' = clientPc
<1>1. clientPc = [v \in Worker |-> View(pc[v])] /\ clientPc' = [v \in Worker |-> View(pc'[v])]
  BY DEF clientPc, View
<1>2. pc \in [Worker -> Label] /\ pc[w] = from /\ pc' = [pc EXCEPT ![w] = to]
      /\ main = "running" /\ main' = main
  BY DEF LoopInv, TypeOK, Goto
<1>3. clientPc' = [clientPc EXCEPT ![w] = View(to)]
  <2>1. \A v \in Worker : View(pc'[v]) = IF v = w THEN View(to) ELSE View(pc[v])
    BY <1>2
  <2> HIDE DEF View
  <2> QED BY <1>1, <2>1
<1>4. clientPc[w] = View(from)
  <2> HIDE DEF View
  <2> QED BY <1>1, <1>2
<1>5. View(from) = View(to) => clientPc' = clientPc
  <2> HIDE DEF View
  <2> QED BY <1>1, <1>3, <1>4
<1> QED BY <1>2, <1>3, <1>4, <1>5

(* The instance's copies of the frontier's operations are the frontier's.  *)
LEMMA ClientPush ==
  ASSUME NEW es, Push(es)
  PROVE  Client!Push(es) /\ Client!NewEntries(es) = NewEntries(es)
<1>1. Client!NewEntries(es) = NewEntries(es)
  BY DEF Client!NewEntries, NewEntries, Client!AcceptedAt, AcceptedAt, Client!RankIn, RankIn,
         Client!Admissible, Admissible, Client!PageOf, PageOf, Client!Cardinality, Cardinality
<1>2. PagesIn(NewEntries(es)) = Client!PagesIn(NewEntries(es))
      /\ PagesIn(<<>>) = Client!PagesIn(<<>>)
  BY DEF PagesIn, Client!PagesIn, PageOf, Client!PageOf
<1> QED BY <1>1, <1>2 DEF Push, Client!Push

LEMMA ClientStep == IInv /\ [Next]_vars => [Client!Next]_(Client!vars)
<1> SUFFICES ASSUME LoopInv, [Next]_vars PROVE [Client!Next]_(Client!vars)
  BY DEF IInv
<1> USE DEF Client!frontierVars, frontierVars
<1>1. CASE Start
  <2>1. Client!Push(Client!SeedEntries) /\ Client!NewEntries(Client!SeedEntries) = NewEntries(SeedEntries)
    BY <1>1, ClientPush DEF Start, SeedEntries, Client!SeedEntries
  <2>2. clientPc' = clientPc
    BY <1>1 DEF Start, clientPc
  <2> QED BY <1>1, <2>1, <2>2 DEF Start, Client!Start, Client!Next
<1>2. CASE StartInterrupted \/ CancelContext \/ UNCHANGED vars \/ Over
  <2>1. /\ UNCHANGED <<frontierVars, pc>>
        /\ main' = main \/ (main = "start" /\ main' = "refused")
    BY <1>2 DEF StartInterrupted, CancelContext, vars, Over
  <2> QED BY <2>1 DEF Client!vars, clientPc
<1>3. CASE Return
  <2>1. \A w \in Worker : clientPc[w] = "gone"
    BY <1>3 DEF Return, clientPc
  <2>2. clientPc' = clientPc /\ main = "running" /\ main' \in {"interrupted", "returned"}
    BY <1>3 DEF Return, clientPc
  <2>3. Client!Close
    BY <1>3 DEF Return, Close, Client!Close
  <2> QED BY <2>1, <2>2, <2>3 DEF Client!Return, Client!Next
<1>4. ASSUME NEW w \in Worker, Step(w)
      PROVE  Client!Step(w) \/ UNCHANGED Client!vars
  <2>1. CASE WaitLimiter(w) \/ FetchFails(w) \/ FetchReturns(w) \/ Record(w)
    <3>1. UNCHANGED frontierVars /\ \E from, to \in Holding : Goto(w, from, to)
      BY <2>1 DEF WaitLimiter, FetchFails, FetchReturns, Record, Holding, Label
    <3>2. \A l \in Holding : View(l) = "busy"
      BY DEF Holding, Label, View
    <3>3. main' = main /\ clientPc' = clientPc
      BY <3>1, <3>2, ClientMove
    <3> QED BY <3>1, <3>3 DEF Client!vars
  <2>2. CASE CheckContext(w)
    <3>1. UNCHANGED frontierVars /\ \E to \in {"pop", "gone"} : Goto(w, "top", to)
      BY <2>2 DEF CheckContext
    <3>2. View("top") = "out" /\ View("pop") = "pop" /\ View("gone") = "gone"
      BY DEF View
    <3> QED BY <3>1, <3>2, ClientMove
            DEF Client!Step, Client!Leave, Client!EnterPop, Client!Move
  <2>3. CASE Pop(w)
    <3>1. View("pop") = "pop" /\ View("limit") = "busy" /\ View("gone") = "gone"
      BY DEF View
    <3>2. CASE Goto(w, "pop", "limit") /\ PopEntry(w)
      BY <3>1, <3>2, ClientMove
         DEF PopEntry, Client!PopEntry, Client!Step, Client!Take, Client!Move
    <3>3. CASE Goto(w, "pop", "gone") /\ PopExhausted(w)
      BY <3>1, <3>3, ClientMove
         DEF PopExhausted, Client!PopExhausted, Client!Step, Client!Exhausted, Client!Move
    <3>4. CASE Goto(w, "pop", "pop") /\ PopWait(w)
      BY <3>1, <3>4, ClientMove
         DEF PopWait, Client!PopWait, Client!Step, Client!Park, Client!Move
    <3> QED BY <2>3, <3>2, <3>3, <3>4 DEF Pop
  <2>4. CASE PushLinks(w)
    <3>1. Client!Push(Client!LinkEntries(held[w]))
      BY <2>4, ClientPush DEF PushLinks, LinkEntries, Client!LinkEntries
    <3>2. View("push") = "busy" /\ View("idle") = "busy"
      BY DEF View
    <3> QED BY <2>4, <3>1, <3>2, ClientMove
            DEF PushLinks, Client!Step, Client!PushLinks, Client!Move
  <2>5. CASE Release(w)
    <3>1. PICK from \in {"failed", "aborted", "idle"}, f \in Fate : GiveBack(w, from, f)
      BY <2>5, ReleaseStep
    <3>2. View(from) = "busy" /\ View("top") = "out"
      BY DEF View
    <3>3. Client!MarkIdle(w)
      BY <3>1 DEF GiveBack, MarkIdle, Client!MarkIdle
    <3> QED BY <3>1, <3>2, <3>3, ClientMove
            DEF GiveBack, Client!Step, Client!Release, Client!Move
  <2> QED BY <1>4, <2>1, <2>2, <2>3, <2>4, <2>5 DEF Step
<1>5. CASE \E w \in Worker : Step(w)
  BY <1>4, <1>5 DEF Client!Next
<1> QED BY <1>1, <1>2, <1>3, <1>5 DEF Next

-----------------------------------------------------------------------------
(* The backend is a crawl: what its steps do to the pages found, taken and *)
(* in hand.                                                                *)

(* A step that leaves the frontier and Crawl alone is invisible, unless it *)
(* is the one that cancels crawlCtx.                                       *)
LEMMA QuietStep ==
  ASSUME UNCHANGED <<frontierVars, main>>, CrawlCtxDone => CrawlCtxDone'
  PROVE  Abstract!Cut \/ UNCHANGED Abstract!vars
<1>1. Phase' = Phase
  BY DEF Phase
<1>2. seen' = seen /\ TakenPages' = TakenPages /\ HeldPages' = HeldPages
  BY DEF frontierVars, TakenPages, QueuedPages, PagesIn, HeldPages, Holders
<1>3. CASE CrawlCtxDone' = CrawlCtxDone
  BY <1>1, <1>2, <1>3 DEF Abstract!vars
<1>4. CASE CrawlCtxDone' # CrawlCtxDone
  <2>1. CrawlCtxDone' = TRUE
    BY <1>4 DEF CrawlCtxDone
  <2> QED BY <1>1, <1>2, <2>1 DEF Abstract!Cut
<1> QED BY <1>3, <1>4

LEMMA CrawlStep == IInv /\ [Next]_vars => [Abstract!Next]_(Abstract!vars)
<1> SUFFICES ASSUME IInv, [Next]_vars PROVE [Abstract!Next]_(Abstract!vars)
  OBVIOUS
<1>0. LoopInv /\ FrontierInv /\ LeaveInv
  BY DEF IInv, LoopInv
<1>1. CASE Start
  <2>1. main = "start" /\ seen = {} /\ ~closed /\ Push(SeedEntries)
    BY <1>0, <1>1 DEF Start, LeaveInv
  <2>2. HeldPages' = HeldPages /\ TakenPages' = TakenPages
    BY <1>0, <2>1, SeedEntriesType, PushTakesNothing
  <2>3. CrawlCtxDone' = CrawlCtxDone
    BY <1>1 DEF Start, crawlVars, CrawlCtxDone
  <2>4. CASE NewEntries(SeedEntries) = <<>>
    <3>1. seen' = {}
      BY <1>0, <2>1, <2>4, SeedPush
    <3>2. Phase = "idle" /\ Phase' = "rejected"
      BY <1>1, <2>4 DEF Start, Phase
    <3> QED BY <2>1, <2>2, <2>3, <3>1, <3>2
            DEF Abstract!Reject, Abstract!Progress, Abstract!Next
  <2>5. CASE NewEntries(SeedEntries) # <<>>
    <3>1. PICK p \in Page : seen' = {p}
      BY <1>0, <2>1, <2>5, SeedPush
    <3>2. Phase = "idle" /\ Phase' = "crawling"
      BY <1>1, <2>5 DEF Start, Phase
    <3> QED BY <2>2, <2>3, <3>1, <3>2
            DEF Abstract!Begin, Abstract!Progress, Abstract!Next
  <2> QED BY <2>4, <2>5
<1>2. CASE CancelContext \/ Over \/ UNCHANGED vars
  <2>1. UNCHANGED <<frontierVars, main>> /\ (CrawlCtxDone => CrawlCtxDone')
    BY <1>2 DEF CancelContext, Over, vars, crawlVars, CrawlCtxDone
  <2> QED BY <2>1, QuietStep DEF Abstract!Next
<1>3. CASE StartInterrupted
  <2>1. Phase = "idle" /\ Phase' = "rejected" /\ UNCHANGED frontierVars
    BY <1>3 DEF StartInterrupted, Phase
  <2>2. /\ seen' = seen /\ TakenPages' = TakenPages /\ HeldPages' = HeldPages
        /\ CrawlCtxDone' = CrawlCtxDone
    BY <1>3, <2>1 DEF StartInterrupted, crawlVars, CrawlCtxDone, frontierVars, TakenPages,
       QueuedPages, PagesIn, HeldPages, Holders
  <2> QED BY <2>1, <2>2 DEF Abstract!Reject, Abstract!Progress, Abstract!Next
<1>4. CASE Return
  <2>1. /\ Phase = "crawling" /\ Phase' = "over" /\ CrawlCtxDone' = CrawlCtxDone
        /\ UNCHANGED <<queue, seen, held>>
    BY <1>4 DEF Return, Close, Phase, CrawlCtxDone, crawlVars
  <2>2. Holders = {}
    BY <1>0, <1>4 DEF Return, LoopInv, HoldsByLabel, Holders, Holding, Label
  <2>3. HeldPages = {} /\ HeldPages' = HeldPages
    BY <2>1, <2>2 DEF HeldPages, Holders
  <2>4. TakenPages' = TakenPages
    BY <2>1 DEF TakenPages, QueuedPages, PagesIn
  <2>5. CrawlCtxDone \/ seen = TakenPages
    <3>1. CrawlCtxDone \/ queue = <<>>
      BY <1>0, <1>4, HttpAssumption DEF Return, LeaveInv
    <3>2. queue = <<>> => QueuedPages = {}
      BY DEF QueuedPages, PagesIn
    <3> QED BY <3>1, <3>2 DEF TakenPages
  <2> QED BY <2>1, <2>3, <2>4, <2>5 DEF Abstract!End, Abstract!Progress, Abstract!Next
<1>5. ASSUME NEW w \in Worker, Step(w)
      PROVE  [Abstract!Next]_(Abstract!vars)
  <2>1. Phase = "crawling" /\ Phase' = "crawling"
    <3>1. main = "running" /\ main' = main
      BY <1>5 DEF Step, CheckContext, Pop, WaitLimiter, FetchFails, FetchReturns, Record,
           PushLinks, Release, GiveBack, Goto
    <3> QED BY <3>1 DEF Phase
  <2>2. ASSUME UNCHANGED crawlVars \/ UNCHANGED <<ctxDone, canceled>>
        PROVE  CrawlCtxDone' = CrawlCtxDone
    BY <2>2 DEF crawlVars, CrawlCtxDone
  <2>3. CASE CheckContext(w) \/ WaitLimiter(w) \/ FetchFails(w) \/ FetchReturns(w) \/ Record(w)
    <3>1. UNCHANGED <<frontierVars, main>>
      BY <1>0, <2>3, LocalStep
    <3>2. CrawlCtxDone => CrawlCtxDone'
      BY <1>0, CtxIsMonotone
    <3> QED BY <3>1, <3>2, QuietStep DEF Abstract!Next
  <2>4. CASE Pop(w)
    <3>1. held[w] = NoEntry /\ UNCHANGED crawlVars
      BY <1>0, <2>4 DEF Pop, Goto, LoopInv, HoldsByLabel, Holding, Label
    <3>2. CASE PopEntry(w)
      <4>1. PICK p \in seen \ TakenPages :
              seen' = seen /\ HeldPages' = HeldPages \cup {p} /\ TakenPages' = TakenPages \cup {p}
        BY <1>0, <3>1, <3>2, PopTakesOne
      <4>2. p \in Page
        BY <1>0, <4>1 DEF FrontierInv, FrontierTypeOK
      <4>3. Abstract!Take(p)
        BY <2>1, <2>2, <3>1, <4>1 DEF Abstract!Take
      <4> QED BY <4>2, <4>3 DEF Abstract!Progress, Abstract!Next
    <3>3. CASE PopExhausted(w) \/ PopWait(w)
      <4>1. UNCHANGED <<queue, seen, held>> /\ CrawlCtxDone' = CrawlCtxDone
        BY <2>2, <3>1, <3>3 DEF PopExhausted, PopWait, frontierVars
      <4>2. TakenPages' = TakenPages /\ HeldPages' = HeldPages
        BY <4>1 DEF TakenPages, QueuedPages, PagesIn, HeldPages, Holders
      <4> QED BY <2>1, <4>1, <4>2 DEF Abstract!vars
    <3> QED BY <2>4, <3>2, <3>3 DEF Pop
  <2>5. CASE PushLinks(w)
    <3>1. held[w] \in Entry /\ w \in Holders
      BY <1>0, <2>5, HeldPageIsOwn
         DEF PushLinks, Goto, Holding, Label, LoopInv, HoldsByLabel, Holders
    <3>2. /\ Push(LinkEntries(held[w])) /\ LinkEntries(held[w]) \in Seq(Entry)
          /\ CrawlCtxDone' = CrawlCtxDone
      BY <2>2, <2>5, <3>1, LinkEntriesType DEF PushLinks
    <3>3. /\ seen \subseteq seen' /\ seen' \in SUBSET Page
          /\ HeldPages' = HeldPages /\ TakenPages' = TakenPages
      BY <1>0, <3>2, PushTakesNothing
    <3>4. HeldPages # {}
      BY <3>1 DEF HeldPages
    <3>5. Abstract!Discover(seen')
      BY <2>1, <3>2, <3>3, <3>4 DEF Abstract!Discover
    <3> QED BY <3>3, <3>5 DEF Abstract!Next
  <2>6. CASE Release(w)
    <3>1. PICK from \in {"failed", "aborted", "idle"}, f \in Fate : GiveBack(w, from, f)
      BY <1>0, <2>6, ReleaseStep
    <3>2. held[w] \in Entry
      BY <1>0, <3>1, HeldPageIsOwn DEF GiveBack, Goto, Holding, Label
    <3>3. MarkIdle(w) /\ CrawlCtxDone' = CrawlCtxDone
      BY <2>2, <3>1 DEF GiveBack
    <3>4. PICK p \in HeldPages :
            seen' = seen /\ HeldPages' = HeldPages \ {p} /\ TakenPages' = TakenPages
      BY <1>0, <3>2, <3>3, MarkIdleSettlesOne
    <3>5. p \in Page
      BY <1>0, <3>4 DEF FrontierInv, FrontierTypeOK, EachPageOnce
    <3>6. Abstract!Settle(p)
      BY <2>1, <3>3, <3>4 DEF Abstract!Settle
    <3> QED BY <3>5, <3>6 DEF Abstract!Progress, Abstract!Next
  <2> QED BY <1>5, <2>3, <2>4, <2>5, <2>6 DEF Step
<1>6. CASE \E w \in Worker : Step(w)
  BY <1>5, <1>6
<1> QED BY <1>1, <1>2, <1>3, <1>4, <1>6 DEF Next

(* Each step of the net/http backend is a step of the protocol frontier.go *)
(* documents, or changes nothing the protocol talks about.                 *)
THEOREM KeepsProtocol == Spec => KeepsFrontierProtocol
<1>1. Init => Client!Init
  BY DEF Init, Client!Init, FrontierInit, Client!FrontierInit, clientPc
<1> QED BY InvInit, InvStep, ClientStep, <1>1, PTL
        DEF Spec, KeepsFrontierProtocol, Client!Spec

(* The net/http backend is a crawl: it takes only pages it found, each of  *)
(* them once, finds pages only while it has one in hand, and ends with     *)
(* nothing in hand and, unless crawlCtx was canceled, by the caller or by  *)
(* the last page of the budget, with nothing left to take.                 *)
THEOREM ImplementsCrawlSafely == Spec => Abstract!Spec
<1>1. Init => Abstract!Init
  <2> SUFFICES ASSUME Init PROVE Abstract!Init
    OBVIOUS
  <2>1. main = "start" /\ seen = {} /\ Holders = {} /\ ctxDone = FALSE /\ canceled = FALSE
    BY DEF Init, FrontierInit, Holders
  <2>2. CrawlCtxDone = FALSE
    BY <2>1 DEF CrawlCtxDone
  <2> QED BY <2>1, <2>2 DEF Abstract!Init, Phase, TakenPages, HeldPages
<1> QED BY InvInit, InvStep, CrawlStep, <1>1, PTL DEF Spec, Abstract!Spec

(* The list of observations and its count stay together: no page twice, at *)
(* most MaxPages of them, and a fetched page that is missing was dropped   *)
(* for the budget.                                                         *)
THEOREM ListIsExact == Spec => []RecordsFetchedPages
<1>1. IInv => RecordsFetchedPages
  BY DEF IInv
<1> QED BY InvInit, InvStep, <1>1, PTL DEF Spec

(* Fewer pages than there are workers are fetched and dropped, whatever    *)
(* the budget: reaching it cancels what was not yet requested.             *)
THEOREM OvershootIsBounded == Spec => []OvershootBounded
<1>1. IInv => OvershootBounded
  <2> SUFFICES ASSUME IInv PROVE Cardinality(discarded) < Cardinality(Worker)
    BY DEF OvershootBounded
  <2>1. OvershootInv /\ Cardinality(discarded) \in Nat
    BY FS_CardinalityType DEF IInv, OvershootInv
  <2>2. CASE canceled
    BY <2>1, <2>2, WorkersFinite DEF OvershootInv
  <2>3. CASE ~canceled
    BY <2>1, <2>3, WorkersFinite, FS_EmptySet DEF OvershootInv
  <2> QED BY <2>2, <2>3
<1> QED BY InvInit, InvStep, <1>1, PTL DEF Spec

(* A fetch is cut only by the caller or by a spent budget, and a crawl     *)
(* that returns normally with budget to spare has emptied its frontier.    *)
THEOREM CutsHaveCauses == Spec => []CutsAreExplained
<1>1. IInv => CutsAreExplained
  <2> SUFFICES ASSUME IInv PROVE CutsAreExplained
    OBVIOUS
  <2>1. CanceledWhenSpent /\ CutInv /\ LeaveInv
    BY DEF IInv
  <2>2. fate["cut"] # {} => ctxDone \/ pageCount = MaxPages
    BY <2>1 DEF CanceledWhenSpent, CutInv, CrawlCtxDone
  <2>3. ASSUME main = "returned", pageCount < MaxPages
        PROVE  fate["cut"] = {} /\ queue = <<>>
    <3>1. ~CrawlCtxDone /\ pageCount # MaxPages
      <4>1. pageCount # MaxPages
        BY <2>3 DEF IInv, LoopInv, TypeOK
      <4> QED BY <2>1, <2>3, <4>1 DEF CanceledWhenSpent, LeaveInv, CrawlCtxDone
    <3>2. \E w \in Worker : pc[w] = "gone"
      BY <2>1, <2>3 DEF LeaveInv
    <3> QED BY <2>1, <3>1, <3>2 DEF CutInv, LeaveInv
  <2> QED BY <2>1, <2>2, <2>3 DEF CanceledWhenSpent, CutsAreExplained
<1> QED BY InvInit, InvStep, <1>1, PTL DEF Spec

(* A crawl that returns with budget to spare is complete, on every site:   *)
(* each page it found was fetched and recorded or failed, and it found     *)
(* every admissible link of each page it fetched.                          *)
THEOREM UncutCrawlIsComplete == Spec => []CompleteUnlessCut
<1>1. IInv => CompleteUnlessCut
  <2> SUFFICES ASSUME IInv, main = "returned", pageCount < MaxPages
               PROVE  /\ seen = PagesIn(results) \cup {PageOf(e) : e \in fate["error"]}
                      /\ \A e \in fate["done"] : LinksFound(e)
    BY DEF CompleteUnlessCut, LinksFound
  <2>1. pageCount # MaxPages
    BY DEF IInv, LoopInv, TypeOK
  <2>2. ~CrawlCtxDone /\ \A w \in Worker : pc[w] = "gone"
    BY <2>1 DEF IInv, CanceledWhenSpent, LeaveInv, CrawlCtxDone
  <2>3. queue = <<>> /\ active = 0 /\ fate["cut"] = {}
    BY <2>2 DEF IInv, LeaveInv, CutInv
  <2>4. Holders = {}
    BY <2>3, HoldersFinite, FS_EmptySet
       DEF IInv, LoopInv, FrontierInv, Wakeup, ActiveCountsHolders
  <2>5. QueuedPages = {} /\ HeldPages = {}
    BY <2>3, <2>4 DEF QueuedPages, PagesIn, HeldPages
  <2>6. seen = FinishedPages
    BY <2>5 DEF IInv, LoopInv, FrontierInv, EachPageOnce
  <2>7. Fetched = Recorded
    <3>1. PastRecord = {}
      BY <2>2 DEF PastRecord, HeldBy
    <3>2. discarded = {}
      BY <2>1 DEF IInv, RecordsFetchedPages
    <3> QED BY <3>1, <3>2 DEF IInv, RecordsFetchedPages
  <2>8. finished = Recorded \cup fate["error"]
    BY <2>3, <2>7 DEF IInv, LinksInv
  <2>9. FinishedPages = PagesIn(results) \cup {PageOf(e) : e \in fate["error"]}
    BY <2>8 DEF FinishedPages, Recorded, PagesIn
  <2> QED BY <2>6, <2>9 DEF IInv, LinksInv
<1> QED BY InvInit, InvStep, <1>1, PTL DEF Spec

-----------------------------------------------------------------------------
(* One CONNECT through a proxy (ProxyConnect).                             *)

(* Why the race is harmless: before the result is decided the connection is*)
(* closed only by the watcher, hence only after the context ended, which   *)
(* Resolve sees; from then on handshakeDone keeps the watcher off it.      *)
DialUndecided == {"arm", "write", "read", "clear", "mark", "stop", "resolve"}

DialInv ==
  /\ dialer \in Stage
  /\ conn \in {"none", "open", "closed"}
  /\ dialer = "returned" <=> outcome # "none"
  /\ dialer \in {"check", "dial"} => conn = "none" /\ watcher = "none"
  /\ dialer \in DialUndecided => conn # "none" /\ (conn = "closed" => dialDone)
  /\ dialer = "report" => conn = "closed"
  /\ watcher = "woken" => dialDone
  /\ watcher \in {"waiting", "woken"}
     /\ dialer \in {"stop", "resolve", "report", "returned"} => handshakeDone
  /\ handshakeOk => ~deadline /\ dialer \in {"mark", "stop", "resolve", "report", "returned"}
  /\ TunnelOrNothing

LEMMA DialInitInv == DialInit => DialInv
  BY DEF DialInit, DialInv, Stage, Failure, DialUndecided, TunnelOrNothing

(* The environment touches neither the connection nor the flags. *)
LEMMA DialEnvironmentKeepsInv ==
  ASSUME DialInv, Cancel \/ DeadlinePasses \/ ContextExpires \/ ProxyAnswers
  PROVE  DialInv'
  <1>1. UNCHANGED <<dialer, watcher, conn, deadline, handshakeOk, handshakeDone, outcome>>
        /\ (dialDone => dialDone')
    BY DEF Cancel, DeadlinePasses, ContextExpires, ProxyAnswers, syncVars
  <1> QED
    BY <1>1 DEF DialInv, TunnelOrNothing

(* The dialer up to the moment it marks the handshake done. *)
LEMMA DialHandshakeKeepsInv ==
  ASSUME DialInv,
         \/ RejectAddress \/ AcceptAddress \/ DialFails \/ DialProxy \/ ArmDeadline
         \/ WriteRequest \/ ReadReply \/ HandshakeFails \/ ClearDeadline
  PROVE  DialInv'
  <1> USE DEF DialInv, Stage, Failure, DialUndecided, TunnelOrNothing, DialGoto,
              envVars, syncVars, HandshakeStep, ReturnError
  <1>1. CASE RejectAddress  BY <1>1 DEF RejectAddress
  <1>2. CASE AcceptAddress  BY <1>2 DEF AcceptAddress
  <1>3. CASE DialFails      BY <1>3 DEF DialFails
  <1>4. CASE DialProxy      BY <1>4 DEF DialProxy
  <1>5. CASE ArmDeadline    BY <1>5 DEF ArmDeadline
  <1>6. CASE WriteRequest   BY <1>6 DEF WriteRequest
  <1>7. CASE ReadReply      BY <1>7 DEF ReadReply
  <1>8. CASE HandshakeFails
    <2>1. /\ dialer \in {"arm", "write", "read", "clear"} /\ dialer' = "mark"
          /\ UNCHANGED <<watcher, conn, dialDone, handshakeOk, handshakeDone, outcome>>
      BY <1>8 DEF HandshakeFails
    <2> QED
      BY <2>1
  <1>9. CASE ClearDeadline  BY <1>9 DEF ClearDeadline
  <1> QED
    BY <1>1, <1>2, <1>3, <1>4, <1>5, <1>6, <1>7, <1>8, <1>9

(* The dialer's decision. *)
LEMMA DialDecisionKeepsInv ==
  ASSUME DialInv, MarkDone \/ StopWatcher \/ Resolve \/ Report
  PROVE  DialInv'
  <1> USE DEF DialInv, Stage, Failure, DialUndecided, TunnelOrNothing, DialGoto,
              envVars, syncVars, ReturnError
  <1>1. CASE MarkDone    BY <1>1 DEF MarkDone
  <1>2. CASE StopWatcher BY <1>2 DEF StopWatcher
  <1>3. CASE Resolve     BY <1>3 DEF Resolve
  <1>4. CASE Report      BY <1>4 DEF Report
  <1> QED
    BY <1>1, <1>2, <1>3, <1>4

LEMMA DialWatcherKeepsInv ==
  ASSUME DialInv, Watch
  PROVE  DialInv'
  <1> USE DEF DialInv, Stage, Failure, DialUndecided, TunnelOrNothing, envVars,
              syncVars
  <1>1. CASE WatcherWakes      BY <1>1 DEF WatcherWakes
  <1>2. CASE WatcherReleased   BY <1>2 DEF WatcherReleased
  <1>3. CASE WatcherInterrupts BY <1>3 DEF WatcherInterrupts
  <1> QED
    BY <1>1, <1>2, <1>3 DEF Watch

LEMMA DialStepKeepsInv == DialInv /\ [DialNext]_dialVars => DialInv'
  <1> SUFFICES ASSUME DialInv, [DialNext]_dialVars PROVE DialInv'
    OBVIOUS
  <1>1. CASE UNCHANGED dialVars
    BY <1>1 DEF dialVars, DialInv, Stage, Failure, DialUndecided, TunnelOrNothing
  <1>2. CASE DialNext
    <2>1. CASE Dial
      BY <2>1, DialHandshakeKeepsInv, DialDecisionKeepsInv DEF Dial
    <2>2. CASE DialOver
      BY <1>1, <2>2 DEF DialOver
    <2> QED
      BY <1>2, <2>1, <2>2, DialEnvironmentKeepsInv, DialWatcherKeepsInv DEF DialNext
  <1> QED
    BY <1>1, <1>2

(* connectDialer returns an open tunnel without a leftover deadline, which *)
(* the watcher never closes, or an error and no open connection.           *)
THEOREM DialIsSound == DialSpec => []TunnelOrNothing
  <1>1. DialInv => TunnelOrNothing
    BY DEF DialInv
  <1> QED
    BY DialInitInv, DialStepKeepsInv, <1>1, PTL DEF DialSpec
=============================================================================
