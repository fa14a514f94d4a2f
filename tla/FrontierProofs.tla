--------------------------- MODULE FrontierProofs ---------------------------
(***************************************************************************)
(* Proofs about the protocol the frontier's workers follow, for every      *)
(* site, every number of workers, either traversal order and every depth   *)
(* limit.                                                                  *)
(***************************************************************************)
EXTENDS FrontierClient, FrontierLemmas

USE FrontierAssumption

(* Only a worker that holds an entry pushes links or goes idle, so the     *)
(* frontier's invariant is inductive together with BusyHolds.              *)
IInv == TypeOK /\ BusyHolds /\ FrontierInv

LEMMA InvInit == Init => IInv
<1> SUFFICES ASSUME Init PROVE IInv
  OBVIOUS
<1>1. FrontierInv
  BY FrontierInitInv DEF Init
<1>2. TypeOK
  BY <1>1 DEF Init, TypeOK, FrontierInv
<1>3. BusyHolds
  BY DEF Init, FrontierInit, BusyHolds
<1> QED BY <1>1, <1>2, <1>3 DEF IInv

LEMMA InvStep == IInv /\ [Next]_vars => IInv'
<1> SUFFICES ASSUME IInv, [Next]_vars PROVE IInv'
  OBVIOUS
<1>0. FrontierInv /\ FrontierTypeOK /\ TypeOK /\ BusyHolds
  BY DEF IInv, TypeOK
<1>1. CASE Start
  <2>1. FrontierInv'
    BY <1>0, <1>1, SeedEntriesType, PushInv DEF Start
  <2>2. waiters' \subseteq waiters /\ held' = held /\ pc' = pc
    BY <1>1 DEF Start, Push
  <2>3. main' \in {"start", "running", "rejected", "returned"}
    BY <1>1 DEF Start
  <2> QED BY <1>0, <2>1, <2>2, <2>3 DEF IInv, TypeOK, FrontierInv, BusyHolds
<1>2. ASSUME NEW w \in Worker, EnterPop(w) \/ Leave(w) \/ Exhausted(w)
      PROVE  IInv'
  <2>1. UNCHANGED frontierVars
    BY <1>2 DEF EnterPop, Leave, Exhausted, PopExhausted
  <2>2. FrontierInv'
    BY <1>0, <2>1, UnchangedInv
  <2>3. /\ main' = main /\ held' = held /\ waiters' = waiters
        /\ w \notin waiters /\ pc[w] # "busy"
        /\ \E to \in {"pop", "gone"} : pc' = [pc EXCEPT ![w] = to]
    <3>1. CASE EnterPop(w) \/ Leave(w)
      BY <1>0, <2>1, <3>1 DEF EnterPop, Leave, Move, frontierVars, BusyHolds
    <3>2. CASE Exhausted(w)
      BY <2>1, <3>2 DEF Exhausted, PopExhausted, Move, frontierVars
    <3> QED BY <1>2, <3>1, <3>2
  <2>4. BusyHolds'
    BY <1>0, <2>3 DEF BusyHolds, TypeOK
  <2> QED BY <1>0, <2>2, <2>3, <2>4 DEF IInv, TypeOK, FrontierInv
<1>3. ASSUME NEW w \in Worker, Take(w)
      PROVE  IInv'
  <2>1. held[w] = NoEntry /\ pc[w] = "pop"
    BY <1>0, <1>3 DEF Take, Move, BusyHolds
  <2>2. FrontierInv'
    BY <1>0, <1>3, <2>1, PopEntryInv DEF Take
  <2>3. PICK e \in Entry : held' = [held EXCEPT ![w] = e]
    BY <1>0, <1>3, PopEntryTakes DEF Take
  <2>4. /\ pc' = [pc EXCEPT ![w] = "busy"] /\ main' = main
        /\ w \notin waiters /\ waiters' = waiters
    BY <1>3 DEF Take, Move, PopEntry
  <2>5. BusyHolds'
    BY <1>0, <2>3, <2>4 DEF BusyHolds, TypeOK, FrontierTypeOK
  <2> QED BY <1>0, <2>2, <2>4, <2>5 DEF IInv, TypeOK, FrontierInv
<1>4. ASSUME NEW w \in Worker, Park(w)
      PROVE  IInv'
  <2>1. FrontierInv'
    BY <1>0, <1>4, PopWaitInv DEF Park
  <2>2. pc[w] = "pop" /\ pc' = pc /\ waiters' = waiters \cup {w} /\ held' = held /\ main' = main
    BY <1>0, <1>4 DEF Park, PopWait, Move, TypeOK
  <2> QED BY <1>0, <2>1, <2>2 DEF IInv, TypeOK, FrontierInv, BusyHolds
<1>5. ASSUME NEW w \in Worker, PushLinks(w)
      PROVE  IInv'
  <2>1. held[w] \in Entry
    BY <1>0, <1>5 DEF PushLinks, Move, BusyHolds, FrontierTypeOK
  <2>2. FrontierInv'
    BY <1>0, <1>5, <2>1, LinkEntriesType, PushInv DEF PushLinks
  <2>3. waiters' \subseteq waiters /\ held' = held /\ pc' = pc /\ main' = main
    BY <1>0, <1>5 DEF PushLinks, Move, Push, TypeOK
  <2> QED BY <1>0, <2>2, <2>3 DEF IInv, TypeOK, FrontierInv, BusyHolds
<1>6. ASSUME NEW w \in Worker, NEW to \in {"out", "gone"}, Release(w, to)
      PROVE  IInv'
  <2>1. held[w] \in Entry
    BY <1>0, <1>6 DEF Release, Move, BusyHolds, FrontierTypeOK
  <2>2. FrontierInv'
    BY <1>0, <1>6, <2>1, MarkIdleInv DEF Release
  <2>3. /\ pc[w] = "busy" /\ pc' = [pc EXCEPT ![w] = to] /\ main' = main
        /\ held' = [held EXCEPT ![w] = NoEntry]
        /\ waiters' \subseteq waiters
    BY <1>6 DEF Release, Move, MarkIdle
  <2>4. BusyHolds'
    BY <1>0, <2>3 DEF BusyHolds, TypeOK, FrontierTypeOK
  <2> QED BY <1>0, <2>2, <2>3, <2>4 DEF IInv, TypeOK, FrontierInv
<1>7. CASE Return
  <2>1. FrontierInv'
    BY <1>0, <1>7, CloseInv DEF Return
  <2>2. held' = held /\ waiters' = {} /\ pc' = pc /\ main' = "returned"
    BY <1>7 DEF Return, Close
  <2> QED BY <1>0, <2>1, <2>2 DEF IInv, TypeOK, FrontierInv, BusyHolds
<1>8. CASE UNCHANGED vars
  <2>1. FrontierInv' /\ UNCHANGED <<pc, main, held, waiters>>
    BY <1>0, <1>8, UnchangedInv DEF vars, frontierVars
  <2> QED BY <1>0, <2>1 DEF IInv, TypeOK, FrontierInv, BusyHolds
<1> QED BY <1>1, <1>2, <1>3, <1>4, <1>5, <1>6, <1>7, <1>8 DEF Next, Step, Over

(* The frontier's variables and the workers' program counters always have  *)
(* their types, and a worker holds an entry exactly while it is busy.      *)
THEOREM TypeCorrect == Spec => [](TypeOK /\ BusyHolds)
<1>1. IInv => TypeOK /\ BusyHolds
  BY DEF IInv
<1> QED BY InvInit, InvStep, <1>1, PTL DEF Spec

(* A worker sleeps in Pop only while the queue is empty and another worker *)
(* is busy, so a Push or a MarkIdle that wakes it is still to come.        *)
THEOREM WakeupsAreNotLost == Spec => []NoLostWakeup
<1>1. IInv => NoLostWakeup
  BY DEF IInv, FrontierInv, Wakeup
<1> QED BY InvInit, InvStep, <1>1, PTL DEF Spec

(* f.active is the number of workers between Pop and MarkIdle, in every    *)
(* state and on every exit path of the worker loops.                       *)
THEOREM ActiveIsExact == Spec => []ActiveCountsHolders
<1>1. IInv => ActiveCountsHolders
  BY DEF IInv, FrontierInv, Wakeup
<1> QED BY InvInit, InvStep, <1>1, PTL DEF Spec

(* No page is visited twice, on any site, with any number of workers: each *)
(* page seen is queued, held by one worker or finished, and only once.     *)
THEOREM EachPageIsVisitedOnce == Spec => []EachPageOnce
<1>1. IInv => EachPageOnce
  BY DEF IInv, FrontierInv
<1> QED BY InvInit, InvStep, <1>1, PTL DEF Spec

(* The exhausted verdict is final: once the queue is empty and nobody is   *)
(* busy, no step queues a page, marks one seen or makes a worker busy.     *)
THEOREM ExhaustionIsFinal == Spec => DrainedIsFinal
<1>1. IInv /\ [Next]_vars => [Drained => queue' = <<>> /\ seen' = seen /\ active' = 0]_vars
  <2> SUFFICES ASSUME IInv, Next, Drained
               PROVE  queue' = <<>> /\ seen' = seen /\ active' = 0
    BY DEF vars, frontierVars
  <2>1. queue = <<>> /\ active = 0 /\ main = "running"
    BY DEF Drained
  <2>2. Holders = {}
    BY <2>1, HoldersFinite, FS_EmptySet DEF IInv, FrontierInv, Wakeup, ActiveCountsHolders
  <2>3. \A w \in Worker : pc[w] # "busy"
    BY <2>2 DEF IInv, BusyHolds, Holders
  <2>4. ASSUME NEW w \in Worker, Step(w)
        PROVE  queue' = <<>> /\ seen' = seen /\ active' = 0
    <3>1. EnterPop(w) \/ Leave(w) \/ Exhausted(w) \/ Park(w) \/ Take(w)
      BY <2>3, <2>4 DEF Step, PushLinks, Release, Move
    <3>2. ~Take(w)
      BY <2>1 DEF Take, PopEntry
    <3>3. UNCHANGED <<queue, seen, active>>
      BY <3>1, <3>2 DEF EnterPop, Leave, Exhausted, PopExhausted, Park, PopWait, frontierVars
    <3> QED BY <2>1, <3>3
  <2>5. ~Start
    BY <2>1 DEF Start
  <2>6. CASE Return \/ Over
    BY <2>1, <2>6 DEF Return, Close, Over, vars, frontierVars
  <2> QED BY <2>4, <2>5, <2>6 DEF Next
<1> QED BY InvInit, InvStep, <1>1, PTL DEF Spec, DrainedIsFinal

(* Every entry is the seed, or was linked from an entry one level up that  *)
(* was taken for a visit before: no entry is made up, and none changes its *)
(* depth on the way through the queue.                                     *)
THEOREM DepthIsAChain == Spec => []DepthHasChain
<1> DEFINE visited == finished \cup {held[w] : w \in Holders}
           queued == {queue[i] : i \in DOMAIN queue}
           linkedIn(e, V) == \E v \in V :
                               /\ e.depth = v.depth + 1
                               /\ \E i \in DOMAIN Links[v.url] : Links[v.url][i] = e.url
           chained(e, V) == (e.depth = 0 /\ e.url = Seed) \/ linkedIn(e, V)
<1>1. DepthHasChain <=> \A e \in visited \cup queued : chained(e, visited)
  BY DEF DepthHasChain
<1>2. Init => DepthHasChain
  BY DEF Init, FrontierInit, DepthHasChain, Holders
<1>3. IInv /\ DepthHasChain /\ [Next]_vars => DepthHasChain'
  <2> SUFFICES ASSUME IInv, DepthHasChain, [Next]_vars
               PROVE  DepthHasChain'
    OBVIOUS
  <2>0. FrontierTypeOK /\ BusyHolds
    BY DEF IInv, TypeOK
  <2>1. ASSUME visited \subseteq visited',
               \A e \in visited' \cup queued' : e \in visited \cup queued \/ chained(e, visited)
        PROVE  DepthHasChain'
    <3>1. \A e \in visited' \cup queued' : chained(e, visited)
      BY <1>1, <2>1
    <3>2. \A e : chained(e, visited) => chained(e, visited')
      BY <2>1
    <3>3. \A e \in visited' \cup queued' : chained(e, visited')
      <4> HIDE DEF chained
      <4> QED BY <3>1, <3>2
    <3> QED BY <3>3 DEF DepthHasChain
  <2>2. ASSUME NEW es \in Seq(Entry), Push(es), \A k \in DOMAIN es : chained(es[k], visited)
        PROVE  DepthHasChain'
    <3>1. visited' = visited
      BY <2>2 DEF Push, Holders
    <3>2. \A i \in DOMAIN queue' : queue'[i] \in queued \/ \E k \in DOMAIN es : queue'[i] = es[k]
      BY <2>0, <2>2, PushQueues
    <3>3. \A i \in DOMAIN queue' : queue'[i] \in queued \/ chained(queue'[i], visited)
      <4> HIDE DEF chained, visited, queued
      <4> QED BY <2>2, <3>2
    <3>4. \A e \in queued' : e \in queued \/ chained(e, visited)
      <4> HIDE DEF chained, visited
      <4> QED BY <3>3
    <3>5. \A e \in visited' \cup queued' : e \in visited \cup queued \/ chained(e, visited)
      <4> HIDE DEF chained, visited, queued
      <4> QED BY <3>1, <3>4
    <3>6. visited \subseteq visited'
      BY <3>1
    <3> HIDE DEF chained, visited, queued
    <3> QED BY <2>1, <3>5, <3>6
  <2>3. ASSUME visited \subseteq visited', visited' \cup queued' \subseteq visited \cup queued
        PROVE  DepthHasChain'
    BY <2>1, <2>3
  <2>4. CASE Start
    <3>1. SeedEntries \in Seq(Entry) /\ \A k \in DOMAIN SeedEntries : chained(SeedEntries[k], visited)
      BY SeedEntriesType DEF SeedEntries
    <3> QED BY <2>2, <2>4, <3>1 DEF Start
  <2>5. CASE Return \/ Over \/ UNCHANGED vars
    <3>1. UNCHANGED <<queue, held, finished>>
      BY <2>5 DEF Return, Close, Over, vars, frontierVars
    <3> QED BY <2>3, <3>1 DEF Holders
  <2>6. ASSUME NEW w \in Worker, EnterPop(w) \/ Leave(w) \/ Exhausted(w) \/ Park(w)
        PROVE  DepthHasChain'
    <3>1. UNCHANGED <<queue, held, finished>>
      BY <2>6 DEF EnterPop, Leave, Exhausted, PopExhausted, Park, PopWait, frontierVars
    <3> QED BY <2>3, <3>1 DEF Holders
  <2>7. ASSUME NEW w \in Worker, Take(w)
        PROVE  DepthHasChain'
    <3>1. held[w] = NoEntry /\ finished' = finished
      BY <2>0, <2>7 DEF Take, Move, BusyHolds, PopEntry
    <3>2. PICK shift \in {0, 1}, i \in 1..Len(queue) :
            /\ queue[i] \in Entry
            /\ held' = [held EXCEPT ![w] = queue[i]]
            /\ \A j \in 1..(Len(queue) - 1) : queue'[j] = queue[j + shift]
      BY <2>0, <2>7, PopEntryTakes DEF Take
    <3>3. /\ Len(queue) \in Nat \ {0} /\ DOMAIN queue = 1..Len(queue)
          /\ DOMAIN queue' = 1..(Len(queue) - 1)
      BY <2>0, <2>7, PopEntryTakes DEF Take
    <3>4. Holders' = Holders \cup {w} /\ w \notin Holders
          /\ held'[w] = queue[i] /\ \A v \in Holders : held'[v] = held[v]
      BY <2>0, <3>1, <3>2 DEF Holders, FrontierTypeOK
    <3>5. visited' = visited \cup {queue[i]}
      BY <3>1, <3>4
    <3>6. queued' \subseteq queued
      <4>1. \A j \in 1..(Len(queue) - 1) : j + shift \in DOMAIN queue
        BY <3>3
      <4> QED BY <3>2, <3>3, <4>1
    <3> QED BY <2>3, <3>3, <3>5, <3>6
  <2>8. ASSUME NEW w \in Worker, PushLinks(w)
        PROVE  DepthHasChain'
    <3>1. held[w] \in Entry /\ w \in Holders
      BY <2>0, <2>8 DEF PushLinks, Move, BusyHolds, FrontierTypeOK, Holders
    <3>2. \A k \in DOMAIN LinkEntries(held[w]) : chained(LinkEntries(held[w])[k], visited)
      <4>1. held[w] \in visited
        BY <3>1
      <4> QED BY <3>1, <4>1 DEF LinkEntries
    <3>3. LinkEntries(held[w]) \in Seq(Entry)
      BY <3>1, LinkEntriesType
    <3> QED BY <2>2, <2>8, <3>2, <3>3 DEF PushLinks
  <2>9. ASSUME NEW w \in Worker, NEW to, Release(w, to)
        PROVE  DepthHasChain'
    <3>1. /\ held' = [held EXCEPT ![w] = NoEntry] /\ finished' = finished \cup {held[w]}
          /\ queue' = queue /\ w \in Holders
      BY <2>0, <2>9 DEF Release, Move, MarkIdle, BusyHolds, Holders
    <3>2. Holders' = Holders \ {w} /\ \A v \in Holders' : held'[v] = held[v]
      BY <2>0, <3>1 DEF Holders, FrontierTypeOK
    <3>3. visited' = visited
      BY <3>1, <3>2
    <3> QED BY <2>3, <3>1, <3>3
  <2>10. CASE \E w \in Worker : Step(w)
    BY <2>6, <2>7, <2>8, <2>9, <2>10 DEF Step
  <2> QED BY <2>4, <2>5, <2>10 DEF Next
<1> QED BY InvInit, InvStep, <1>2, <1>3, PTL DEF Spec
=============================================================================
