--------------------------- MODULE FrontierLemmas ---------------------------
(***************************************************************************)
(* What the operations of the URL frontier preserve, whoever calls them:   *)
(* types, the wakeups, the end-of-crawl counter and the places of pages.   *)
(* The proofs about the frontier's contract and about both crawl backends  *)
(* rest on the lemmas at the end, one per operation.                       *)
(***************************************************************************)
EXTENDS UrlFrontier, FiniteSetTheorems, SequenceTheorems, TLAPS

USE FrontierAssumption

-----------------------------------------------------------------------------
(* Numbering the members of a finite set of numbers in increasing order.   *)

(* Every k up to Cardinality(I) is the rank of exactly one member of I, so *)
(* the selection Push makes from its batch is well defined.                *)
LEMMA Ranking ==
  ASSUME NEW n \in Nat, NEW I \in SUBSET (1..n)
  PROVE  /\ Cardinality(I) \in Nat
         /\ \A k \in 1..Cardinality(I) : \E i \in I : RankIn(i, I) = k
         /\ \A i \in I : RankIn(i, I) \in 1..Cardinality(I)
         /\ \A i, j \in I : RankIn(i, I) = RankIn(j, I) => i = j
<1> DEFINE Upto(i) == {j \in I : j <= i}
           r == [i \in I |-> RankIn(i, I)]
           T == 1..Cardinality(I)
<1>1. IsFiniteSet(I) /\ Cardinality(I) \in Nat
  <2>1. IsFiniteSet(1..n)
    BY FS_Interval
  <2> QED BY <2>1, FS_Subset, FS_CardinalityType
<1>2. ASSUME NEW i \in I
      PROVE  IsFiniteSet(Upto(i)) /\ Cardinality(Upto(i)) \in T
  <2>1. Upto(i) \in SUBSET I /\ i \in Upto(i)
    OBVIOUS
  <2>2. IsFiniteSet(Upto(i)) /\ Cardinality(Upto(i)) <= Cardinality(I)
    BY <1>1, <2>1, FS_Subset
  <2>3. Cardinality(Upto(i)) \in Nat /\ Cardinality(Upto(i)) # 0
    BY <2>1, <2>2, FS_CardinalityType, FS_EmptySet
  <2> QED BY <1>1, <2>2, <2>3
<1>3. ASSUME NEW i \in I, NEW j \in I, i < j
      PROVE  Cardinality(Upto(i)) # Cardinality(Upto(j))
  <2>1. Upto(i) \in SUBSET Upto(j) /\ Upto(i) # Upto(j)
    <3>1. j \in Upto(j) /\ j \notin Upto(i)
      BY <1>3
    <3>2. Upto(i) # Upto(j)
      <4> HIDE DEF Upto
      <4> QED BY <3>1
    <3>3. \A x \in I : x <= i => x <= j
      BY <1>3
    <3> QED BY <3>2, <3>3
  <2> QED BY <1>2, <2>1, FS_Subset
<1>4. \A i, j \in I : RankIn(i, I) = RankIn(j, I) => i = j
  <2> SUFFICES ASSUME NEW i \in I, NEW j \in I, RankIn(i, I) = RankIn(j, I), i # j
               PROVE  FALSE
    OBVIOUS
  <2>1. i < j \/ j < i
    OBVIOUS
  <2> QED BY <1>3, <2>1 DEF RankIn
<1>5. r \in Injection(I, T)
  BY <1>2, <1>4 DEF RankIn, Injection, IsInjective
<1>6. IsFiniteSet(T) /\ Cardinality(T) = Cardinality(I)
  BY <1>1, FS_Interval
<1>7. r \in Surjection(I, T)
  BY <1>5, <1>6, FS_Injection
<1> QED BY <1>1, <1>2, <1>4, <1>7 DEF RankIn, Surjection

-----------------------------------------------------------------------------
(* What Push does to its batch (frontier.go's loop over entries).          *)

(* The entries Push takes from a batch are entries of the batch, each for  *)
(* a page that was not seen before, and no two of them for the same page.  *)
LEMMA NewEntriesAreNew ==
  ASSUME NEW es \in Seq(Entry)
  PROVE  /\ NewEntries(es) \in Seq(Entry)
         /\ \A k \in DOMAIN NewEntries(es) :
              /\ PageOf(NewEntries(es)[k]) \in Page \ seen
              /\ \E i \in DOMAIN es : NewEntries(es)[k] = es[i]
         /\ \A k, l \in DOMAIN NewEntries(es) :
              PageOf(NewEntries(es)[k]) = PageOf(NewEntries(es)[l]) => k = l
<1> DEFINE I == AcceptedAt(es)
           m == Cardinality(I)
           at(k) == CHOOSE i \in I : RankIn(i, I) = k
<1>1. Len(es) \in Nat /\ DOMAIN es = 1..Len(es) /\ I \in SUBSET (1..Len(es))
  BY LenProperties DEF AcceptedAt
<1>2. m \in Nat /\ \A k \in 1..m : \E i \in I : RankIn(i, I) = k
  <2> HIDE DEF I
  <2> QED BY <1>1, Ranking
<1>3. \A k \in 1..m : at(k) \in I /\ RankIn(at(k), I) = k
  <2> HIDE DEF I
  <2> QED BY <1>2
<1>4. NewEntries(es) = [k \in 1..m |-> es[at(k)]]
  BY DEF NewEntries
<1>5. \A i \in I : /\ es[i] \in Entry
                   /\ Admissible(es[i])
                   /\ PageOf(es[i]) \in Page \ seen
  <2> SUFFICES ASSUME NEW i \in I
               PROVE  es[i] \in Entry /\ Admissible(es[i]) /\ PageOf(es[i]) \in Page \ seen
    OBVIOUS
  <2>1. es[i] \in Entry
    BY <1>1, ElementOfSeq
  <2>2. Admissible(es[i]) /\ PageOf(es[i]) \notin seen
    BY DEF AcceptedAt
  <2> QED BY <2>1, <2>2 DEF Admissible, PageOf, Entry
<1>6. \A i, j \in I : PageOf(es[i]) = PageOf(es[j]) => i = j
  <2>1. ASSUME NEW i \in I, NEW j \in I, PageOf(es[i]) = PageOf(es[j]), i < j
        PROVE  FALSE
    <3>1. i \in 1..(j - 1)
      BY <1>1, <2>1
    <3>2. ~(Admissible(es[i]) /\ PageOf(es[i]) = PageOf(es[j]))
      BY <3>1 DEF AcceptedAt
    <3> QED BY <1>5, <2>1, <3>2
  <2> HIDE DEF I
  <2> SUFFICES ASSUME NEW i \in I, NEW j \in I, PageOf(es[i]) = PageOf(es[j]), i # j
               PROVE  FALSE
    OBVIOUS
  <2>2. i < j \/ j < i
    BY <1>1
  <2> QED BY <2>1, <2>2
<1> HIDE DEF I, m, at
<1>7. NewEntries(es) \in Seq(Entry) /\ DOMAIN NewEntries(es) = 1..m
  <2>1. NewEntries(es) \in [1..m -> Entry]
    BY <1>3, <1>4, <1>5
  <2> QED BY <1>2, <2>1, SeqDef
<1>8. ASSUME NEW k \in DOMAIN NewEntries(es)
      PROVE  NewEntries(es)[k] = es[at(k)] /\ at(k) \in I /\ RankIn(at(k), I) = k
  BY <1>3, <1>4, <1>7
<1>9. ASSUME NEW k \in DOMAIN NewEntries(es)
      PROVE  /\ PageOf(NewEntries(es)[k]) \in Page \ seen
             /\ \E i \in DOMAIN es : NewEntries(es)[k] = es[i]
  BY <1>1, <1>5, <1>8
<1>10. ASSUME NEW k \in DOMAIN NewEntries(es), NEW l \in DOMAIN NewEntries(es),
              PageOf(NewEntries(es)[k]) = PageOf(NewEntries(es)[l])
       PROVE  k = l
  <2>1. at(k) = at(l)
    BY <1>6, <1>8, <1>10
  <2> QED BY <1>8, <2>1
<1> QED BY <1>7, <1>9, <1>10

(* What the queue holds after Push: what it held, then the new entries.    *)
LEMMA PushExtends ==
  ASSUME NEW es \in Seq(Entry), FrontierTypeOK, Push(es),
         NEW new, new = IF closed THEN <<>> ELSE NewEntries(es)
  PROVE  /\ new \in Seq(Entry)
         /\ queue' = queue \o new
         /\ seen' = seen \cup PagesIn(new)
         /\ \A k \in DOMAIN new :
              /\ PageOf(new[k]) \in Page \ seen
              /\ \E i \in DOMAIN es : new[k] = es[i]
         /\ \A k, l \in DOMAIN new : PageOf(new[k]) = PageOf(new[l]) => k = l
<1>1. CASE closed
  BY <1>1, EmptySeq DEF Push
<1>2. CASE ~closed
  BY <1>2, NewEntriesAreNew DEF Push
<1> QED BY <1>1, <1>2

(* A push finds every admissible page of its batch: one that was not seen  *)
(* is taken at the first spelling of it in the batch.                      *)
LEMMA PushFinds ==
  ASSUME NEW es \in Seq(Entry), FrontierTypeOK, Push(es), ~closed,
         NEW i \in DOMAIN es, Admissible(es[i])
  PROVE  PageOf(es[i]) \in seen'
<1> DEFINE I == AcceptedAt(es)
           m == Cardinality(I)
           J == {j \in 1..Len(es) : Admissible(es[j]) /\ PageOf(es[j]) = PageOf(es[i])}
<1>1. Len(es) \in Nat /\ DOMAIN es = 1..Len(es) /\ I \in SUBSET (1..Len(es)) /\ i \in J
  BY LenProperties DEF AcceptedAt
<1>2. seen' = seen \cup PagesIn(NewEntries(es))
  BY DEF Push
<1> SUFFICES ASSUME PageOf(es[i]) \notin seen PROVE PageOf(es[i]) \in PagesIn(NewEntries(es))
  BY <1>2
<1>3. PICK j \in J : \A k \in J : j <= k
  <2>1. IsFiniteSet(J) /\ Cardinality(J) \in Nat \ {0}
    <3>1. IsFiniteSet(J)
      <4>1. IsFiniteSet(1..Len(es)) /\ J \in SUBSET (1..Len(es))
        BY <1>1, FS_Interval
      <4> HIDE DEF J
      <4> QED BY <4>1, FS_Subset
    <3>2. J # {}
      BY <1>1
    <3> QED BY <3>1, <3>2, FS_CardinalityType, FS_EmptySet
  <2>2. PICK j \in J : RankIn(j, J) = 1
    <3>1. \A k \in 1..Cardinality(J) : \E j \in J : RankIn(j, J) = k
      <4>1. J \in SUBSET (1..Len(es))
        OBVIOUS
      <4> HIDE DEF J
      <4> QED BY <1>1, <4>1, Ranking
    <3>2. 1 \in 1..Cardinality(J)
      BY <2>1
    <3> QED BY <3>1, <3>2
  <2>3. ASSUME NEW k \in J, ~(j <= k) PROVE FALSE
    <3> DEFINE Below == {l \in J : l <= j}
    <3>1. Below \subseteq J /\ j \in Below /\ k \in Below /\ j # k
      BY <1>1, <2>3
    <3>2. Cardinality(Below) = 1
      BY <2>2 DEF RankIn
    <3> HIDE DEF Below, J
    <3>3. IsFiniteSet(Below)
      BY <2>1, <3>1, FS_Subset
    <3>4. \E x : Below = {x}
      BY <3>2, <3>3, FS_Singleton
    <3> QED BY <3>1, <3>4
  <2> QED BY <2>3
<1>4. j \in I
  BY <1>1, <1>3 DEF AcceptedAt
<1>5. /\ RankIn(j, I) \in 1..m
      /\ \A a, b \in I : RankIn(a, I) = RankIn(b, I) => a = b
  <2> HIDE DEF I
  <2> QED BY <1>1, <1>4, Ranking
<1>6. (CHOOSE a \in I : RankIn(a, I) = RankIn(j, I)) = j
  <2> HIDE DEF I
  <2> QED BY <1>4, <1>5
<1>7. /\ DOMAIN NewEntries(es) = 1..m
      /\ NewEntries(es)[RankIn(j, I)] = es[j]
  BY <1>5, <1>6 DEF NewEntries
<1> QED BY <1>3, <1>5, <1>7 DEF PagesIn

(* After a push each queued entry was queued before or is of the batch.    *)
LEMMA PushQueues ==
  ASSUME NEW es \in Seq(Entry), FrontierTypeOK, Push(es), NEW i \in DOMAIN queue'
  PROVE  \/ \E k \in DOMAIN queue : queue'[i] = queue[k]
         \/ \E k \in DOMAIN es : queue'[i] = es[k]
<1> DEFINE new == IF closed THEN <<>> ELSE NewEntries(es)
<1>1. /\ new \in Seq(Entry)
      /\ queue' = queue \o new
      /\ \A k \in DOMAIN new : \E j \in DOMAIN es : new[k] = es[j]
  <2>1. ASSUME NEW k \in DOMAIN new
        PROVE  \E j \in DOMAIN es : new[k] = es[j]
    <3> HIDE DEF new
    <3> QED BY PushExtends DEF new
  <2>2. new \in Seq(Entry) /\ queue' = queue \o new
    <3> HIDE DEF new
    <3> QED BY PushExtends DEF new
  <2> QED BY <2>1, <2>2
<1> HIDE DEF new
<1>2. /\ Len(queue) \in Nat /\ Len(new) \in Nat
      /\ DOMAIN queue = 1..Len(queue) /\ DOMAIN new = 1..Len(new)
      /\ DOMAIN queue' = 1..(Len(queue) + Len(new))
      /\ \A j \in 1..(Len(queue) + Len(new)) :
           queue'[j] = IF j <= Len(queue) THEN queue[j] ELSE new[j - Len(queue)]
  BY <1>1, ConcatProperties, LenProperties DEF FrontierTypeOK
<1>3. CASE i <= Len(queue)
  BY <1>2, <1>3
<1>4. CASE ~(i <= Len(queue))
  <2>1. i - Len(queue) \in DOMAIN new
    BY <1>2, <1>4
  <2> QED BY <1>1, <1>2, <1>4, <2>1
<1> QED BY <1>3, <1>4

-----------------------------------------------------------------------------
(* Types.                                                                  *)

LEMMA SeedEntriesType == SeedEntries \in Seq(Entry)
BY DEF SeedEntries, Entry

LEMMA LinkEntriesType ==
  ASSUME NEW e \in Entry
  PROVE  LinkEntries(e) \in Seq(Entry) /\ DOMAIN LinkEntries(e) = DOMAIN Links[e.url]
<1>1. e.url \in Url /\ e.depth \in Nat
  BY DEF Entry
<1>2. Links[e.url] \in Seq(Url)
  BY <1>1
<1>3. /\ Len(Links[e.url]) \in Nat
      /\ DOMAIN Links[e.url] = 1..Len(Links[e.url])
      /\ \A i \in 1..Len(Links[e.url]) : Links[e.url][i] \in Url
  BY <1>2, LenProperties, ElementOfSeq
<1>4. LinkEntries(e) \in [1..Len(Links[e.url]) -> Entry]
  BY <1>1, <1>3 DEF LinkEntries, Entry
<1> QED BY <1>3, <1>4, SeqDef DEF LinkEntries

LEMMA PushTypeOK ==
  ASSUME NEW es \in Seq(Entry), FrontierTypeOK, Push(es)
  PROVE  FrontierTypeOK'
<1> DEFINE new == IF closed THEN <<>> ELSE NewEntries(es)
<1>1. /\ new \in Seq(Entry)
      /\ queue' = queue \o new
      /\ seen' = seen \cup PagesIn(new)
      /\ \A k \in DOMAIN new : PageOf(new[k]) \in Page
  <2> HIDE DEF new
  <2> QED BY PushExtends DEF new
<1>2. queue' \in Seq(Entry)
  BY <1>1, ConcatProperties DEF FrontierTypeOK
<1>3. seen' \subseteq Page
  BY <1>1 DEF FrontierTypeOK, PagesIn
<1> QED BY <1>2, <1>3 DEF FrontierTypeOK, Push

(* Taking an entry removes it from one end of the queue: the last entry    *)
(* under DFS (shift 0), the first under BFS (shift 1).                     *)
LEMMA PopEntryTakes ==
  ASSUME NEW w \in Worker, FrontierTypeOK, PopEntry(w)
  PROVE  /\ queue' \in Seq(Entry)
         /\ Len(queue) \in Nat \ {0}
         /\ DOMAIN queue = 1..Len(queue)
         /\ DOMAIN queue' = 1..(Len(queue) - 1)
         /\ \E shift \in {0, 1}, i \in 1..Len(queue) :
              /\ i = IF shift = 0 THEN Len(queue) ELSE 1
              /\ queue[i] \in Entry
              /\ held' = [held EXCEPT ![w] = queue[i]]
              /\ \A j \in 1..(Len(queue) - 1) : queue'[j] = queue[j + shift]
<1>1. queue \in Seq(Entry) /\ queue # <<>>
  BY DEF FrontierTypeOK, PopEntry
<1>2. Len(queue) \in Nat \ {0} /\ DOMAIN queue = 1..Len(queue)
  BY <1>1, EmptySeq, LenProperties
<1>3. \A i \in 1..Len(queue) : queue[i] \in Entry
  BY <1>1, ElementOfSeq
<1>4. CASE Dfs
  <2>1. held' = [held EXCEPT ![w] = queue[Len(queue)]] /\ queue' = SubSeq(queue, 1, Len(queue) - 1)
    BY <1>4 DEF PopEntry
  <2>2. /\ queue' \in Seq(Entry)
        /\ Len(queue') = Len(queue) - 1
        /\ \A i \in 1..(Len(queue) - 1) : queue'[i] = queue[i]
    BY <1>1, <1>2, <1>3, <2>1
  <2>3. DOMAIN queue' = 1..(Len(queue) - 1)
    BY <2>2, LenProperties
  <2>4. \A j \in 1..(Len(queue) - 1) : queue'[j] = queue[j + 0]
    <3> SUFFICES ASSUME NEW j \in 1..(Len(queue) - 1) PROVE queue'[j] = queue[j + 0]
      OBVIOUS
    <3>1. j + 0 = j
      BY <1>2
    <3> QED BY <2>2, <3>1
  <2>5. Len(queue) \in 1..Len(queue)
    BY <1>2
  <2> QED BY <1>2, <1>3, <2>1, <2>2, <2>3, <2>4, <2>5
<1>5. CASE ~Dfs
  <2>1. held' = [held EXCEPT ![w] = queue[1]] /\ queue' = Tail(queue)
    BY <1>1, <1>5 DEF PopEntry
  <2>2. /\ queue' \in Seq(Entry)
        /\ Len(queue') = Len(queue) - 1
        /\ \A j \in 1..(Len(queue) - 1) : queue'[j] = queue[j + 1]
    BY <1>1, <2>1, HeadTailProperties
  <2>3. DOMAIN queue' = 1..(Len(queue) - 1)
    BY <2>2, LenProperties
  <2>4. \E shift \in {0, 1}, i \in 1..Len(queue) :
          /\ i = IF shift = 0 THEN Len(queue) ELSE 1
          /\ queue[i] \in Entry
          /\ held' = [held EXCEPT ![w] = queue[i]]
          /\ \A j \in 1..(Len(queue) - 1) : queue'[j] = queue[j + shift]
    <3> 1 \in {0, 1} /\ 1 \in 1..Len(queue)
      BY <1>2
    <3> WITNESS 1 \in {0, 1}, 1 \in 1..Len(queue)
    <3> QED BY <1>3, <2>1, <2>2
  <2> QED BY <1>2, <2>2, <2>3, <2>4
<1> QED BY <1>4, <1>5

LEMMA PopEntryTypeOK ==
  ASSUME NEW w \in Worker, FrontierTypeOK, PopEntry(w)
  PROVE  FrontierTypeOK'
<1>1. queue' \in Seq(Entry)
  BY PopEntryTakes
<1>2. PICK e \in Entry : held' = [held EXCEPT ![w] = e]
  BY PopEntryTakes
<1>3. held' \in [Worker -> Entry \cup {NoEntry}]
  BY <1>2 DEF FrontierTypeOK
<1>4. /\ seen' \subseteq Page /\ closed' \in BOOLEAN
      /\ waiters' \subseteq Worker /\ finished' \subseteq Entry
  BY DEF FrontierTypeOK, PopEntry
<1>5. active' \in Int
  BY DEF FrontierTypeOK, PopEntry
<1> QED BY <1>1, <1>3, <1>4, <1>5 DEF FrontierTypeOK

-----------------------------------------------------------------------------
(* The condition variable and the end-of-crawl counter.                    *)

Wakeup == NoLostWakeup /\ ActiveCountsHolders

LEMMA HoldersFinite ==
  IsFiniteSet(Holders) /\ Cardinality(Holders) \in Nat
BY FS_Subset, FS_CardinalityType DEF Holders

(* A push either adds nothing and wakes nobody, or wakes everybody.        *)
LEMMA PushWakeup ==
  ASSUME NEW es \in Seq(Entry), FrontierTypeOK, Wakeup, Push(es)
  PROVE  Wakeup'
<1>1. Holders' = Holders /\ active' = active /\ closed' = closed
  BY DEF Push, Holders
<1>2. CASE waiters' = {}
  BY <1>1, <1>2 DEF Wakeup, NoLostWakeup, ActiveCountsHolders
<1>3. CASE waiters' # {}
  <2>1. queue' = queue \o <<>> /\ waiters' = waiters
    BY <1>3 DEF Push
  <2>2. queue' = queue
    BY <2>1, ConcatEmptySeq DEF FrontierTypeOK
  <2> QED BY <1>1, <2>1, <2>2 DEF Wakeup, NoLostWakeup, ActiveCountsHolders
<1> QED BY <1>2, <1>3

-----------------------------------------------------------------------------
(* Every page is handed out at most once.                                  *)

LEMMA QueuedPagesOf ==
  ASSUME NEW q \in Seq(Entry)
  PROVE  PagesIn(q) = {PageOf(q[i]) : i \in 1..Len(q)}
BY LenProperties DEF PagesIn

(* A push moves pages from nowhere to the queue and nothing else.          *)
LEMMA PushOnce ==
  ASSUME NEW es \in Seq(Entry), FrontierTypeOK, Push(es),
         EachPageOnce
  PROVE  EachPageOnce'
<1> DEFINE new == IF closed THEN <<>> ELSE NewEntries(es)
<1>1. /\ new \in Seq(Entry)
      /\ queue' = queue \o new
      /\ seen' = seen \cup PagesIn(new)
      /\ \A k \in DOMAIN new : PageOf(new[k]) \in Page \ seen
      /\ \A k, l \in DOMAIN new : PageOf(new[k]) = PageOf(new[l]) => k = l
  <2> HIDE DEF new
  <2> QED BY PushExtends DEF new
<1> HIDE DEF new
<1>2. /\ queue \in Seq(Entry) /\ queue' \in Seq(Entry)
      /\ Len(queue) \in Nat /\ Len(new) \in Nat
      /\ DOMAIN queue = 1..Len(queue) /\ DOMAIN new = 1..Len(new)
      /\ DOMAIN queue' = 1..(Len(queue) + Len(new))
      /\ \A i \in 1..(Len(queue) + Len(new)) :
           queue'[i] = IF i <= Len(queue) THEN queue[i] ELSE new[i - Len(queue)]
  BY <1>1, ConcatProperties, LenProperties DEF FrontierTypeOK
<1>3. HeldPages' = HeldPages /\ FinishedPages' = FinishedPages /\ Holders' = Holders
  BY DEF Push, HeldPages, Holders, FinishedPages
<1>4. \A i \in 1..(Len(queue) + Len(new)) :
        \/ i \in 1..Len(queue) /\ queue'[i] = queue[i]
        \/ i - Len(queue) \in 1..Len(new) /\ queue'[i] = new[i - Len(queue)]
  BY <1>2
<1>5. /\ \A i \in 1..Len(queue) : i \in DOMAIN queue' /\ queue'[i] = queue[i]
      /\ \A k \in 1..Len(new) :
           Len(queue) + k \in DOMAIN queue' /\ queue'[Len(queue) + k] = new[k]
  <2>1. ASSUME NEW i \in 1..Len(queue)
        PROVE  i \in DOMAIN queue' /\ queue'[i] = queue[i]
    BY <1>2
  <2>2. ASSUME NEW k \in 1..Len(new)
        PROVE  Len(queue) + k \in DOMAIN queue' /\ queue'[Len(queue) + k] = new[k]
    <3>1. /\ Len(queue) + k \in 1..(Len(queue) + Len(new))
          /\ ~(Len(queue) + k <= Len(queue))
          /\ (Len(queue) + k) - Len(queue) = k
      BY <1>2
    <3> QED BY <1>2, <3>1
  <2> QED BY <2>1, <2>2
<1>6. QueuedPages' = QueuedPages \cup PagesIn(new)
  BY <1>2, <1>4, <1>5 DEF QueuedPages, PagesIn
<1>7. PagesIn(new) \cap seen = {}
  BY <1>1 DEF PagesIn
<1>8. \A i, j \in DOMAIN queue' : PageOf(queue'[i]) = PageOf(queue'[j]) => i = j
  <2> SUFFICES ASSUME NEW i \in DOMAIN queue', NEW j \in DOMAIN queue',
                      PageOf(queue'[i]) = PageOf(queue'[j])
               PROVE  i = j
    OBVIOUS
  <2>1. \A a \in DOMAIN queue : PageOf(queue[a]) \in seen
    BY DEF EachPageOnce, QueuedPages, PagesIn
  <2>2. CASE i \in 1..Len(queue) /\ j \in 1..Len(queue)
    BY <1>2, <1>5, <2>2 DEF EachPageOnce
  <2>3. CASE i \notin 1..Len(queue) /\ j \notin 1..Len(queue)
    <3>1. i - Len(queue) = j - Len(queue)
      BY <1>1, <1>2, <1>4, <2>3
    <3> QED BY <1>2, <3>1
  <2>4. CASE i \in 1..Len(queue) /\ j \notin 1..Len(queue)
    BY <1>1, <1>2, <1>4, <1>5, <2>1, <2>4
  <2>5. CASE i \notin 1..Len(queue) /\ j \in 1..Len(queue)
    BY <1>1, <1>2, <1>4, <1>5, <2>1, <2>5
  <2> QED BY <2>2, <2>3, <2>4, <2>5
<1>9. held' = held /\ finished' = finished /\ Holders' = Holders
  BY <1>3 DEF Push
<1> QED BY <1>1, <1>3, <1>6, <1>7, <1>8, <1>9 DEF EachPageOnce

(* A pop moves one page from the queue to the worker that takes it.        *)
LEMMA PopOnce ==
  ASSUME NEW w \in Worker, FrontierTypeOK, PopEntry(w), held[w] = NoEntry,
         EachPageOnce
  PROVE  EachPageOnce'
<1>1. /\ Len(queue) \in Nat \ {0}
      /\ DOMAIN queue = 1..Len(queue)
      /\ DOMAIN queue' = 1..(Len(queue) - 1)
  BY PopEntryTakes
<1>2. PICK shift \in {0, 1}, i \in 1..Len(queue) :
        /\ i = IF shift = 0 THEN Len(queue) ELSE 1
        /\ queue[i] \in Entry
        /\ held' = [held EXCEPT ![w] = queue[i]]
        /\ \A j \in 1..(Len(queue) - 1) : queue'[j] = queue[j + shift]
  BY PopEntryTakes
<1> DEFINE p == PageOf(queue[i])
<1>3. ASSUME NEW j \in DOMAIN queue'
      PROVE  j + shift \in DOMAIN queue \ {i} /\ queue'[j] = queue[j + shift]
  <2>1. CASE shift = 0
    BY <1>1, <1>2, <2>1
  <2>2. CASE shift = 1
    BY <1>1, <1>2, <2>2
  <2> QED BY <2>1, <2>2
<1>4. ASSUME NEW k \in DOMAIN queue \ {i}
      PROVE  k - shift \in DOMAIN queue' /\ queue'[k - shift] = queue[k]
  <2>1. CASE shift = 0
    <3>1. k \in 1..(Len(queue) - 1) /\ k + 0 = k /\ k - 0 = k
      BY <1>1, <1>2, <2>1
    <3> QED BY <1>1, <1>2, <2>1, <3>1
  <2>2. CASE shift = 1
    <3>1. k - 1 \in 1..(Len(queue) - 1) /\ (k - 1) + 1 = k
      BY <1>1, <1>2, <2>2
    <3> QED BY <1>1, <1>2, <2>2, <3>1
  <2> QED BY <2>1, <2>2
<1>5. seen' = seen /\ FinishedPages' = FinishedPages
  BY DEF PopEntry, FinishedPages
<1>6. p \in QueuedPages
  BY <1>1, <1>2 DEF QueuedPages, PagesIn
<1>7. \A k \in DOMAIN queue \ {i} : PageOf(queue[k]) # p
  BY <1>1, <1>2 DEF EachPageOnce
<1>8. QueuedPages' = QueuedPages \ {p}
  <2>1. QueuedPages' \subseteq QueuedPages \ {p}
    BY <1>3, <1>7 DEF QueuedPages, PagesIn
  <2>2. \A q \in QueuedPages \ {p} : q \in QueuedPages'
    <3> SUFFICES ASSUME NEW q \in QueuedPages, q # p PROVE q \in QueuedPages'
      OBVIOUS
    <3>1. PICK k \in DOMAIN queue : q = PageOf(queue[k])
      BY DEF QueuedPages, PagesIn
    <3>2. k \in DOMAIN queue \ {i}
      BY <3>1
    <3> QED BY <1>4, <3>1, <3>2 DEF QueuedPages, PagesIn
  <2> QED BY <2>1, <2>2
<1>9. Holders' = Holders \cup {w} /\ w \notin Holders
  BY <1>2 DEF Holders, FrontierTypeOK
<1>10. held'[w] = queue[i] /\ \A v \in Holders : held'[v] = held[v]
  BY <1>2, <1>9 DEF Holders, FrontierTypeOK
<1> HIDE DEF p
<1>11. HeldPages' = HeldPages \cup {p}
  BY <1>9, <1>10 DEF HeldPages, p
<1>12. \A j, k \in DOMAIN queue' : PageOf(queue'[j]) = PageOf(queue'[k]) => j = k
  <2> SUFFICES ASSUME NEW j \in DOMAIN queue', NEW k \in DOMAIN queue',
                      PageOf(queue'[j]) = PageOf(queue'[k])
               PROVE  j = k
    OBVIOUS
  <2>1. j + shift = k + shift
    BY <1>3 DEF EachPageOnce
  <2>2. j \in Int /\ k \in Int /\ shift \in Int
    BY <1>1
  <2> QED BY <2>1, <2>2
<1>13. p \notin HeldPages \cup FinishedPages
  BY <1>6 DEF EachPageOnce
<1>14. \A u, v \in Holders' : PageOf(held'[u]) = PageOf(held'[v]) => u = v
  <2>1. \A v \in Holders : PageOf(held'[v]) \in HeldPages
    BY <1>10 DEF HeldPages
  <2>2. PageOf(held'[w]) = p
    BY <1>10 DEF p
  <2> QED BY <1>9, <1>10, <1>13, <2>1, <2>2 DEF EachPageOnce
<1>15. /\ seen' = QueuedPages' \cup HeldPages' \cup FinishedPages'
       /\ QueuedPages' \cap (HeldPages' \cup FinishedPages') = {}
       /\ HeldPages' \cap FinishedPages' = {}
  BY <1>5, <1>6, <1>8, <1>11, <1>13 DEF EachPageOnce
<1>16. \A d, e \in finished' : PageOf(d) = PageOf(e) => d = e
  BY DEF EachPageOnce, PopEntry
<1> QED BY <1>12, <1>14, <1>15, <1>16 DEF EachPageOnce

(* MarkIdle moves the page of the worker that calls it to the finished.    *)
LEMMA ReleaseOnce ==
  ASSUME NEW w \in Worker, FrontierTypeOK, MarkIdle(w), held[w] \in Entry,
         EachPageOnce
  PROVE  EachPageOnce'
<1> DEFINE p == PageOf(held[w])
<1>1. held' = [held EXCEPT ![w] = NoEntry] /\ queue' = queue /\ seen' = seen
  BY DEF MarkIdle
<1>2. w \in Holders /\ Holders' = Holders \ {w}
  BY <1>1 DEF Holders, FrontierTypeOK
<1>3. \A v \in Holders' : held'[v] = held[v]
  BY <1>1, <1>2 DEF Holders, FrontierTypeOK
<1>4. QueuedPages' = QueuedPages
  BY <1>1 DEF QueuedPages, PagesIn
<1>5. FinishedPages' = FinishedPages \cup {p}
  BY DEF FinishedPages, MarkIdle
<1>6. p \in HeldPages /\ p \notin FinishedPages /\ p \notin QueuedPages
  BY <1>2 DEF HeldPages, EachPageOnce
<1>7. \A v \in Holders \ {w} : PageOf(held[v]) # p
  BY <1>2 DEF EachPageOnce
<1> HIDE DEF p
<1>8. HeldPages' = HeldPages \ {p}
  <2>1. HeldPages' = {PageOf(held[v]) : v \in Holders \ {w}}
    BY <1>2, <1>3 DEF HeldPages
  <2> QED BY <1>2, <1>7, <2>1 DEF HeldPages, p
<1>9. \A u, v \in Holders' : PageOf(held'[u]) = PageOf(held'[v]) => u = v
  BY <1>2, <1>3 DEF EachPageOnce
<1>10. \A i, j \in DOMAIN queue' : PageOf(queue'[i]) = PageOf(queue'[j]) => i = j
  BY <1>1 DEF EachPageOnce
<1>11. \A d, e \in finished' : PageOf(d) = PageOf(e) => d = e
  BY <1>6 DEF EachPageOnce, FinishedPages, MarkIdle, p
<1>12. /\ seen' = QueuedPages' \cup HeldPages' \cup FinishedPages'
       /\ QueuedPages' \cap (HeldPages' \cup FinishedPages') = {}
       /\ HeldPages' \cap FinishedPages' = {}
  BY <1>1, <1>4, <1>5, <1>6, <1>8 DEF EachPageOnce
<1> QED BY <1>9, <1>10, <1>11, <1>12 DEF EachPageOnce

-----------------------------------------------------------------------------
(* One lemma per operation.                                                *)

FrontierInv == FrontierTypeOK /\ Wakeup /\ EachPageOnce

LEMMA FrontierInitInv == FrontierInit => FrontierInv
<1> SUFFICES ASSUME FrontierInit PROVE FrontierInv
  OBVIOUS
<1>1. FrontierTypeOK
  <2>1. queue \in Seq(Entry) /\ active \in Int
    BY EmptySeq DEF FrontierInit
  <2>2. held \in [Worker -> Entry \cup {NoEntry}]
    BY DEF FrontierInit
  <2>3. /\ seen \subseteq Page /\ closed \in BOOLEAN
        /\ waiters \subseteq Worker /\ finished \subseteq Entry
    BY Zenon DEF FrontierInit
  <2> QED BY <2>1, <2>2, <2>3 DEF FrontierTypeOK
<1>2. /\ waiters = {} /\ active = 0 /\ Holders = {} /\ finished = {}
      /\ queue = <<>> /\ seen = {} /\ DOMAIN queue = {}
  BY DEF FrontierInit, Holders
<1>3. Wakeup
  BY <1>2, FS_EmptySet DEF Wakeup, NoLostWakeup, ActiveCountsHolders
<1>4. EachPageOnce
  BY <1>2 DEF EachPageOnce, QueuedPages, PagesIn, HeldPages, FinishedPages
<1> QED BY <1>1, <1>3, <1>4 DEF FrontierInv

LEMMA UnchangedInv ==
  ASSUME FrontierInv, UNCHANGED frontierVars
  PROVE  FrontierInv'
<1>1. UNCHANGED <<queue, seen, active, closed, waiters, held, finished, Holders>>
  BY DEF frontierVars, Holders
<1>2. QueuedPages' = QueuedPages /\ HeldPages' = HeldPages /\ FinishedPages' = FinishedPages
  BY <1>1 DEF QueuedPages, PagesIn, HeldPages, FinishedPages
<1>3. FrontierTypeOK' /\ Wakeup'
  BY <1>1 DEF FrontierInv, FrontierTypeOK, Wakeup, NoLostWakeup, ActiveCountsHolders
<1>4. EachPageOnce'
  BY <1>1, <1>2 DEF FrontierInv, EachPageOnce
<1> QED BY <1>3, <1>4 DEF FrontierInv

LEMMA PushInv ==
  ASSUME NEW es \in Seq(Entry), FrontierInv, Push(es)
  PROVE  FrontierInv'
BY PushTypeOK, PushWakeup, PushOnce DEF FrontierInv

LEMMA PopEntryInv ==
  ASSUME NEW w \in Worker, FrontierInv, PopEntry(w), held[w] = NoEntry
  PROVE  FrontierInv'
<1>1. PICK e \in Entry : held' = [held EXCEPT ![w] = e]
  BY PopEntryTakes DEF FrontierInv
<1>2. Holders' = Holders \cup {w} /\ w \notin Holders
  BY <1>1 DEF Holders, FrontierInv, FrontierTypeOK
<1>3. active' = active + 1 /\ waiters' = waiters /\ queue # <<>>
  BY DEF PopEntry
<1>4. ActiveCountsHolders'
  BY <1>2, <1>3, HoldersFinite, FS_AddElement DEF FrontierInv, Wakeup, ActiveCountsHolders
<1>5. NoLostWakeup'
  BY <1>3 DEF FrontierInv, Wakeup, NoLostWakeup
<1> QED BY <1>4, <1>5, PopEntryTypeOK, PopOnce DEF FrontierInv, Wakeup

(* Where the pages are before and after an operation, seen from outside:   *)
(* a page taken is in hand or finished, and leaves the hand only once.     *)

LEMMA TakenAreHeldOrFinished ==
  ASSUME EachPageOnce
  PROVE  TakenPages = HeldPages \cup FinishedPages
BY DEF EachPageOnce, TakenPages

LEMMA PushTakesNothing ==
  ASSUME NEW es \in Seq(Entry), FrontierInv, Push(es)
  PROVE  /\ seen \subseteq seen' /\ seen' \subseteq Page
         /\ HeldPages' = HeldPages /\ TakenPages' = TakenPages
<1>1. HeldPages' = HeldPages /\ FinishedPages' = FinishedPages
  BY DEF Push, HeldPages, Holders, FinishedPages
<1>2. FrontierInv' /\ seen \subseteq seen'
  BY PushInv DEF Push
<1>3. TakenPages' = HeldPages' \cup FinishedPages'
  BY <1>2 DEF FrontierInv, EachPageOnce, TakenPages
<1> QED BY <1>1, <1>2, <1>3, TakenAreHeldOrFinished DEF FrontierInv, FrontierTypeOK

(* The first push: the seed's page, or nothing when it is not admissible.  *)
LEMMA SeedPush ==
  ASSUME FrontierInv, Push(SeedEntries), seen = {}, ~closed
  PROVE  IF NewEntries(SeedEntries) = <<>> THEN seen' = {}
         ELSE \E p \in Page : seen' = {p}
<1> DEFINE e == [url |-> Seed, depth |-> 0]
           new == NewEntries(SeedEntries)
<1>1. /\ SeedEntries \in Seq(Entry) /\ DOMAIN SeedEntries = {1} /\ SeedEntries[1] = e
  BY SeedEntriesType DEF SeedEntries
<1>2. /\ new \in Seq(Entry)
      /\ \A k \in DOMAIN new : PageOf(new[k]) \in Page /\ new[k] = e
  BY <1>1, NewEntriesAreNew
<1>3. seen' = PagesIn(new)
  BY DEF Push
<1> HIDE DEF new
<1>4. CASE new = <<>>
  <2>1. PagesIn(new) = {}
    BY <1>4 DEF PagesIn
  <2> QED BY <1>3, <1>4, <2>1 DEF new
<1>5. CASE new # <<>>
  <2>1. 1 \in DOMAIN new
    BY <1>2, <1>5, EmptySeq, LenProperties
  <2>2. PagesIn(new) = {PageOf(e)} /\ PageOf(e) \in Page
    BY <1>2, <2>1 DEF PagesIn
  <2> QED BY <1>3, <1>5, <2>2 DEF new
<1> QED BY <1>4, <1>5

LEMMA PopTakesOne ==
  ASSUME NEW w \in Worker, FrontierInv, PopEntry(w), held[w] = NoEntry
  PROVE  \E p \in seen \ TakenPages :
           /\ seen' = seen
           /\ HeldPages' = HeldPages \cup {p}
           /\ TakenPages' = TakenPages \cup {p}
<1>1. PICK i \in DOMAIN queue : queue[i] \in Entry /\ held' = [held EXCEPT ![w] = queue[i]]
  BY PopEntryTakes DEF FrontierInv
<1>2. Holders' = Holders \cup {w} /\ w \notin Holders
  BY <1>1 DEF Holders, FrontierInv, FrontierTypeOK
<1>3. held'[w] = queue[i] /\ \A v \in Holders : held'[v] = held[v]
  BY <1>1, <1>2 DEF Holders, FrontierInv, FrontierTypeOK
<1>4. HeldPages' = HeldPages \cup {PageOf(queue[i])}
  BY <1>2, <1>3 DEF HeldPages
<1>5. PageOf(queue[i]) \in seen \ TakenPages
  BY DEF FrontierInv, EachPageOnce, TakenPages, QueuedPages, PagesIn
<1>6. seen' = seen /\ FinishedPages' = FinishedPages
  BY DEF PopEntry, FinishedPages
<1>7. EachPageOnce /\ EachPageOnce'
  BY PopEntryInv DEF FrontierInv
<1>8. TakenPages' = TakenPages \cup {PageOf(queue[i])}
  BY <1>4, <1>6, <1>7 DEF EachPageOnce, TakenPages
<1> QED BY <1>4, <1>5, <1>6, <1>8

LEMMA PopWaitInv ==
  ASSUME NEW w \in Worker, FrontierInv, PopWait(w)
  PROVE  FrontierInv'
<1>1. /\ queue = <<>> /\ active # 0 /\ ~closed /\ waiters' = waiters \cup {w}
      /\ UNCHANGED <<queue, seen, active, closed, held, finished, Holders>>
  BY DEF PopWait, Holders
<1>2. active > 0
  BY <1>1, HoldersFinite DEF FrontierInv, Wakeup, ActiveCountsHolders
<1>3. QueuedPages' = QueuedPages /\ HeldPages' = HeldPages /\ FinishedPages' = FinishedPages
  BY <1>1 DEF QueuedPages, PagesIn, HeldPages, FinishedPages
<1>4. FrontierTypeOK' /\ Wakeup'
  BY <1>1, <1>2 DEF FrontierInv, FrontierTypeOK, Wakeup, NoLostWakeup, ActiveCountsHolders
<1>5. EachPageOnce'
  BY <1>1, <1>3 DEF FrontierInv, EachPageOnce
<1> QED BY <1>4, <1>5 DEF FrontierInv

LEMMA MarkIdleInv ==
  ASSUME NEW w \in Worker, FrontierInv, MarkIdle(w), held[w] \in Entry
  PROVE  FrontierInv'
<1>1. /\ held' = [held EXCEPT ![w] = NoEntry]
      /\ active' = active - 1
      /\ waiters' = IF active' = 0 /\ queue = <<>> THEN {} ELSE waiters
      /\ finished' = finished \cup {held[w]}
      /\ UNCHANGED <<queue, seen, closed>>
  BY DEF MarkIdle
<1>2. w \in Holders /\ Holders' = Holders \ {w}
  BY <1>1 DEF Holders, FrontierInv, FrontierTypeOK
<1>3. ActiveCountsHolders'
  BY <1>1, <1>2, HoldersFinite, FS_RemoveElement DEF FrontierInv, Wakeup, ActiveCountsHolders
<1>4. active \in Nat
  BY HoldersFinite DEF FrontierInv, Wakeup, ActiveCountsHolders
<1>5. NoLostWakeup'
  BY <1>1, <1>4 DEF FrontierInv, Wakeup, NoLostWakeup
<1>6. FrontierTypeOK'
  BY <1>1, <1>4 DEF FrontierInv, FrontierTypeOK
<1> QED BY <1>3, <1>5, <1>6, ReleaseOnce DEF FrontierInv, Wakeup

LEMMA MarkIdleSettlesOne ==
  ASSUME NEW w \in Worker, FrontierInv, MarkIdle(w), held[w] \in Entry
  PROVE  \E p \in HeldPages :
           /\ seen' = seen
           /\ HeldPages' = HeldPages \ {p}
           /\ TakenPages' = TakenPages
<1> DEFINE p == PageOf(held[w])
<1>1. held' = [held EXCEPT ![w] = NoEntry] /\ queue' = queue /\ seen' = seen
  BY DEF MarkIdle
<1>2. w \in Holders /\ Holders' = Holders \ {w}
  BY <1>1 DEF Holders, FrontierInv, FrontierTypeOK
<1>3. \A v \in Holders' : held'[v] = held[v]
  BY <1>1, <1>2 DEF Holders, FrontierInv, FrontierTypeOK
<1>4. \A v \in Holders \ {w} : PageOf(held[v]) # p
  BY <1>2 DEF FrontierInv, EachPageOnce
<1>5. HeldPages' = {PageOf(held[v]) : v \in Holders \ {w}}
  BY <1>2, <1>3 DEF HeldPages
<1> HIDE DEF p
<1>6. p \in HeldPages
  BY <1>2 DEF HeldPages, p
<1>7. HeldPages' = HeldPages \ {p}
  BY <1>2, <1>4, <1>5 DEF HeldPages, p
<1>8. TakenPages' = TakenPages
  BY <1>1 DEF TakenPages, QueuedPages, PagesIn
<1> QED BY <1>1, <1>6, <1>7, <1>8

LEMMA CloseInv ==
  ASSUME FrontierInv, Close
  PROVE  FrontierInv'
<1>1. closed' = TRUE /\ waiters' = {} /\ UNCHANGED <<queue, seen, active, held, finished, Holders>>
  BY DEF Close, Holders
<1>2. QueuedPages' = QueuedPages /\ HeldPages' = HeldPages /\ FinishedPages' = FinishedPages
  BY <1>1 DEF QueuedPages, PagesIn, HeldPages, FinishedPages
<1>3. FrontierTypeOK' /\ Wakeup'
  BY <1>1 DEF FrontierInv, FrontierTypeOK, Wakeup, NoLostWakeup, ActiveCountsHolders
<1>4. EachPageOnce'
  BY <1>1, <1>2 DEF FrontierInv, EachPageOnce
<1> QED BY <1>3, <1>4 DEF FrontierInv
=============================================================================
