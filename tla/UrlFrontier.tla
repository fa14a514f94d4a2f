----------------------------- MODULE UrlFrontier -----------------------------
(***************************************************************************)
(* The URL frontier both crawl backends share (pkg/crawl/frontier.go): a   *)
(* queue of URLs to visit guarded by one mutex and one condition variable, *)
(* with deduplication, a scope filter, a depth limit and the counter that  *)
(* detects the end of the crawl.                                           *)
(*                                                                         *)
(* Every operation runs under f.mu from its first to its last statement,   *)
(* or to the cond.Wait that releases it, so each is one action.  This      *)
(* module has the state and the operations; FrontierClient, RodCrawl and   *)
(* HttpCrawl are the programs that call them.                              *)
(***************************************************************************)
EXTENDS Integers, Sequences, FiniteSets

CONSTANTS
  Worker,      \* the goroutines that call the frontier
  Url,         \* URLs as pages spell them
  Page,        \* normalized URLs, the keys of f.seen
  NoPage,      \* what normalizeURL returns for a URL that does not parse
  Normalize,   \* normalizeURL: many spellings, one page
  InScope,     \* the URLs scopeFn accepts; it is given the spelling
  MaxDepth,    \* f.maxDepth; negative is unlimited
  Dfs,         \* f.dfs: LIFO when TRUE, FIFO when FALSE
  NoEntry,     \* the local entry of a worker that holds none
  Seed,        \* the URL the crawl starts from
  Links        \* the links of the page at each URL, in document order

Entry == [url : Url, depth : Nat]

ASSUME FrontierAssumption ==
  /\ IsFiniteSet(Worker)
  /\ NoPage \notin Page
  /\ Normalize \in [Url -> Page \cup {NoPage}]
  /\ InScope \subseteq Url
  /\ MaxDepth \in Int
  /\ Dfs \in BOOLEAN
  /\ NoEntry \notin Entry
  /\ Seed \in Url
  /\ Links \in [Url -> Seq(Url)]

VARIABLES
  queue,       \* f.queue
  seen,        \* f.seen
  active,      \* f.active
  closed,      \* f.closed
  waiters,     \* the workers on f.cond's wait list, not yet notified
  held,        \* the entry each worker took from Pop and has not given back
  finished     \* history: the entries given back by MarkIdle

frontierVars == <<queue, seen, active, closed, waiters, held, finished>>

FrontierTypeOK ==
  /\ queue \in Seq(Entry)
  /\ seen \subseteq Page
  /\ active \in Int
  /\ closed \in BOOLEAN
  /\ waiters \subseteq Worker
  /\ held \in [Worker -> Entry \cup {NoEntry}]
  /\ finished \subseteq Entry

FrontierInit ==
  /\ queue = <<>>
  /\ seen = {}
  /\ active = 0
  /\ closed = FALSE
  /\ waiters = {}
  /\ held = [w \in Worker |-> NoEntry]
  /\ finished = {}

-----------------------------------------------------------------------------
PageOf(e) == Normalize[e.url]
PagesIn(es) == {PageOf(es[i]) : i \in DOMAIN es}
Holders == {w \in Worker : held[w] # NoEntry}

(* Mutant: the empty result of normalizeURL is taken for a page. *)
AdmissibleUnparsed(e) ==
  /\ MaxDepth < 0 \/ e.depth <= MaxDepth
  /\ e.url \in InScope

(* The checks of Push that do not depend on what was pushed before. *)
Admissible(e) ==
  /\ MaxDepth < 0 \/ e.depth <= MaxDepth
  /\ PageOf(e) # NoPage
  /\ e.url \in InScope

(* Mutant: the batch is filtered first and marked as seen afterwards. *)
AcceptedBeforeMarking(es) ==
  {i \in DOMAIN es : Admissible(es[i]) /\ PageOf(es[i]) \notin seen}

(* Push walks its batch in order and marks as it goes, so of two spellings *)
(* of one page the first admissible one is taken.                          *)
AcceptedAt(es) ==
  {i \in DOMAIN es :
     /\ Admissible(es[i])
     /\ PageOf(es[i]) \notin seen
     /\ \A j \in 1..(i - 1) :
          ~(Admissible(es[j]) /\ PageOf(es[j]) = PageOf(es[i]))}

RankIn(i, I) == Cardinality({j \in I : j <= i})

(* The accepted entries of the batch es, in the order of the batch. *)
NewEntries(es) ==
  LET I == AcceptedAt(es)
  IN  [k \in 1..Cardinality(I) |-> es[CHOOSE i \in I : RankIn(i, I) = k]]

Push(es) ==
  LET new == IF closed THEN <<>> ELSE NewEntries(es)
  IN  /\ queue' = queue \o new
      /\ seen' = seen \cup PagesIn(new)
      /\ waiters' = IF new = <<>> THEN waiters ELSE {}
      /\ UNCHANGED <<active, closed, held, finished>>

(* Mutant: active is left to a separate MarkActive call. *)
PopEntryInactive(w) ==
  /\ w \notin waiters
  /\ queue # <<>>
  /\ held' = [held EXCEPT ![w] = IF Dfs THEN queue[Len(queue)] ELSE Head(queue)]
  /\ queue' = IF Dfs THEN SubSeq(queue, 1, Len(queue) - 1) ELSE Tail(queue)
  /\ UNCHANGED <<seen, active, closed, waiters, finished>>

(* A worker inside Pop that is not on the wait list holds f.mu next and    *)
(* evaluates the loop body: it takes an entry, is told the frontier is     *)
(* exhausted, or waits.                                                    *)
PopEntry(w) ==
  /\ w \notin waiters
  /\ queue # <<>>
  /\ held' = [held EXCEPT ![w] = IF Dfs THEN queue[Len(queue)] ELSE Head(queue)]
  /\ queue' = IF Dfs THEN SubSeq(queue, 1, Len(queue) - 1) ELSE Tail(queue)
  /\ active' = active + 1
  /\ UNCHANGED <<seen, closed, waiters, finished>>

PopExhausted(w) ==
  /\ w \notin waiters
  /\ queue = <<>>
  /\ active = 0 \/ closed
  /\ UNCHANGED frontierVars

PopWait(w) ==
  /\ w \notin waiters
  /\ queue = <<>>
  /\ active # 0
  /\ ~closed
  /\ waiters' = waiters \cup {w}
  /\ UNCHANGED <<queue, seen, active, closed, held, finished>>

(* Mutant: the last worker to go idle wakes nobody. *)
MarkIdleSilently(w) ==
  /\ held' = [held EXCEPT ![w] = NoEntry]
  /\ finished' = finished \cup {held[w]}
  /\ active' = active - 1
  /\ UNCHANGED <<queue, seen, closed, waiters>>

MarkIdle(w) ==
  /\ held' = [held EXCEPT ![w] = NoEntry]
  /\ finished' = finished \cup {held[w]}
  /\ active' = active - 1
  /\ waiters' = IF active' = 0 /\ queue = <<>> THEN {} ELSE waiters
  /\ UNCHANGED <<queue, seen, closed>>

Close ==
  /\ closed' = TRUE
  /\ waiters' = {}
  /\ UNCHANGED <<queue, seen, active, held, finished>>

(* Mutant: links are pushed at the level of their page. *)
LinkEntriesSameLevel(e) ==
  [i \in DOMAIN Links[e.url] |-> [url |-> Links[e.url][i], depth |-> e.depth]]

(* What the crawls push: the seed at depth 0, and the links of a visited   *)
(* page one level below it.                                                *)
SeedEntries == <<[url |-> Seed, depth |-> 0]>>

LinkEntries(e) ==
  [i \in DOMAIN Links[e.url] |-> [url |-> Links[e.url][i], depth |-> e.depth + 1]]

(* The pages at most n links away from the seed, along admissible URLs.    *)
PagesWithin(n) ==
  LET usable(u) == Normalize[u] # NoPage /\ u \in InScope
      reach[k \in 0..n] ==
        IF k = 0 THEN {Seed}
        ELSE reach[k - 1] \cup
             {u \in Url : usable(u) /\ \E v \in reach[k - 1] :
                            \E i \in DOMAIN Links[v] : Links[v][i] = u}
  IN  {Normalize[u] : u \in reach[n]}

-----------------------------------------------------------------------------
(* No lost wakeup.  A worker is parked on the condition variable only while*)
(* its wakeup is still to come: the queue is empty, some worker is busy    *)
(* and will push or go idle, and the frontier is open.                     *)
NoLostWakeup ==
  waiters # {} => queue = <<>> /\ active > 0 /\ ~closed

(* The end-of-crawl counter is exact: f.active is the number of workers    *)
(* that hold an entry, whichever exit their loop takes.                    *)
ActiveCountsHolders == active = Cardinality(Holders)

QueuedPages == PagesIn(queue)
HeldPages == {PageOf(held[w]) : w \in Holders}
FinishedPages == {PageOf(e) : e \in finished}
TakenPages == seen \ QueuedPages

(* Every page is handed out at most once, whatever spelling pages use for  *)
(* it and whichever workers find it together: a page that was seen is      *)
(* queued, held or finished, in exactly one of these places and once.      *)
EachPageOnce ==
  /\ seen = QueuedPages \cup HeldPages \cup FinishedPages
  /\ QueuedPages \cap (HeldPages \cup FinishedPages) = {}
  /\ HeldPages \cap FinishedPages = {}
  /\ \A i, j \in DOMAIN queue : PageOf(queue[i]) = PageOf(queue[j]) => i = j
  /\ \A u, v \in Holders : PageOf(held[u]) = PageOf(held[v]) => u = v
  /\ \A d, e \in finished : PageOf(d) = PageOf(e) => d = e
=============================================================================
