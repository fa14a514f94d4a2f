--------------------------- MODULE NetworkCapture ---------------------------
(***************************************************************************)
(* The passive capture of one page's traffic (pkg/crawl/network.go).       *)
(*                                                                         *)
(* The browser reports each exchange under its request id by events; one   *)
(* goroutine (rod's EachEvent) runs the handlers one after the other,      *)
(* while the worker that visits the page takes the results when the page   *)
(* looks stable, whatever is still under way.  An exchange is the sequence *)
(* of its hops: a redirect sends the next hop under the same id, and its   *)
(* own answer is not reported as an event of its own.                      *)
(***************************************************************************)
EXTENDS Capture

VARIABLES
    page,      \* the exchanges of the page, each a sequence of requests
    hop,       \* the hops of each exchange sent so far
    answered,  \* the exchanges whose last hop was answered
    pending,   \* the map of pendingRequest entries
    fetching,  \* the exchange whose body the handler waits for, 0 for none
    taken      \* the worker has taken the results

networkVars == <<page, hop, answered, pending, fetching, taken>>

Unanswered == [status |-> 0, ctype |-> "", body |-> 0]

NetworkInit(pages) ==
    /\ page \in pages
    /\ hop = [id \in DOMAIN page |-> 0]
    /\ answered = {} /\ pending = <<>> /\ fetching = 0 /\ taken = FALSE

Listening == fetching = 0 /\ ~taken

\* Mutant: the request of the next hop goes into the entry there is, keeping
\* the method and URL of the first.
EntryKept(id, h) == [request |-> page[id][1], resp |-> Unanswered, complete |-> FALSE]

Entry(id, h) == [request |-> page[id][h], resp |-> Unanswered, complete |-> FALSE]

\* NetworkRequestWillBeSent: the entry of the id is made, or overwritten.
RequestWillBeSent(id) ==
    /\ Listening
    /\ hop[id] < Len(page[id])
    /\ hop' = [hop EXCEPT ![id] = @ + 1]
    /\ pending' = With(pending, id, Entry(id, hop'[id]))
    /\ UNCHANGED <<page, answered, fetching, taken>>

\* NetworkResponseReceived, for the last hop.
ResponseReceived(id) ==
    /\ Listening
    /\ hop[id] = Len(page[id]) /\ id \notin answered
    /\ answered' = answered \cup {id}
    /\ pending' = [pending EXCEPT ![id].resp = [page[id][hop[id]].resp EXCEPT !.body = 0]]
    /\ UNCHANGED <<page, hop, fetching, taken>>

\* NetworkLoadingFinished, first half: the entry is marked before the lock is
\* released for the call that fetches the body.  A replayed event finds it marked.
LoadingFinished(id) ==
    /\ Listening
    /\ id \in answered /\ ~pending[id].complete
    /\ pending' = [pending EXCEPT ![id].complete = TRUE]
    /\ fetching' = id
    /\ UNCHANGED <<page, hop, answered, taken>>

\* Second half: the body has come, or the browser no longer has it.
BodyFetched ==
    /\ fetching # 0
    /\ \/ pending' = [pending EXCEPT ![fetching].resp.body = page[fetching][hop[fetching]].resp.body]
       \/ UNCHANGED pending
    /\ fetching' = 0
    /\ UNCHANGED <<page, hop, answered, taken>>

\* mapNetworkToObservedRequest
Mapped(id) == [pending[id].request EXCEPT
                  !.resp = pending[id].resp,
                  !.query = CapQueryValues(pending[id].request.query)]

\* Mutant: an exchange without its body is not worth reporting.
ReportedFinished(order) ==
    LET finished == SelectSeq(order, LAMBDA id : pending[id].complete)
    IN  [i \in DOMAIN finished |-> Mapped(finished[i])]

\* What Results returns, for an order of the entries.
Reported(order) == [i \in DOMAIN order |-> Mapped(order[i])]

\* Results walks a map, so its order is any.
Orders(S) == {f \in [1..Cardinality(S) -> S] : \A i, j \in DOMAIN f : f[i] = f[j] => i = j}

Results(order) ==
    /\ ~taken
    /\ order \in Orders(DOMAIN pending)
    /\ taken' = TRUE
    /\ UNCHANGED <<page, hop, answered, pending, fetching>>

NetworkNext ==
    \/ BodyFetched
    \/ \E id \in DOMAIN page : RequestWillBeSent(id) \/ ResponseReceived(id) \/ LoadingFinished(id)
=============================================================================
