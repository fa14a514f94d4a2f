--------------------------- MODULE JsReplayProofs ---------------------------
(***************************************************************************)
(* What JS replay promises, for every capture, bundle, server and limit.   *)
(*                                                                         *)
(* HeadersStayHome is inductive as it stands: the target origin is a       *)
(* function of the configuration and the capture, which no step changes,   *)
(* and every action that sends asks both gates in the same step.           *)
(*                                                                         *)
(* What the result holds and where the budget went needs ReplayInv: what   *)
(* the scan has found is finite and complete, nothing captured is gone     *)
(* before the end, and each probe counted so far went to a path of its own *)
(* that the gates allow.                                                   *)
(***************************************************************************)
EXTENDS JsReplay, FiniteSetTheorems, SequenceTheorems, TLAPS

\* What HeadersStayHome asks of one exchange.
Home(s) ==
    /\ s.headers <=> s.url.host = TargetOrigin
    /\ cfg.cross \/ s.url.host = TargetOrigin
    /\ cfg.private \/ s.url.host \notin PrivateOrigins

LEMMA HomeIsHeadersStayHome ==
    HeadersStayHome <=> (\A s \in sent : Home(s)) /\ recorded \subseteq sent
BY DEF HeadersStayHome, Home

\* An exchange both gates allow is at home.
LEMMA AllowedIsHome ==
    ASSUME NEW url, cfg.cross \/ SameOrigin(url), PassesSSRF(url)
    PROVE  Home(Exchange(url))
BY DEF Home, Exchange, SameOrigin, PassesSSRF

\* The target origin stays what it was while configuration and capture do.
LEMMA TargetIsFixed ==
    ASSUME UNCHANGED <<cfg, requests>>
    PROVE  TargetOrigin' = TargetOrigin
BY DEF TargetOrigin

LEMMA NothingSent ==
    ASSUME HeadersStayHome, UNCHANGED <<cfg, requests, sent, recorded>>
    PROVE  HeadersStayHome'
BY TargetIsFixed DEF HeadersStayHome

\* One allowed request more, recorded or not.
LEMMA OneSent ==
    ASSUME HeadersStayHome, UNCHANGED <<cfg, requests>>,
           NEW url, cfg.cross \/ SameOrigin(url), PassesSSRF(url), DoRequest(url),
           recorded' = recorded \/ (~expired /\ recorded' = recorded \cup {Exchange(url)})
    PROVE  HeadersStayHome'
<1>1. \A s \in sent \cup {Exchange(url)} : Home(s)
  BY AllowedIsHome, HomeIsHeadersStayHome
<1>2. TargetOrigin' = TargetOrigin /\ cfg' = cfg
  BY TargetIsFixed
<1>3. sent' \subseteq sent \cup {Exchange(url)}
  BY DEF DoRequest
<1>4. \A s \in sent' : /\ s.headers <=> s.url.host = TargetOrigin'
                       /\ cfg'.cross \/ s.url.host = TargetOrigin'
                       /\ cfg'.private \/ s.url.host \notin PrivateOrigins
  BY <1>1, <1>2, <1>3 DEF Home
<1>5. recorded' \subseteq sent'
  BY DEF HeadersStayHome, DoRequest
<1> QED BY <1>4, <1>5 DEF HeadersStayHome

LEMMA HomeInit == Init => HeadersStayHome
BY DEF Init, HeadersStayHome

LEMMA HomeStep == HeadersStayHome /\ [Next]_vars => HeadersStayHome'
<1> SUFFICES ASSUME HeadersStayHome, [Next]_vars PROVE HeadersStayHome'
  OBVIOUS
<1>1. CASE Start \/ ScanCaptured \/ ScanScripts
  BY <1>1, NothingSent DEF Start, ScanCaptured, ScanScripts
<1>2. CASE FetchScript \/ StartProbes \/ Finish \/ Expire
  BY <1>2, NothingSent DEF FetchScript, StartProbes, Finish, Expire
<1>3. CASE FetchHop
  <2>1. UNCHANGED <<cfg, requests, recorded>>
    BY <1>3 DEF FetchHop
  <2>2. CASE ~CanFetchURL(fetch.url)
    <3>1. UNCHANGED sent
      BY <1>3, <2>2 DEF FetchHop
    <3> QED BY <2>1, <3>1, NothingSent
  <2>3. CASE CanFetchURL(fetch.url)
    <3>1. DoRequest(fetch.url)
      BY <1>3, <2>3 DEF FetchHop
    <3> QED BY <2>1, <2>3, <3>1, OneSent DEF CanFetchURL
  <2> QED BY <2>2, <2>3
<1>4. CASE Probe
  <2> DEFINE url == FullURL(Head(queue))
  <2>1. UNCHANGED <<cfg, requests>>
    BY <1>4 DEF Probe
  <2>2. CASE Gated(url)
    <3>1. UNCHANGED <<sent, recorded>>
      BY <1>4, <2>2 DEF Probe
    <3> QED BY <2>1, <3>1, NothingSent
  <2>3. CASE ~Gated(url)
    <3>1. cfg.cross \/ SameOrigin(url)
      BY <2>3 DEF Gated
    <3>2. PassesSSRF(url)
      BY <2>3 DEF Gated
    <3>3. DoRequest(url)
      BY <1>4, <2>3 DEF Probe
    <3>4. recorded' = recorded \/ (~expired /\ recorded' = recorded \cup {Exchange(url)})
      BY <1>4, <2>3 DEF Probe
    <3> HIDE DEF url
    <3> QED BY <2>1, <3>1, <3>2, <3>3, <3>4, OneSent
  <2> QED BY <2>2, <2>3
<1>5. CASE UNCHANGED vars
  BY <1>5, NothingSent DEF vars
<1> QED BY <1>1, <1>2, <1>3, <1>4, <1>5 DEF Next, Replay, Done

\* Whatever bundles hold, wherever servers redirect and whenever the deadline
\* passes, no request leaves past a gate, the user's headers go to the
\* target's origin only, and a request is recorded with the headers it had.
THEOREM HeadersStayHomeAlways == Spec => []HeadersStayHome
BY HomeInit, HomeStep, PTL DEF Spec
-----------------------------------------------------------------------------
(* Selecting the elements of a sequence, and the sets a scan returns.      *)

\* Every k up to Cardinality(I) is the rank of exactly one position in I.
LEMMA Ranking ==
  ASSUME NEW n \in Nat, NEW I \in SUBSET (1..n)
  PROVE  /\ Cardinality(I) \in Nat
         /\ \A k \in 1..Cardinality(I) : \E i \in I : RankIn(i, I) = k
         /\ \A i \in I : RankIn(i, I) \in 1..Cardinality(I)
         /\ \A i, j \in I : RankIn(i, I) = RankIn(j, I) => i = j
<1> DEFINE Upto(i) == {j \in I : j <= i}
           r == [i \in I |-> RankIn(i, I)]
           T == 1..Cardinality(I)
<1>1. IsFiniteSet(I) /\ Cardinality(I) \in Nat
  <2>1. IsFiniteSet(1..n)
    BY FS_Interval
  <2> QED BY <2>1, FS_Subset, FS_CardinalityType
<1>2. ASSUME NEW i \in I
      PROVE  IsFiniteSet(Upto(i)) /\ Cardinality(Upto(i)) \in T
  <2>1. Upto(i) \in SUBSET I /\ i \in Upto(i)
    OBVIOUS
  <2>2. IsFiniteSet(Upto(i)) /\ Cardinality(Upto(i)) <= Cardinality(I)
    BY <1>1, <2>1, FS_Subset
  <2>3. Cardinality(Upto(i)) \in Nat /\ Cardinality(Upto(i)) # 0
    BY <2>1, <2>2, FS_CardinalityType, FS_EmptySet
  <2> QED BY <1>1, <2>2, <2>3
<1>3. ASSUME NEW i \in I, NEW j \in I, i < j
      PROVE  Cardinality(Upto(i)) # Cardinality(Upto(j))
  <2>1. j \in Upto(j) /\ j \notin Upto(i) /\ \A x \in I : x <= i => x <= j
    BY <1>3
  <2>2. Upto(i) \in SUBSET Upto(j) /\ Upto(i) # Upto(j)
    <3>1. Upto(i) \in SUBSET Upto(j)
      BY <2>1
    <3> HIDE DEF Upto
    <3> QED BY <2>1, <3>1
  <2> QED BY <1>2, <2>2, FS_Subset
<1>4. \A i, j \in I : RankIn(i, I) = RankIn(j, I) => i = j
  <2> SUFFICES ASSUME NEW i \in I, NEW j \in I, RankIn(i, I) = RankIn(j, I), i # j
               PROVE  FALSE
    OBVIOUS
  <2>1. i < j \/ j < i
    OBVIOUS
  <2> QED BY <1>3, <2>1 DEF RankIn
<1>5. r \in Injection(I, T)
  BY <1>2, <1>4 DEF RankIn, Injection, IsInjective
<1>6. IsFiniteSet(T) /\ Cardinality(T) = Cardinality(I)
  BY <1>1, FS_Interval
<1>7. r \in Surjection(I, T)
  BY <1>5, <1>6, FS_Injection
<1> QED BY <1>1, <1>2, <1>4, <1>7 DEF RankIn, Surjection

\* Pick returns the elements at the chosen positions and no other.
LEMMA PickElements ==
  ASSUME NEW n \in Nat, NEW I \in SUBSET (1..n), NEW s
  PROVE  /\ Pick(s, I) \in Seq({s[i] : i \in I})
         /\ ToSet(Pick(s, I)) = {s[i] : i \in I}
<1> DEFINE pos(k) == CHOOSE i \in I : RankIn(i, I) = k
<1>1. Cardinality(I) \in Nat
  BY Ranking
<1>2. \A k \in 1..Cardinality(I) : pos(k) \in I
  BY Ranking
<1>3. \A i \in I : RankIn(i, I) \in 1..Cardinality(I) /\ pos(RankIn(i, I)) = i
  BY Ranking
<1>4. Pick(s, I) = [k \in 1..Cardinality(I) |-> s[pos(k)]]
  BY DEF Pick
<1> HIDE DEF pos
<1>5. Pick(s, I) \in [1..Cardinality(I) -> {s[i] : i \in I}]
  BY <1>2, <1>4
<1>6. ToSet(Pick(s, I)) = {s[pos(k)] : k \in 1..Cardinality(I)}
  BY <1>4 DEF ToSet
<1>7. {s[pos(k)] : k \in 1..Cardinality(I)} = {s[i] : i \in I}
  BY <1>2, <1>3
<1>8. Pick(s, I) \in Seq({s[i] : i \in I})
  <2> DEFINE A == {s[i] : i \in I}
             p == Pick(s, I)
  <2>1. p \in [1..Cardinality(I) -> A]
    BY <1>5
  <2> HIDE DEF A, p
  <2>2. p \in Seq(A)
    BY <1>1, <2>1, SeqDef
  <2> QED BY <2>2 DEF A, p
<1> QED BY <1>6, <1>7, <1>8

LEMMA ImageFinite ==
  ASSUME NEW S, IsFiniteSet(S), NEW f
  PROVE  IsFiniteSet({f[x] : x \in S})
<1> DEFINE T == {f[x] : x \in S}
           g == [x \in S |-> f[x]]
<1>1. g \in Surjection(S, T)
  BY DEF Surjection
<1> HIDE DEF T, g
<1>2. IsFiniteSet(T)
  BY <1>1, FS_Surjection
<1> QED BY <1>2 DEF T

LEMMA PositionsFinite ==
  ASSUME NEW src \in Seq(STRING), NEW I \in SUBSET (DOMAIN src)
  PROVE  IsFiniteSet(I)
BY FS_Interval, FS_Subset, LenProperties

LEMMA DistinctFinite ==
  ASSUME NEW n \in Nat, NEW found, DOMAIN found = 1..n
  PROVE  IsFiniteSet(Distinct(found))
<1>1. Distinct(found) \subseteq {found[i] : i \in 1..n}
  BY DEF Distinct
<1>2. IsFiniteSet({found[i] : i \in 1..n})
  <2>1. IsFiniteSet(1..n)
    BY FS_Interval
  <2> QED BY <2>1, ImageFinite
<1> QED BY <1>1, <1>2, FS_Subset

LEMMA PrefixesFinite ==
  ASSUME NEW src \in Seq(STRING)
  PROVE  IsFiniteSet(ServicePrefixes(src))
<1>1. LonePrefixes(src) \in SUBSET (DOMAIN src)
  BY DEF LonePrefixes
<1> DEFINE words == {src[i + 1] : i \in LonePrefixes(src)}
<1>2. IsFiniteSet(words)
  <2> DEFINE next == [i \in LonePrefixes(src) |-> src[i + 1]]
  <2>1. words = {next[i] : i \in LonePrefixes(src)}
    OBVIOUS
  <2>2. IsFiniteSet(LonePrefixes(src))
    BY <1>1, PositionsFinite
  <2> HIDE DEF words, next
  <2> QED BY <2>1, <2>2, ImageFinite
<1>3. IsFiniteSet(CrawledPrefixes)
  <2>1. IsFiniteSet(ToSet(Words))
    <3>1. IsFiniteSet(DOMAIN Words)
      BY ScanConstants, PositionsFinite
    <3> QED BY <3>1, ImageFinite DEF ToSet
  <2> QED BY <2>1, ScanConstants, FS_Subset
<1>4. ServicePrefixes(src) \subseteq words \cup CrawledPrefixes
  <2>1. \A known : StandaloneCandidates(src, known) \subseteq words
    BY DEF StandaloneCandidates
  <2>2. JoinedPrefixes(src) \subseteq words
    BY DEF JoinedPrefixes
  <2> HIDE DEF words
  <2> QED BY <2>1, <2>2 DEF ServicePrefixes
<1>5. IsFiniteSet(words \cup CrawledPrefixes)
  BY <1>2, <1>3, FS_Union
<1> QED BY <1>4, <1>5, FS_Subset

LEMMA ExpansionFinite ==
  ASSUME NEW prefixes, IsFiniteSet(prefixes), NEW raw
  PROVE  IsFiniteSet(ExpandPath(prefixes, raw))
<1> DEFINE path == TrimSlash(IF raw # <<>> /\ raw[1] = "/" THEN raw ELSE <<"/">> \o raw)
           under == [w \in prefixes |-> <<"/", w, "/">> \o Tail(path)]
<1> HIDE DEF path
<1>1. {under[w] : w \in prefixes} = {<<"/", w, "/">> \o Tail(path) : w \in prefixes}
  OBVIOUS
<1>2. IsFiniteSet({<<"/", w, "/">> \o Tail(path) : w \in prefixes})
  <2>1. IsFiniteSet({under[w] : w \in prefixes})
    <3> HIDE DEF under
    <3> QED BY ImageFinite
  <2> QED BY <1>1, <2>1
<1>3. IsFiniteSet({}) /\ IsFiniteSet({path}) /\ IsFiniteSet({TrimSlash(raw)})
  BY FS_EmptySet, FS_Singleton
<1>4. ExpandPath(prefixes, raw) \in
        {{}, {path}, {TrimSlash(raw)}, {<<"/", w, "/">> \o Tail(path) : w \in prefixes}}
  BY DEF ExpandPath, path
<1> QED BY <1>2, <1>3, <1>4

\* A scan finds finitely many paths in a body.
LEMMA PathsFinite ==
  ASSUME NEW src \in Seq(STRING)
  PROVE  IsFiniteSet(ExtractAPIPaths(src))
<1> DEFINE n == Len(src)
           raws == QuotedPaths(src) \cup ExtractTemplateLiteralPaths(src)
                     \cup ExtractConcatPaths(src) \cup ServicePrefixPlusPaths(src)
<1>1. n \in Nat /\ DOMAIN src = 1..n /\ IsFiniteSet(1..n)
  BY LenProperties, FS_Interval
<1>2. IsFiniteSet(QuotedPaths(src))
  <2> DEFINE p == [i \in 1..n |-> Literal(src, i, LiteralEnd(src, i, PathTokens \cup Origins))]
  <2>1. QuotedPaths(src) \subseteq {p[i] : i \in 1..n}
    BY <1>1 DEF QuotedPaths
  <2> HIDE DEF p
  <2>2. IsFiniteSet({p[i] : i \in 1..n})
    BY <1>1, ImageFinite
  <2> QED BY <2>1, <2>2, FS_Subset
<1>3. IsFiniteSet(ExtractTemplateLiteralPaths(src))
  <2> DEFINE p == [i \in 1..n |-> TemplatePath(SubSeq(src, i + 1, TemplateEnd(src, i + 1) - 1))]
  <2>1. ExtractTemplateLiteralPaths(src) \subseteq {p[i] : i \in 1..n}
    BY <1>1 DEF ExtractTemplateLiteralPaths
  <2> HIDE DEF p
  <2>2. IsFiniteSet({p[i] : i \in 1..n})
    BY <1>1, ImageFinite
  <2> QED BY <2>1, <2>2, FS_Subset
<1>4. IsFiniteSet(ExtractConcatPaths(src))
  BY <1>1, DistinctFinite, 2 * n \in Nat DEF ExtractConcatPaths
<1>5. IsFiniteSet(ServicePrefixPlusPaths(src))
  BY <1>1, DistinctFinite DEF ServicePrefixPlusPaths
<1>6. IsFiniteSet(raws)
  BY <1>2, <1>3, <1>4, <1>5, FS_Union
<1> DEFINE expand == [raw \in raws |-> ExpandPath(ServicePrefixes(src), raw)]
           families == {expand[raw] : raw \in raws}
<1>7. IsFiniteSet(families)
  <2> HIDE DEF raws, expand
  <2> QED BY <1>6, ImageFinite
<1>8. \A T \in families : IsFiniteSet(T)
  BY PrefixesFinite, ExpansionFinite
<1>9. ExtractAPIPaths(src) = UNION families
  BY DEF ExtractAPIPaths
<1> HIDE DEF families
<1> QED BY <1>7, <1>8, <1>9, FS_UNION

-----------------------------------------------------------------------------
(* What replay takes away, and what its budget goes to.                    *)

\* The paths no longer queued, and those of them the gates allow.
Tried == paths \ ToSet(queue)
TriedAllowed == {p \in Tried : ~Gated(FullURL(p))}
SentURLs == {s.url : s \in sent}

\* A fetch falls back on a body the scan knows, and nothing is probed or
\* refuted before the probes start.
Scanning ==
    /\ requests \in Seq(ToSet(requests)) /\ source \in Sources
    /\ DOMAIN fetch = {"url", "hop", "fallback", "back"}
    /\ fetch.fallback \in DOMAIN PathsOf /\ fetch.back \in {"start", "captured", "scripts"}
    /\ step = "fetch" => fetch.back # "start"
    /\ IsFiniteSet(paths) /\ probed \in 0..MaxEndpoints
    /\ step \notin {"probe", "done"} => probed = 0 /\ refuted = {}
    /\ step = "start" => paths = {}

\* Until Finish nothing captured is gone, and a 404 came from a probe.
NothingLostYet ==
    /\ refuted \subseteq {ReachedPathKey(s.url) : s \in sent}
    /\ step = "probe" => /\ result \in Seq(ToSet(result))
                         /\ ToSet(requests) \subseteq ToSet(result)

\* As long as the deadline has not passed, the budget spent is the number of
\* allowed paths taken off the queue, each of which was sent.
SpentOnAllowed ==
    step = "probe" =>
        /\ queue \in Seq(paths) /\ IsInjective(queue)
        /\ ~expired => probed = Cardinality(TriedAllowed)
                         /\ \A p \in TriedAllowed : FullURL(p) \in SentURLs

ReplayInv == Scanning /\ NothingLostYet /\ SpentOnAllowed /\ ReplayIsAdditive /\ BudgetForTheAllowed

LEMMA BodiesFinite ==
    /\ \A body \in DOMAIN PathsOf : IsFiniteSet(PathsOf[body])
    /\ <<>> \in DOMAIN PathsOf
    /\ \A src \in Sources : {src, CutBody(src)} \subseteq DOMAIN PathsOf
<1>1. DOMAIN PathsOf = Sources \cup {CutBody(s) : s \in Sources} \cup {<<>>}
  BY DEF PathsOf
<1>2. \A src \in Sources : src \in Seq(STRING) /\ CutBody(src) \in Seq(STRING)
  <2> TAKE src \in Sources
  <2>1. src \in Seq(STRING) /\ Len(src) \in Nat
    BY ReplayConstants, LenProperties
  <2>2. Len(src) \div 2 \in Int /\ Len(src) \div 2 <= Len(src)
    BY <2>1
  <2>3. \A i \in 1..(Len(src) \div 2) : src[i] \in STRING
    BY <2>1, <2>2, ElementOfSeq
  <2> QED BY <2>1, <2>2, <2>3, SubSeqProperties DEF CutBody
<1>3. \A body \in DOMAIN PathsOf : body \in Seq(STRING)
  BY <1>1, <1>2, EmptySeq
<1>4. \A body \in DOMAIN PathsOf : PathsOf[body] = ExtractAPIPaths(body)
  BY DEF PathsOf
<1> QED BY <1>1, <1>3, <1>4, PathsFinite

LEMMA ReplayInit == Init => ReplayInv
<1> SUFFICES ASSUME Init PROVE ReplayInv
  OBVIOUS
<1>1. PICK in \in Inputs : requests = in.capture /\ source = in.source
  BY DEF Init
<1>2. requests \in Seq(ToSet(requests)) /\ source \in Sources
  BY <1>1, ReplayConstants
<1>3. /\ DOMAIN fetch = {"url", "hop", "fallback", "back"}
      /\ fetch.fallback = <<>> /\ fetch.back = "start" /\ step = "start"
  BY DEF Init, NoFetch
<1>4. IsFiniteSet(paths) /\ probed \in 0..MaxEndpoints /\ probed = 0 /\ refuted = {} /\ paths = {}
  <2>1. 0 \in 0..MaxEndpoints
    <3>1. MaxEndpoints \in Nat
      BY ReplayConstants
    <3> QED BY <3>1
  <2>2. paths = {} /\ probed = 0 /\ refuted = {}
    BY DEF Init
  <2> QED BY <2>1, <2>2, FS_EmptySet
<1>5. Scanning
  BY <1>2, <1>3, <1>4, BodiesFinite DEF Scanning
<1> QED BY <1>5 DEF Init, ReplayInv, NothingLostYet, SpentOnAllowed, ReplayIsAdditive,
                   BudgetForTheAllowed, Scanning

\* Where the gates stand and what a path stands for, while nothing moves them.
LEMMA GatesAreFixed ==
    ASSUME UNCHANGED <<cfg, requests, expired>>
    PROVE  \A p : FullURL(p)' = FullURL(p) /\ (Gated(FullURL(p))' <=> Gated(FullURL(p)))
BY TargetIsFixed DEF FullURL, Gated, SameOrigin, PassesSSRF

LEMMA ScanSteps ==
    ASSUME ReplayInv, ScanCaptured \/ ScanScripts \/ FetchScript \/ FetchHop
    PROVE  ReplayInv'
<1>1. /\ UNCHANGED <<cfg, requests, source, probed, refuted>>
      /\ step \notin {"probe", "done"}
  BY DEF ScanCaptured, ScanScripts, FetchScript, FetchHop
<1>2. step' \notin {"probe", "done", "start"}
  <2>1. CASE ScanCaptured \/ ScanScripts \/ FetchScript
    BY <2>1, <1>1 DEF ScanCaptured, ScanScripts, FetchScript
  <2>2. CASE FetchHop
    BY <2>2, <1>1 DEF FetchHop, Process, ReplayInv, Scanning
  <2> QED BY <2>1, <2>2
<1>3. /\ DOMAIN fetch' = {"url", "hop", "fallback", "back"}
      /\ fetch'.fallback \in DOMAIN PathsOf
      /\ fetch'.back \in {"start", "captured", "scripts"}
      /\ IsFiniteSet(paths')
  <2> USE DEF ReplayInv, Scanning
  <2>1. CASE ScanCaptured
    <3> DEFINE r == requests[at]
               body == IF r.resp.body = NoBody THEN <<>> ELSE source
               prefix == IF r.resp.body = <<"cut">> THEN CutBody(source) ELSE body
    <3>1. {body, prefix} \subseteq DOMAIN PathsOf
      BY BodiesFinite
    <3>2. \/ UNCHANGED <<fetch, paths>>
          \/ paths' = paths \cup PathsOf[body] /\ UNCHANGED fetch
          \/ /\ fetch' = [url |-> URLOf(r), hop |-> 0, fallback |-> prefix, back |-> "captured"]
             /\ UNCHANGED paths
      BY <2>1 DEF ScanCaptured
    <3> HIDE DEF r, body, prefix
    <3>3. IsFiniteSet(paths \cup PathsOf[body])
      BY <3>1, BodiesFinite, FS_Union
    <3>4. CASE UNCHANGED fetch
      BY <3>2, <3>3, <3>4
    <3>5. CASE UNCHANGED paths /\ fetch' = [url |-> URLOf(r), hop |-> 0, fallback |-> prefix,
                                            back |-> "captured"]
      BY <3>1, <3>5
    <3> QED BY <3>2, <3>4, <3>5
  <2>2. CASE ScanScripts
    BY <2>2 DEF ScanScripts
  <2>3. CASE FetchScript
    BY <2>3, BodiesFinite DEF FetchScript
  <2>4. CASE FetchHop
    <3>1. ASSUME NEW b \in DOMAIN PathsOf, Process(b)
          PROVE  fetch' = NoFetch /\ IsFiniteSet(paths')
      <4>1. IsFiniteSet(paths \cup PathsOf[b])
        BY BodiesFinite, FS_Union
      <4> QED BY <3>1, <4>1 DEF Process
    <3>2. ServedBody(fetch.url) \in DOMAIN PathsOf
      BY BodiesFinite, ReplayConstants DEF ServedBody
    <3>3. \/ \E b \in DOMAIN PathsOf : Process(b)
          \/ \E url \in RedirectTargets : fetch' = Follow(url) /\ UNCHANGED paths
      BY <2>4, <3>2, BodiesFinite DEF FetchHop
    <3>4. CASE \E b \in DOMAIN PathsOf : Process(b)
      <4>1. fetch' = NoFetch /\ IsFiniteSet(paths')
        BY <3>1, <3>4
      <4> QED BY <4>1, BodiesFinite DEF NoFetch
    <3>5. CASE \E url \in RedirectTargets : fetch' = Follow(url) /\ UNCHANGED paths
      BY <3>5 DEF Follow
    <3> QED BY <3>3, <3>4, <3>5
  <2> QED BY <2>1, <2>2, <2>3, <2>4
<1>4. step' = "fetch" => fetch'.back # "start"
  <2>1. CASE ScanCaptured \/ ScanScripts \/ FetchScript
    BY <2>1 DEF ScanCaptured, ScanScripts, FetchScript
  <2>2. CASE FetchHop
    BY <2>2 DEF FetchHop, Process, Follow, ReplayInv, Scanning
  <2> QED BY <2>1, <2>2
<1>5. Scanning'
  BY <1>1, <1>2, <1>3, <1>4 DEF ReplayInv, Scanning, PathsOf
<1>6. ReplayIsAdditive'
  BY <1>2 DEF ReplayIsAdditive
<1>7. BudgetForTheAllowed'
  BY <1>1, <1>2 DEF ReplayInv, BudgetForTheAllowed
<1>8. NothingLostYet' /\ SpentOnAllowed'
  <2>1. sent \subseteq sent' /\ refuted' = {}
    BY <1>1 DEF ScanCaptured, ScanScripts, FetchScript, FetchHop, DoRequest, ReplayInv, Scanning
  <2> QED BY <1>2, <2>1 DEF NothingLostYet, SpentOnAllowed
<1> QED BY <1>5, <1>6, <1>7, <1>8 DEF ReplayInv

LEMMA StartStep ==
    ASSUME ReplayInv, Start
    PROVE  ReplayInv'
<1>1. /\ UNCHANGED <<cfg, requests, source, fetch, paths, queue, probed, refuted, sent>>
      /\ step = "start" /\ step' \in {"done", "captured"}
      /\ step' = "done" => result' = requests
  BY DEF Start
<1>2. refuted = {} /\ probed = 0
  BY <1>1 DEF ReplayInv, Scanning
<1>3. Scanning' /\ NothingLostYet' /\ SpentOnAllowed'
  BY <1>1, <1>2 DEF ReplayInv, Scanning, NothingLostYet, SpentOnAllowed, PathsOf
<1>4. ReplayIsAdditive'
  BY <1>1, <1>2 DEF ReplayIsAdditive, ToSet
<1>5. BudgetForTheAllowed'
  <2>1. paths' = {} /\ probed' = 0 /\ MaxEndpoints \in Nat
    BY <1>1, <1>2, ReplayConstants DEF ReplayInv, Scanning
  <2> QED BY <2>1 DEF BudgetForTheAllowed
<1> QED BY <1>3, <1>4, <1>5 DEF ReplayInv

LEMMA SetToSeqOrders ==
  ASSUME NEW S, IsFiniteSet(S)
  PROVE  /\ SetToSeq(S) \in Seq(S) /\ IsInjective(SetToSeq(S))
         /\ ToSet(SetToSeq(S)) = S
<1> DEFINE n == Cardinality(S)
<1>1. n \in Nat /\ IsFiniteSet(1..n) /\ Cardinality(1..n) = n
  BY FS_CardinalityType, FS_Interval
<1>2. \E f \in [1..n -> S] : IsInjective(f)
  BY FS_CardinalityType DEF ExistsBijection, Bijection, Injection
<1>3. SetToSeq(S) \in [1..n -> S] /\ IsInjective(SetToSeq(S))
  BY <1>2 DEF SetToSeq
<1>4. SetToSeq(S) \in Injection(1..n, S)
  BY <1>3 DEF Injection
<1>5. SetToSeq(S) \in Surjection(1..n, S)
  BY <1>1, <1>4, FS_Injection
<1>6. SetToSeq(S) \in Seq(S)
  <2> HIDE DEF n
  <2> QED BY <1>1, <1>3, SeqDef
<1> QED BY <1>3, <1>5, <1>6 DEF ToSet, Surjection

LEMMA StartProbesStep ==
    ASSUME ReplayInv, StartProbes
    PROVE  ReplayInv'
<1>1. /\ UNCHANGED <<cfg, requests, source, fetch, paths, probed, refuted, sent, expired>>
      /\ step = "scripts" /\ step' = IF paths = {} THEN "done" ELSE "probe"
      /\ queue' = SetToSeq(paths) /\ result' = requests
  BY DEF StartProbes
<1>2. refuted = {} /\ probed = 0 /\ IsFiniteSet(paths) /\ requests \in Seq(ToSet(requests))
  BY <1>1 DEF ReplayInv, Scanning
<1>3. Scanning'
  BY <1>1, <1>2 DEF ReplayInv, Scanning, PathsOf
<1>4. NothingLostYet'
  BY <1>1, <1>2 DEF NothingLostYet
<1>5. SpentOnAllowed'
  <2>1. queue' \in Seq(paths) /\ IsInjective(queue') /\ ToSet(queue') = paths
    BY <1>1, <1>2, SetToSeqOrders
  <2>2. TriedAllowed' = {}
    BY <1>1, <2>1 DEF TriedAllowed, Tried
  <2> QED BY <1>1, <1>2, <2>1, <2>2, FS_EmptySet DEF SpentOnAllowed
<1>6. ReplayIsAdditive'
  BY <1>1, <1>2 DEF ReplayIsAdditive, ToSet
<1>7. BudgetForTheAllowed'
  <2>1. MaxEndpoints \in Nat
    BY ReplayConstants
  <2> QED BY <1>1, <1>2, <2>1 DEF BudgetForTheAllowed
<1> QED BY <1>3, <1>4, <1>5, <1>6, <1>7 DEF ReplayInv

LEMMA ExpireStep ==
    ASSUME ReplayInv, Expire
    PROVE  ReplayInv'
<1>1. /\ UNCHANGED <<cfg, requests, source, step, fetch, paths, queue, probed, refuted, result, sent>>
      /\ step # "done" /\ expired'
  BY DEF Expire
<1>2. Scanning' /\ NothingLostYet'
  BY <1>1 DEF ReplayInv, Scanning, NothingLostYet, PathsOf
<1>3. SpentOnAllowed'
  BY <1>1 DEF ReplayInv, SpentOnAllowed
<1>4. ReplayIsAdditive' /\ BudgetForTheAllowed'
  BY <1>1 DEF ReplayInv, ReplayIsAdditive, BudgetForTheAllowed
<1> QED BY <1>2, <1>3, <1>4 DEF ReplayInv

LEMMA ReplayStutters ==
    ASSUME ReplayInv, UNCHANGED vars
    PROVE  ReplayInv'
<1>1. UNCHANGED <<cfg, requests, source, step, fetch, paths, queue, probed, refuted, result, sent,
                  expired>>
  BY DEF vars
<1>2. Scanning' /\ NothingLostYet'
  BY <1>1 DEF ReplayInv, Scanning, NothingLostYet, PathsOf
<1>3. SpentOnAllowed'
  <2>1. TriedAllowed' = TriedAllowed
    BY <1>1, GatesAreFixed DEF TriedAllowed, Tried
  <2> QED BY <1>1, <2>1, GatesAreFixed DEF ReplayInv, SpentOnAllowed, SentURLs
<1>4. ReplayIsAdditive'
  BY <1>1 DEF ReplayInv, ReplayIsAdditive
<1>5. BudgetForTheAllowed'
  BY <1>1, GatesAreFixed DEF ReplayInv, BudgetForTheAllowed, Allowed, Reached
<1> QED BY <1>2, <1>3, <1>4, <1>5 DEF ReplayInv

\* Taking the head off a queue without repetitions.
LEMMA HeadLeaves ==
  ASSUME NEW S, NEW q \in Seq(S), q # <<>>, IsInjective(q)
  PROVE  /\ Head(q) \in S /\ Tail(q) \in Seq(S) /\ IsInjective(Tail(q))
         /\ Head(q) \in ToSet(q) /\ ToSet(Tail(q)) = ToSet(q) \ {Head(q)}
<1>1. /\ Len(q) \in Nat \ {0} /\ DOMAIN q = 1..Len(q) /\ Head(q) = q[1]
      /\ Head(q) \in S /\ Tail(q) \in Seq(S)
      /\ Len(Tail(q)) = Len(q) - 1
      /\ \A i \in 1..Len(Tail(q)) : Tail(q)[i] = q[i + 1]
  BY EmptySeq, LenProperties, HeadTailProperties
<1>2. DOMAIN Tail(q) = 1..(Len(q) - 1)
  BY <1>1, LenProperties
<1>3. \A i, j \in 1..Len(q) : q[i] = q[j] => i = j
  BY <1>1 DEF IsInjective
<1>4. \A i \in 1..(Len(q) - 1) : Tail(q)[i] = q[i + 1] /\ i + 1 \in 1..Len(q) /\ i + 1 # 1
  BY <1>1
<1>5. IsInjective(Tail(q))
  BY <1>1, <1>2, <1>3, <1>4 DEF IsInjective
<1>6. \A j \in 1..Len(q) : j # 1 => j - 1 \in 1..(Len(q) - 1) /\ q[j] = Tail(q)[j - 1]
  BY <1>1
<1>7. Head(q) \in ToSet(q)
  BY <1>1 DEF ToSet
<1>8. ToSet(Tail(q)) \subseteq ToSet(q) \ {Head(q)}
  BY <1>1, <1>2, <1>3, <1>4 DEF ToSet
<1>9. ToSet(q) \ {Head(q)} \subseteq ToSet(Tail(q))
  <2> SUFFICES ASSUME NEW x \in ToSet(q), x # Head(q)
               PROVE  x \in ToSet(Tail(q))
    OBVIOUS
  <2>1. PICK j \in 1..Len(q) : x = q[j]
    BY <1>1 DEF ToSet
  <2>2. j # 1
    BY <1>1, <2>1
  <2>3. j - 1 \in DOMAIN Tail(q) /\ x = Tail(q)[j - 1]
    BY <1>2, <1>6, <2>1, <2>2
  <2> QED BY <2>3 DEF ToSet
<1> QED BY <1>1, <1>5, <1>7, <1>8, <1>9

LEMMA ProbeStep ==
    ASSUME ReplayInv, Probe
    PROVE  ReplayInv'
<1> DEFINE p == Head(queue)
           url == FullURL(p)
<1>1. /\ UNCHANGED <<cfg, requests, source, step, fetch, paths, expired>>
      /\ step = "probe" /\ queue # <<>> /\ probed < MaxEndpoints
      /\ queue' = Tail(queue) /\ probed' = Spent(url)
  BY DEF Probe
<1>2. /\ queue \in Seq(paths) /\ IsInjective(queue) /\ IsFiniteSet(paths)
      /\ MaxEndpoints \in Nat /\ probed \in 0..MaxEndpoints
      /\ result \in Seq(ToSet(result)) /\ ToSet(requests) \subseteq ToSet(result)
  BY <1>1, ReplayConstants DEF ReplayInv, SpentOnAllowed, Scanning, NothingLostYet
<1>3. /\ p \in paths /\ Tail(queue) \in Seq(paths) /\ IsInjective(Tail(queue))
      /\ p \in ToSet(queue) /\ ToSet(Tail(queue)) = ToSet(queue) \ {p}
  BY <1>1, <1>2, HeadLeaves
<1>4. Tried' = Tried \cup {p} /\ p \notin Tried
  BY <1>1, <1>3 DEF Tried
<1>5. TriedAllowed' = IF Gated(url) THEN TriedAllowed ELSE TriedAllowed \cup {p}
  BY <1>1, <1>4, GatesAreFixed DEF TriedAllowed
<1>6. p \notin TriedAllowed /\ TriedAllowed \subseteq paths
  BY <1>4 DEF TriedAllowed, Tried
<1>7. IsFiniteSet(TriedAllowed)
  BY <1>2, <1>6, FS_Subset
<1> HIDE DEF p, url
<1>8. CASE Gated(url)
  <2>1. UNCHANGED <<refuted, result, sent, probed>>
    BY <1>1, <1>8 DEF Probe, url, p, Spent
  <2>2. Scanning' /\ NothingLostYet'
    BY <1>1, <2>1 DEF ReplayInv, Scanning, NothingLostYet, PathsOf
  <2>3. SpentOnAllowed'
    BY <1>1, <1>2, <1>3, <1>5, <1>8, <2>1, GatesAreFixed DEF ReplayInv, SpentOnAllowed, SentURLs
  <2>4. ReplayIsAdditive' /\ BudgetForTheAllowed'
    BY <1>1, <1>2, <2>1 DEF ReplayIsAdditive, BudgetForTheAllowed
  <2> QED BY <2>2, <2>3, <2>4 DEF ReplayInv
<1>9. CASE ~Gated(url)
  <2>1. probed' = probed + 1 /\ DoRequest(url)
    BY <1>1, <1>9 DEF Probe, url, p, Spent
  <2>2. /\ sent \subseteq sent'
        /\ ~expired => \E s \in sent' : s.url = url
    <3>1. Exchange(url).url = url
      BY DEF Exchange
    <3> QED BY <2>1, <3>1 DEF DoRequest
  <2>3. \/ UNCHANGED <<refuted, result>>
        \/ ~expired /\ refuted' = refuted \cup {ReachedPathKey(url)} /\ UNCHANGED result
        \/ ~expired /\ result' = Append(result, Extracted(url)) /\ UNCHANGED refuted
    BY <1>1, <1>9 DEF Probe, url, p
  <2>4. Scanning'
    BY <1>1, <1>2, <2>1 DEF ReplayInv, Scanning, PathsOf
  <2>5. refuted' \subseteq {ReachedPathKey(s.url) : s \in sent'}
    BY <2>2, <2>3 DEF ReplayInv, NothingLostYet
  <2>6. result' \in Seq(ToSet(result')) /\ ToSet(requests) \subseteq ToSet(result')
    <3>1. CASE UNCHANGED result
      BY <1>2, <3>1
    <3>2. CASE result' = Append(result, Extracted(url))
      <4> DEFINE A == ToSet(result) \cup {Extracted(url)}
      <4>1. result \in Seq(A) /\ Extracted(url) \in A
        BY <1>2, SeqMonotonic
      <4> HIDE DEF A
      <4>2. /\ Append(result, Extracted(url)) \in Seq(A)
            /\ Len(Append(result, Extracted(url))) = Len(result) + 1
            /\ \A i \in 1..Len(result) : Append(result, Extracted(url))[i] = result[i]
            /\ Append(result, Extracted(url))[Len(result) + 1] = Extracted(url)
        BY <4>1, AppendProperties
      <4>3. /\ Len(result) \in Nat /\ DOMAIN result = 1..Len(result)
            /\ DOMAIN result' = 1..(Len(result) + 1)
        BY <3>2, <4>1, <4>2, LenProperties
      <4>4. ToSet(result) \subseteq ToSet(result') /\ Extracted(url) \in ToSet(result')
        BY <3>2, <4>2, <4>3 DEF ToSet
      <4>5. result' \in Seq(ToSet(result'))
        BY <3>2, <4>2, <4>4, SeqMonotonic DEF A
      <4> QED BY <1>2, <4>4, <4>5
    <3> QED BY <2>3, <3>1, <3>2
  <2>7. NothingLostYet'
    BY <1>1, <2>5, <2>6 DEF NothingLostYet
  <2>8. SpentOnAllowed'
    <3>1. ASSUME ~expired
          PROVE  probed' = Cardinality(TriedAllowed')
      BY <1>1, <1>5, <1>6, <1>7, <1>9, <2>1, <3>1, FS_AddElement DEF ReplayInv, SpentOnAllowed
    <3>2. ASSUME ~expired, NEW q \in TriedAllowed'
          PROVE  FullURL(q)' \in SentURLs'
      <4>1. FullURL(q)' = FullURL(q)
        BY <1>1, GatesAreFixed
      <4>2. CASE q = p
        BY <2>2, <3>2, <4>1, <4>2 DEF url, SentURLs
      <4>3. CASE q \in TriedAllowed
        BY <1>1, <2>2, <3>2, <4>1, <4>3 DEF ReplayInv, SpentOnAllowed, SentURLs
      <4> QED BY <1>5, <1>9, <3>2, <4>2, <4>3
    <3> QED BY <1>1, <1>3, <3>1, <3>2 DEF SpentOnAllowed
  <2>9. ReplayIsAdditive' /\ BudgetForTheAllowed'
    BY <1>1, <1>2, <2>1 DEF ReplayIsAdditive, BudgetForTheAllowed
  <2> QED BY <2>4, <2>7, <2>8, <2>9 DEF ReplayInv
<1> QED BY <1>8, <1>9

LEMMA FinishStep ==
    ASSUME ReplayInv, Finish
    PROVE  ReplayInv'
<1>1. /\ UNCHANGED <<cfg, requests, source, fetch, paths, queue, probed, refuted, sent, expired>>
      /\ step = "probe" /\ step' = "done" /\ (queue = <<>> \/ probed >= MaxEndpoints)
      /\ result' = Supersede(result)
  BY DEF Finish
<1>2. /\ queue \in Seq(paths) /\ IsFiniteSet(paths)
      /\ MaxEndpoints \in Nat /\ probed \in 0..MaxEndpoints
      /\ result \in Seq(ToSet(result)) /\ ToSet(requests) \subseteq ToSet(result)
      /\ refuted \subseteq {ReachedPathKey(s.url) : s \in sent}
  BY <1>1, ReplayConstants DEF ReplayInv, SpentOnAllowed, Scanning, NothingLostYet
<1>3. Scanning' /\ NothingLostYet' /\ SpentOnAllowed'
  BY <1>1, <1>2 DEF ReplayInv, Scanning, NothingLostYet, SpentOnAllowed, PathsOf
<1>4. ReplayIsAdditive'
  <2> DEFINE stays(r) == r.source = "static:js-concat" => ReachedPathKey(URLOf(r)) \notin refuted
             I == {i \in DOMAIN result : stays(result[i])}
  <2>1. Len(result) \in Nat /\ DOMAIN result = 1..Len(result)
    BY <1>2, LenProperties
  <2>2. result' = Pick(result, I)
    BY <1>1 DEF Supersede
  <2>3. I \in SUBSET (1..Len(result))
    BY <2>1
  <2>4. ToSet(result') = {result[i] : i \in I}
    <3> HIDE DEF I
    <3> QED BY <2>1, <2>2, <2>3, PickElements
  <2>5. \A r \in ToSet(result) : r \in ToSet(result') <=> stays(r)
    BY <2>4 DEF ToSet
  <2>6. \A r \in ToSet(result') : stays(r)
    BY <2>4
  <2>7. \A i \in DOMAIN requests : requests[i] \in ToSet(result)
    BY <1>2 DEF ToSet
  <2>8. \A i \in DOMAIN result' : result'[i] \in ToSet(result')
    BY DEF ToSet
  <2> HIDE DEF I
  <2> QED BY <1>1, <1>2, <2>5, <2>6, <2>7, <2>8 DEF ReplayIsAdditive, ReachedPathKey, URLOf
<1>5. BudgetForTheAllowed'
  <2>1. IsFiniteSet(Allowed) /\ IsFiniteSet(Reached)
    BY <1>2, FS_Subset DEF Allowed, Reached
  <2>2. Cardinality(Allowed) \in Nat /\ Cardinality(Reached) \in Nat
    BY <2>1, FS_CardinalityType
  <2>3. ASSUME ~expired
        PROVE  Cardinality(Reached) >= IF Cardinality(Allowed) < MaxEndpoints
                                       THEN Cardinality(Allowed) ELSE MaxEndpoints
    <3>1. probed = Cardinality(TriedAllowed) /\ \A p \in TriedAllowed : FullURL(p) \in SentURLs
      BY <1>1, <2>3 DEF ReplayInv, SpentOnAllowed
    <3>2. TriedAllowed \subseteq Reached
      BY <3>1 DEF TriedAllowed, Tried, Allowed, Reached, SentURLs
    <3>3. CASE queue = <<>>
      <4>1. TriedAllowed = Allowed
        BY <3>3 DEF TriedAllowed, Tried, ToSet, Allowed
      <4>2. Reached = Allowed
        BY <3>2, <4>1 DEF Reached
      <4> QED BY <1>2, <2>2, <4>2
    <3>4. CASE probed >= MaxEndpoints
      <4>1. Cardinality(TriedAllowed) <= Cardinality(Reached)
        BY <2>1, <3>2, FS_Subset
      <4> QED BY <1>2, <2>2, <3>1, <3>4, <4>1
    <3> QED BY <1>1, <3>3, <3>4
  <2>4. Allowed' = Allowed /\ Reached' = Reached
    BY <1>1, GatesAreFixed DEF Allowed, Reached
  <2> QED BY <1>1, <1>2, <2>3, <2>4 DEF BudgetForTheAllowed
<1> QED BY <1>3, <1>4, <1>5 DEF ReplayInv

LEMMA ReplayStep == ReplayInv /\ [Next]_vars => ReplayInv'
<1> SUFFICES ASSUME ReplayInv, [Next]_vars PROVE ReplayInv'
  OBVIOUS
<1> QED BY StartStep, ScanSteps, StartProbesStep, ProbeStep, FinishStep, ExpireStep, ReplayStutters
           DEF Next, Replay, Done

LEMMA ReplayInvariant == Spec => []ReplayInv
BY ReplayInit, ReplayStep, PTL DEF Spec

\* Replay takes nothing away but reconstructed requests the target refuted
\* with a 404 to a probe it really sent.
THEOREM ReplayOnlyAdds == Spec => []ReplayIsAdditive
<1>1. ReplayInv => ReplayIsAdditive
  BY DEF ReplayInv
<1> QED BY <1>1, ReplayInvariant, PTL

\* Whatever number of paths the gates refuse, and wherever they stand in the
\* queue, the budget goes to paths they allow.
THEOREM BudgetIsForTheAllowed == Spec => []BudgetForTheAllowed
<1>1. ReplayInv => BudgetForTheAllowed
  BY DEF ReplayInv
<1> QED BY <1>1, ReplayInvariant, PTL

=============================================================================
