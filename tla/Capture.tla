------------------------------- MODULE Capture -------------------------------
(***************************************************************************)
(* The observed request every stage of the program exchanges               *)
(* (pkg/crawl/types.go) and the bounds the capture format puts on it       *)
(* (pkg/crawl/capture.go).                                                 *)
(*                                                                         *)
(* A path is a sequence of segments.  A query maps a key to the sequence   *)
(* of its values; keys are numbers, in the lexicographic order of the      *)
(* names they stand for.  A body maps its fields to their values.          *)
(***************************************************************************)
EXTENDS Naturals, Sequences, FiniteSets, SequencesExt

CONSTANTS MaxQueryParamValues,  \* values kept per query key
          MaxQueryParamKeys     \* query keys kept per request

ASSUME QueryCaps == /\ MaxQueryParamValues \in Nat \ {0}
                    /\ MaxQueryParamKeys \in Nat \ {0}

IsSeq(s) == s \in Seq(ToSet(s))

RankIn(i, I) == Cardinality({j \in I : j <= i})

\* The elements of s at the positions I, in the order of s.
Pick(s, I) == [k \in 1..Cardinality(I) |-> s[CHOOSE i \in I : RankIn(i, I) = k]]

\* f with x mapped to v, and f where it is defined, g elsewhere.
With(f, x, v) == [y \in DOMAIN f \cup {x} |-> IF y = x THEN v ELSE f[y]]
Joined(f, g) == [x \in DOMAIN f \cup DOMAIN g |-> IF x \in DOMAIN f THEN f[x] ELSE g[x]]

NoQuery == <<>>
NoBody == <<>>

\* A half-captured request carries the zero response.
NoResponse == [status |-> 0, ctype |-> "", body |-> NoBody]

Observed(method, host, path, query, ctype, body, source, resp) ==
    [method |-> method, host |-> host, path |-> path, query |-> query,
     ctype |-> ctype, body |-> body, source |-> source, resp |-> resp]

\* Mutant: the sources introduced for sourcemaps and concat paths are forgotten.
IsBundleSource(source) == source = "static:js"

IsJSStaticSource(source) ==
    source \in {"static:js", "static:js-sourcemap", "static:js-concat"}

AnyStaticSource(reqs) == \E i \in DOMAIN reqs : IsJSStaticSource(reqs[i].source)

\* Values past the cap are cut per key, then the lexicographically largest
\* keys past the key cap are dropped.
CapQueryValues(q) ==
    LET kept == {k \in DOMAIN q :
                    Cardinality({l \in DOMAIN q : l < k}) < MaxQueryParamKeys}
    IN  [k \in kept |-> SubSeq(q[k], 1, IF Len(q[k]) > MaxQueryParamValues
                                        THEN MaxQueryParamValues ELSE Len(q[k]))]
=============================================================================
