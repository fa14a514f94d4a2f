------------------------------ MODULE Normalize ------------------------------
(***************************************************************************)
(* Path templates of the REST generator (pkg/generate/rest/normalize.go).  *)
(*                                                                         *)
(* A path is the sequence of its segments, "" the empty one; Traits gives  *)
(* the lexical facts the code's regular expressions and word lists tell of *)
(* a segment.  A rendered segment is <<word>> or, for a parameter,         *)
(* <<"{", stem, suffix, n>>: the singular of the word it is named after,   *)
(* the suffix of its kind, and its number among the like-named of a path.  *)
(***************************************************************************)
EXTENDS Naturals, Sequences, FiniteSets, SequencesExt, Functions

CONSTANTS Words,               \* segments, in lexicographic order
          Traits,              \* what each looks like
          Singular,            \* singularize and sanitizeParamName
          MaxPromotionRounds

ASSUME NormalizeConstants ==
    /\ Words \in Seq(STRING)
    /\ DOMAIN Traits = ToSet(Words) /\ "" \in ToSet(Words)
    /\ Singular \in [ToSet(Words) -> ToSet(Words)]
    /\ MaxPromotionRounds \in Nat

isPathPrefix(word) == Traits[word] \cap {"scaffold", "version"} # {}

\* A word of the letters a to f only is no hash.
isShortHexHash(word) == "hex" \in Traits[word] /\ Traits[word] \cap {"digit", "upper hex"} # {}

isBase64Token(word) ==
    /\ "base64" \in Traits[word]
    /\ "punctuation" \in Traits[word] \/ {"upper", "lower", "digit"} \subseteq Traits[word]

classifyParamSegment(word) ==
    LET kinds == <<"uuid", "objectid", "numeric", "shorthex", "base64", "literal">>
        matches(kind) == CASE kind = "shorthex" -> isShortHexHash(word)
                           [] kind = "base64"   -> isBase64Token(word)
                           [] kind = "literal"  -> TRUE
                           [] OTHER             -> kind \in Traits[word]
    IN  IF word = "" \/ "known" \in Traits[word] THEN "literal"
                                                 ELSE SelectSeq(kinds, matches)[1]

\* TLC evaluates a function at each application: this one has been enumerated.
Tabled(f) == CHOOSE g \in {f} : g = g

Kinds(paths) == Tabled([p \in paths |-> [i \in DOMAIN p |-> classifyParamSegment(p[i])]])

\* The shape of a path around position i: parameters are alike, whatever their kind.
Shape(path, kinds, i) ==
    [j \in DOMAIN path \ {i} |-> IF kinds[j] = "literal" THEN path[j] ELSE "{}"]

PositionKey(path, kinds, i) == <<i, Len(path), Shape(path, kinds, i)>>

hasLiteralContext(path, kinds, i) ==
    \E j \in 1..(i - 1) : path[j] # "" /\ kinds[j] = "literal" /\ ~isPathPrefix(path[j])

isObservationCandidate(path, kinds, i) ==
    /\ path[i] # "" /\ kinds[i] = "literal"
    /\ "known" \notin Traits[path[i]]
    /\ hasLiteralContext(path, kinds, i)

\* The segments of a bucket are the candidates at one position of one shape.
Bucket(paths, kinds, key) ==
    {p[key[1]] : p \in {q \in paths : /\ key[1] \in DOMAIN q
                                      /\ isObservationCandidate(q, kinds[q], key[1])
                                      /\ PositionKey(q, kinds[q], key[1]) = key}}

findVaryingPositions(paths, kinds, threshold) ==
    LET keys == UNION {{PositionKey(p, kinds[p], i) :
                          i \in {j \in DOMAIN p : isObservationCandidate(p, kinds[p], j)}} : p \in paths}
    IN  {key \in keys : Cardinality(Bucket(paths, kinds, key)) >= threshold}

\* All promotions of a round are computed from the kinds it started with.
promoteVaryingPositions(paths, kinds, varying) ==
    IF varying = {} THEN kinds
    ELSE Tabled([p \in paths |-> [i \in DOMAIN p |->
            IF isObservationCandidate(p, kinds[p], i) /\ PositionKey(p, kinds[p], i) \in varying
            THEN "slug" ELSE kinds[p][i]]])

\* Until a round promotes nothing, or the rounds are used up.
Promoted(paths, threshold) ==
    FoldLeft(LAMBDA kinds, n : promoteVaryingPositions(paths, kinds, findVaryingPositions(paths, kinds, threshold)),
             Kinds(paths), [n \in 1..MaxPromotionRounds |-> n])

\* Where one path has a slug, the parameters of its bucket are slugs.
unifyMixedKindsAtSamePosition(paths, kinds) ==
    LET slugs == UNION {{PositionKey(p, kinds[p], i) :
                           i \in {j \in DOMAIN p : kinds[p][j] = "slug"}} : p \in paths}
    IN  Tabled([p \in paths |-> [i \in DOMAIN p |->
            IF kinds[p][i] # "literal" /\ PositionKey(p, kinds[p], i) \in slugs
            THEN "slug" ELSE kinds[p][i]]])

suffixForKind(kind) ==
    CASE kind = "base64" -> "Token" [] kind = "slug" -> "Slug" [] OTHER -> "Id"

\* A parameter is named after the nearest literal before it.
contextualParamName(path, kinds, i) ==
    LET named == {j \in 1..(i - 1) : path[j] # "" /\ kinds[j] = "literal"}
        prev == IF named = {} THEN "" ELSE Singular[path[CHOOSE j \in named : \A k \in named : k <= j]]
    IN  <<prev, suffixForKind(kinds[i])>>

\* applyKindsToSegments and deduplicateParamNames.
Rendered(path, kinds) ==
    LET name == [i \in {j \in DOMAIN path : kinds[j] # "literal"} |-> contextualParamName(path, kinds, i)]
        nth(i) == Cardinality({j \in DOMAIN name : j <= i /\ name[j] = name[i]})
    IN  [i \in DOMAIN path |-> IF i \in DOMAIN name THEN <<"{", name[i][1], name[i][2], nth(i)>>
                                                    ELSE <<path[i]>>]

\* opts.merge is MergeSlugs, opts.threshold SlugThreshold.
NormalizePathsWithNames(paths, opts) ==
    LET threshold == IF opts.threshold < 2 THEN 2 ELSE opts.threshold
        kinds == IF opts.merge THEN Promoted(paths, threshold) ELSE Kinds(paths)
        unified == unifyMixedKindsAtSamePosition(paths, kinds)
    IN  Tabled([p \in paths |-> Rendered(p, unified[p])])

extractPathParams(template) == SelectSeq(template, LAMBDA seg : Len(seg) = 4)
=============================================================================
