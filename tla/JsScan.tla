------------------------------- MODULE JsScan -------------------------------
(***************************************************************************)
(* The lexical scanners of JS replay (pkg/crawl/jsreplay.go) and the API   *)
(* paths they recover from a bundle.                                       *)
(*                                                                         *)
(* A bundle is a sequence of tokens: words, origins, punctuation, and the  *)
(* tokens "quote" (a ' or "), "tick" (a backtick), "esc" (a backslash),    *)
(* "nl" (a line break), "${" and ".concat(".  The scanners count tokens    *)
(* where the code counts bytes.  A path is a sequence of words and "/"     *)
(* tokens, a full URL starts with its origin.  Position 0 stands for not   *)
(* found.  Query strings are left out.                                     *)
(***************************************************************************)
EXTENDS Naturals, Sequences, FiniteSets, SequencesExt

CONSTANTS MaxConcatArgList,       \* scan of a .concat argument list
          MaxConcatChainSpan,     \* scan of a +-chain
          MaxConcatChainOperands, \* operands of a +-chain
          MaxConcatPaths,         \* reconstructed paths per bundle
          MaxBundlePrefixes,      \* service prefixes per bundle
          Words,                  \* path words, lexicographically ordered
          CrawledPrefixes,        \* prefixes read off URLs the crawler found
          Origins,                \* origins a full URL may have
          CredentialOrigins       \* the ones with embedded credentials

ASSUME ScanConstants ==
    /\ {MaxConcatArgList, MaxConcatChainSpan, MaxConcatChainOperands, MaxConcatPaths,
        MaxBundlePrefixes} \subseteq Nat \ {0}
    /\ Words \in Seq(STRING) /\ CrawledPrefixes \subseteq ToSet(Words)
    /\ CredentialOrigins \subseteq Origins

Sentinel0 == "0"        \* ConcatPathSentinel
Param == "{param}"
Blank == {" ", "nl"}
Quotes == {"quote", "tick"}
PathTokens == ToSet(Words) \cup {"/", "api"}

-----------------------------------------------------------------------------
(* Scanners.                                                               *)

\* The backtick that closes the template literal opened before start.  A nested
\* literal inside a substitution is skipped as a whole.
TemplateEnd(src, start) ==
    LET end[i \in 1..(Len(src) + 2), depth \in 0..Len(src)] ==
          IF i > Len(src) THEN 0
          ELSE CASE src[i] = "esc"               -> end[i + 2, depth]
                 [] src[i] = "tick" /\ depth = 0   -> i
                 [] src[i] = "tick" /\ depth > 0   ->
                       LET nested == end[i + 1, 0]
                       IN  IF nested = 0 THEN 0 ELSE end[nested + 1, depth]
                 [] src[i] = "${" \/ (src[i] = "{" /\ depth > 0) -> end[i + 1, depth + 1]
                 [] src[i] = "}" /\ depth > 0   -> end[i + 1, depth - 1]
                 [] OTHER                       -> end[i + 1, depth]
    IN  end[start, 0]

\* The quote that closes the one at i; a line break ends the search.
StringEnd(src, i) ==
    LET end[j \in 1..(Len(src) + 2)] ==
          IF j > Len(src) \/ src[j] = "nl" THEN 0
          ELSE IF src[j] = "esc" /\ j < Len(src) THEN end[j + 2]
          ELSE IF src[j] = src[i] THEN j ELSE end[j + 1]
    IN  IF src[i] = "tick" THEN TemplateEnd(src, i + 1) ELSE end[i + 1]

\* Nesting of the three kinds of bracket; a stray closing bracket is ignored.
Flat == [round |-> 0, square |-> 0, curly |-> 0]
Nesting(src) == [{"round", "square", "curly"} -> 0..Len(src)]
Shut(n) == IF n > 0 THEN n - 1 ELSE 0

\* Mutant: only the round brackets are counted.
NestRound(d, t) ==
    CASE t \in {"(", ".concat("} -> [d EXCEPT !.round = @ + 1]
      [] t = ")"                 -> [d EXCEPT !.round = Shut(@)]
      [] OTHER                   -> d

Nest(d, t) ==
    CASE t \in {"(", ".concat("} -> [d EXCEPT !.round = @ + 1]
      [] t = ")"                 -> [d EXCEPT !.round = Shut(@)]
      [] t = "["                 -> [d EXCEPT !.square = @ + 1]
      [] t = "]"                 -> [d EXCEPT !.square = Shut(@)]
      [] t \in {"{", "${"}       -> [d EXCEPT !.curly = @ + 1]
      [] t = "}"                 -> [d EXCEPT !.curly = Shut(@)]
      [] OTHER                   -> d

Clamp(src, start, span) == SubSeq(src, 1, IF start + span <= Len(src) THEN start + span - 1
                                          ELSE Len(src))

\* The ")" that closes the argument list starting at start.
ArgListEnd(src, start) ==
    LET body == Clamp(src, start, MaxConcatArgList)
        end[i \in 1..(Len(src) + 1), d \in Nesting(src)] ==
          IF i > Len(body) THEN 0
          ELSE IF body[i] \in Quotes
               THEN LET e == StringEnd(body, i) IN IF e = 0 THEN 0 ELSE end[e + 1, d]
          ELSE IF body[i] = ")" /\ d = Flat THEN i
          ELSE end[i + 1, Nest(d, body[i])]
    IN  end[start, Flat]

\* The commas that separate arguments; an unterminated literal hides the rest.
TopCommas(args) ==
    LET commas[i \in 1..(Len(args) + 1), d \in Nesting(args)] ==
          IF i > Len(args) THEN {}
          ELSE IF args[i] \in Quotes
               THEN LET e == StringEnd(args, i) IN IF e = 0 THEN {} ELSE commas[e + 1, d]
          ELSE (IF args[i] = "," /\ d = Flat THEN {i} ELSE {})
                    \cup commas[i + 1, Nest(d, args[i])]
    IN  commas[1, Flat]

Trim(s) ==
    LET ink == {i \in DOMAIN s : s[i] \notin Blank}
    IN  IF ink = {} THEN <<>>
        ELSE SubSeq(s, CHOOSE i \in ink : \A j \in ink : i <= j,
                       CHOOSE i \in ink : \A j \in ink : i >= j)

SplitArgs(args) ==
    LET cuts == SetToSortSeq(TopCommas(args) \cup {0, Len(args) + 1}, LAMBDA i, j : i < j)
    IN  [n \in 1..(Len(cuts) - 1) |-> Trim(SubSeq(args, cuts[n] + 1, cuts[n + 1] - 1))]

IsLiteral(arg) ==
    /\ Len(arg) >= 2 /\ arg[1] = Last(arg)
    /\ \/ arg[1] = "quote"
       \/ arg[1] = "tick" /\ "${" \notin ToSet(SubSeq(arg, 2, Len(arg) - 1))

\* A literal's text, the sentinel for anything else.
OperandText(arg) == IF IsLiteral(arg) THEN SubSeq(arg, 2, Len(arg) - 1) ELSE <<Sentinel0>>

ParseConcatArgs(args) ==
    FlattenSeq([n \in DOMAIN SplitArgs(args) |->
        IF SplitArgs(args)[n] = <<>> THEN <<>> ELSE OperandText(SplitArgs(args)[n])])

\* The end (exclusive) of an operand that is no literal.
IdentifierEnd(src, pos) ==
    LET end[i \in 1..(Len(src) + 1), d \in Nesting(src)] ==
          IF i > Len(src) THEN i
          ELSE IF d = Flat /\ src[i] \in {"+", ";", ",", "nl", ")", "]", "}"} THEN i
          ELSE IF src[i] \in Quotes
               THEN LET e == StringEnd(src, i) IN IF e = 0 THEN i ELSE end[e + 1, d]
          ELSE end[i + 1, Nest(d, src[i])]
    IN  end[pos, Flat]

SkipBlank(src, pos) ==
    LET next[i \in 1..(Len(src) + 1)] ==
          IF i <= Len(src) /\ src[i] \in Blank THEN next[i + 1] ELSE i
    IN  IF pos > Len(src) THEN pos ELSE next[pos]

\* End (exclusive) of the operand at pos; pos itself when there is none.
OperandEnd(src, pos) ==
    IF src[pos] \notin Quotes THEN IdentifierEnd(src, pos)
    ELSE LET e == StringEnd(src, pos) IN IF e = 0 THEN pos ELSE e + 1

ParsePlusChain(src, start) ==
    LET body == Clamp(src, start, MaxConcatChainSpan)
        chain[pos \in 1..(Len(src) + 1), op \in 0..MaxConcatChainOperands] ==
          LET p == SkipBlank(body, pos)
              e == OperandEnd(body, p)
              q == SkipBlank(body, e)
          IN  IF op = MaxConcatChainOperands \/ p > Len(body) THEN <<>>
              ELSE IF e = p THEN <<>>
              ELSE OperandText(SubSeq(body, p, e - 1))
                   \o (IF q > Len(body) THEN <<>>
                       ELSE IF body[q] = "+" THEN chain[q + 1, op + 1] ELSE <<>>)
    IN  chain[start, 0]

-----------------------------------------------------------------------------
(* Paths.                                                                  *)

HasAPIIndicator(p) == \E k \in 1..(Len(p) - 1) : p[k] = "api" /\ p[k + 1] = "/"
IsFullURL(p) == p # <<>> /\ p[1] \in Origins
IsStaticFile(p) == p # <<>> /\ Last(p) = "app.js"

TrimSlash(p) ==
    LET solid == {i \in DOMAIN p : p[i] # "/"}
    IN  IF solid = {} THEN <<>> ELSE SubSeq(p, 1, CHOOSE i \in solid : \A j \in solid : j <= i)

\* One "/" of each run, none at the end; a path without an indicator, or with a
\* byte a path may not have, is dropped.
CleanConcatPath(p) ==
    LET single == SelectSeq([i \in DOMAIN p |-> IF i > 1 /\ p[i] = "/" /\ p[i - 1] = "/"
                                                THEN "" ELSE p[i]], LAMBDA t : t # "")
        clean  == TrimSlash(single)
    IN  IF HasAPIIndicator(clean) /\ ToSet(clean) \cap (Quotes \cup Blank \cup {"esc"}) = {}
        THEN clean ELSE <<>>

\* The closing quote of the literal of the given tokens that opens at i.
LiteralEnd(src, i, tokens) ==
    LET ends == {e \in (i + 2)..Len(src) : /\ src[e] = "quote"
                                           /\ \A k \in (i + 1)..(e - 1) : src[k] \in tokens}
    IN  IF src[i] = "quote" /\ ends # {} THEN CHOOSE e \in ends : TRUE ELSE 0

Literal(src, i, e) == SubSeq(src, i + 1, e - 1)

TokenAt(src, i) == IF i <= Len(src) THEN src[i] ELSE ";"

IsPrefixLiteral(p) == Len(p) = 2 /\ p[1] \in ToSet(Words) /\ p[2] = "/"

ConcatCallAt(src, i) ==
    LET e   == LiteralEnd(src, i, PathTokens \cup Origins)
        end == ArgListEnd(src, e + 2)
    IN  IF e = 0 \/ TokenAt(src, e + 1) # ".concat(" THEN <<>>
        ELSE IF end = 0 THEN <<>>
        ELSE CleanConcatPath(Literal(src, i, e) \o ParseConcatArgs(SubSeq(src, e + 2, end - 1)))

\* The literal that may head a +-chain at i.
HeadAt(src, i) ==
    LET e == LiteralEnd(src, i, PathTokens) IN IF e = 0 THEN <<>> ELSE Literal(src, i, e)

ChainAt(src, i) ==
    LET plus == SkipBlank(src, i + Len(HeadAt(src, i)) + 2)
    IN  IF TokenAt(src, plus) # "+" THEN <<>>
        ELSE CleanConcatPath(HeadAt(src, i) \o ParsePlusChain(src, plus + 1))

\* The distinct non-empty paths, at most MaxConcatPaths of them.
Distinct(found) ==
    LET first == {i \in DOMAIN found : found[i] # <<>> /\ \A j \in 1..(i - 1) : found[j] # found[i]}
    IN  {found[i] : i \in {m \in first : Cardinality({k \in first : k <= m}) <= MaxConcatPaths}}

ExtractConcatPaths(src) ==
    Distinct([i \in 1..(2 * Len(src)) |->
        IF i <= Len(src) THEN ConcatCallAt(src, i)
        ELSE IF HasAPIIndicator(HeadAt(src, i - Len(src))) THEN ChainAt(src, i - Len(src)) ELSE <<>>])

ServicePrefixPlusPaths(src) ==
    Distinct([i \in DOMAIN src |->
        IF IsPrefixLiteral(HeadAt(src, i)) THEN ChainAt(src, i) ELSE <<>>])

\* A template literal as a path: a placeholder per substitution, cut to its
\* first slash.
TemplatePath(segment) ==
    LET text[i \in 1..(Len(segment) + 1), depth \in 0..Len(segment)] ==
          IF i > Len(segment) THEN <<>>
          ELSE IF depth = 0
               THEN IF segment[i] = "${" THEN <<Param>> \o text[i + 1, 1]
                    ELSE <<segment[i]>> \o text[i + 1, 0]
          ELSE text[i + 1, CASE segment[i] \in {"{", "${"} -> depth + 1
                             [] segment[i] = "}"           -> depth - 1
                             [] OTHER                      -> depth]
        raw   == Trim(text[1, 0])
        slash == {i \in DOMAIN raw : raw[i] = "/"}
        path  == IF IsFullURL(raw) \/ slash = {} THEN raw
                 ELSE SubSeq(raw, CHOOSE i \in slash : \A j \in slash : i <= j, Len(raw))
    IN  IF HasAPIIndicator(path) /\ ToSet(path) \cap Blank = {} THEN path ELSE <<>>

ExtractTemplateLiteralPaths(src) ==
    LET open[i \in 1..(Len(src) + 1)] ==
          LET end == TemplateEnd(src, i + 1)
          IN  IF i > Len(src) THEN {}
              ELSE IF src[i] # "tick" THEN open[i + 1]
              ELSE IF end = 0 THEN {}
              ELSE {i} \cup open[end + 1]
    IN  {TemplatePath(SubSeq(src, i + 1, TemplateEnd(src, i + 1) - 1)) :
            i \in DOMAIN src \cap open[1]} \ {<<>>}

\* The quoted paths and full URLs with an API indicator.
QuotedPaths(src) ==
    {p \in {Literal(src, i, LiteralEnd(src, i, PathTokens \cup Origins)) :
                i \in {j \in DOMAIN src : LiteralEnd(src, j, PathTokens \cup Origins) # 0}} :
        HasAPIIndicator(p) /\ \A k \in 2..Len(p) : p[k] \notin Origins}

Rank(w) == CHOOSE n \in DOMAIN Words : Words[n] = w

\* Positions of the literals "word/".
LonePrefixes(src) == {i \in DOMAIN src : /\ LiteralEnd(src, i, PathTokens) = i + 3
                                        /\ IsPrefixLiteral(SubSeq(src, i + 1, i + 2))}

\* The unknown ones by falling frequency, as many as the cap leaves room for.
StandaloneCandidates(src, known) ==
    LET lone  == LonePrefixes(src)
        uses  == [w \in {src[i + 1] : i \in lone} \ known |->
                     Cardinality({i \in lone : src[i + 1] = w})]
        ahead == [w \in DOMAIN uses |->
                     {v \in DOMAIN uses : \/ uses[v] > uses[w]
                                          \/ uses[v] = uses[w] /\ Rank(v) < Rank(w)}]
    IN  {w \in DOMAIN uses : Cardinality(known) + Cardinality(ahead[w]) < MaxBundlePrefixes}

\* The prefixes of "prefix/" + "api/...".
JoinedPrefixes(src) ==
    {src[i + 1] : i \in {j \in LonePrefixes(src) :
        LET plus == SkipBlank(src, j + 4)
            next == SkipBlank(src, plus + 1)
        IN  /\ TokenAt(src, plus) = "+" /\ TokenAt(src, next) = "quote"
            /\ TokenAt(src, next + 1) = "api" /\ TokenAt(src, next + 2) = "/"}}

\* Those, the crawl's, then standalone ones.
ServicePrefixes(src) ==
    LET known == JoinedPrefixes(src) \cup CrawledPrefixes
    IN  known \cup StandaloneCandidates(src, known)

\* The endpoint paths a raw path stands for: itself, or, when it has no service
\* prefix of its own, itself under every prefix of the bundle.
ExpandPath(prefixes, raw) ==
    LET path   == TrimSlash(IF raw # <<>> /\ raw[1] = "/" THEN raw ELSE <<"/">> \o raw)
        inline == path[2] # "api" /\ HasAPIIndicator(path)
    IN  IF IsStaticFile(raw) THEN {}
        ELSE IF IsFullURL(raw)
             THEN IF raw[1] \in CredentialOrigins THEN {} ELSE {TrimSlash(raw)}
        ELSE IF path = <<>> THEN {}
        ELSE IF path[2] \in prefixes \/ inline \/ prefixes = {} THEN {path}
        ELSE {<<"/", w, "/">> \o Tail(path) : w \in prefixes}

ExtractAPIPaths(src) ==
    UNION {ExpandPath(ServicePrefixes(src), raw) :
        raw \in QuotedPaths(src) \cup ExtractTemplateLiteralPaths(src)
                \cup ExtractConcatPaths(src) \cup ServicePrefixPlusPaths(src)}
=============================================================================
