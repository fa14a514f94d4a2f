------------------------------ MODULE OpenApi -------------------------------
(***************************************************************************)
(* The OpenAPI generator (pkg/generate/rest/openapi.go): from classified   *)
(* endpoints to a document                                                 *)
(*   servers     origins, the primary one first                            *)
(*   title       the origin it is named after, 0 for none                  *)
(*   operations  a function of slots <<template, method>>                  *)
(*   schemas     the shared component schemas, by name                     *)
(*   refs        the component that replaces a schema, by its place        *)
(***************************************************************************)
EXTENDS Classify

CONSTANT Reads  \* what a query value parses as, out of "int", "float", "bool"

Methods == <<"POST", "PUT", "PATCH", "GET", "DELETE", "HEAD", "OPTIONS">>

\* The members of S in the order of before.
Arranged(S, before(_, _)) ==
    [n \in 1..Cardinality(S) |->
        CHOOSE x \in S : Cardinality({y \in S : before(y, x)}) = n - 1]

Sorted(S) == Arranged(S, <)

inferQueryParamItemsType(values) ==
    LET all(kind) == \A v \in ToSet(values) : kind \in Reads[v]
    IN  CASE values = <<>> -> "string"
          [] values # <<>> /\ all("int") -> "integer"
          [] values # <<>> /\ ~all("int") /\ all("float") -> "number"
          [] values # <<>> /\ ~all("int") /\ ~all("float") -> IF all("bool") THEN "boolean" ELSE "string"

-----------------------------------------------------------------------------
(* Servers and trust.                                                      *)

Static(endpoints) == {i \in DOMAIN endpoints : IsJSStaticSource(endpoints[i].source)}

OriginsAt(endpoints, indices) == {endpoints[i].origin : i \in indices} \ {0}

choosePrimaryOrigin(target, observed) ==
    CASE target # 0 -> target
      [] target = 0 /\ observed # {} -> Sorted(observed)[1]
      [] OTHER -> 0

\* The origins only a bundle names are not vouched for.
extractServers(endpoints, target) ==
    LET observed == OriginsAt(endpoints, DOMAIN endpoints \ Static(endpoints))
        primary == choosePrimaryOrigin(target, observed)
    IN  [primary  |-> primary,
         servers  |-> IF primary = 0 THEN <<>> ELSE <<primary>> \o Sorted(observed \ {primary}),
         excluded |-> OriginsAt(endpoints, Static(endpoints)) \ (observed \cup {primary})]

\* Mutant: only the primary origin is set apart.
trustPrimary(origin, s) == IF origin = s.primary THEN 0 ELSE 1

trustRank(origin, s) ==
    CASE origin = 0 -> 2
      [] origin # 0 /\ origin = s.primary -> 0
      [] origin # 0 /\ origin # s.primary -> IF origin \in s.excluded THEN 2 ELSE 1

-----------------------------------------------------------------------------
(* Operations.                                                             *)

EndpointOrder(r) ==
    [i \in DOMAIN r.path |-> IndexIn(Words, r.path[i])] \o <<r.raw, r.body>> \o ResponseKey(r.resp)

\* A group has one template, one method and one origin.
groupEndpoints(endpoints, opts) ==
    LET parsed == {i \in DOMAIN endpoints : endpoints[i].web}
        template == NormalizePathsWithNames({endpoints[i].path : i \in parsed}, opts)
        key(r) == <<template[r.path], r.method, r.origin>>
    IN  Tabled([k \in {key(endpoints[i]) : i \in parsed} |->
            Pick(endpoints, {i \in parsed : key(endpoints[i]) = k})])

\* Required is what all endpoints with parameters have.
QueryParameters(group) ==
    LET withParams == {i \in DOMAIN group : DOMAIN group[i].query # {}}
        having(k) == SelectSeq(group, LAMBDA r : k \in DOMAIN r.query)
        values == Tabled([k \in UNION {DOMAIN group[i].query : i \in withParams} |->
                      FoldLeft(LAMBDA seen, r : MergeUniqueOrdered(seen, r.query[k]), <<>>, having(k))])
    IN  [k \in {n \in DOMAIN values : values[n] # <<>>} |->
            [type     |-> inferQueryParamItemsType(values[k]),
             array    |-> \E i \in withParams : k \in group[i].multi,
             required |-> Len(having(k)) = Cardinality(withParams)]]

Partition(ctype) == CASE ctype = "" -> "application/json"
                      [] OTHER      -> ctype

FormOf(ctype) == CASE ctype = "application/x-www-form-urlencoded" -> "form"
                   [] ctype = "multipart/form-data" -> "multipart"
                   [] OTHER -> "json"

RequestBodies(method, group) ==
    LET sent == IF method \in {"POST", "PUT", "PATCH"} THEN SelectSeq(group, LAMBDA r : r.body # 0)
                                                       ELSE <<>>
        of(t) == SelectSeq(sent, LAMBDA r : Partition(r.ctype) = t)
        merged == Tabled([t \in {Partition(r.ctype) : r \in ToSet(sent)} |->
                      mergeBodies([i \in DOMAIN of(t) |-> of(t)[i].body], FormOf(t))])
    IN  [t \in {u \in DOMAIN merged : merged[u] # NoSchema} |-> merged[t]]

StatusOf(r) == IF r.resp.status > 0 THEN r.resp.status ELSE 200

\* The first schema of a status is its schema, later ones add properties.
AddResponse(schema, r) ==
    LET new == IF r.resp.ctype \in {"", "application/json"} THEN InferSchema(r.resp.body) ELSE NoSchema
    IN  CASE schema = NoSchema -> new
          [] schema # NoSchema /\ hasProperties(schema) /\ hasProperties(new) ->
                Object(Joined(schema.props, new.props))
          [] OTHER -> schema

Responses(group) ==
    Tabled([status \in {StatusOf(r) : r \in ToSet(group)} |->
        FoldLeft(AddResponse, NoSchema, SelectSeq(group, LAMBDA r : StatusOf(r) = status))])

\* The least confident of its sources tags a group that is static throughout.
computeSourceTag(group) ==
    LET tagged(s) == \E i \in DOMAIN group : group[i].source = s
    IN  IF Static(group) # DOMAIN group THEN "dynamic"
        ELSE CASE tagged("static:js-concat") -> "js-bundle-concat"
               [] ~tagged("static:js-concat") /\ tagged("static:js-sourcemap") -> "js-sourcemap"
               [] OTHER -> "js-bundle"

\* The sort is stable.
Precedes(group, i, j) ==
    LET a == EndpointOrder(group[i])
        b == EndpointOrder(group[j])
    IN  Before(a, b) \/ (a = b /\ i < j)

InOrder(group) ==
    LET order == Arranged(DOMAIN group, LAMBDA i, j : Precedes(group, i, j))
    IN  Tabled([n \in DOMAIN group |-> group[order[n]]])

buildOperation(key, endpoints, s, static) ==
    LET group == InOrder(endpoints)
    IN  [origin     |-> key[3],
         servers    |-> IF key[3] \in s.excluded THEN {key[3]} ELSE {},
         query      |-> QueryParameters(group),
         parameters |-> extractPathParams(key[1]),
         bodies     |-> RequestBodies(key[2], group),
         responses  |-> Responses(group),
         source     |-> IF static THEN computeSourceTag(group) ELSE "",
         collisions |-> {}]

recordCollisions(slot, keys) == {k[3] : k \in {j \in keys : <<j[1], j[2]>> = slot}}

\* The most trusted group takes the slot; what it displaces is recorded with it.
resolveCollisions(groups, s, static) ==
    LET slots == {<<k[1], k[2]>> : k \in DOMAIN groups}
        rank(k) == <<trustRank(k[3], s), k[3]>>
        winner(slot) == CHOOSE k \in DOMAIN groups :
                            /\ <<k[1], k[2]>> = slot
                            /\ \A j \in DOMAIN groups \ {k} : <<j[1], j[2]>> = slot => Before(rank(k), rank(j))
    IN  [slot \in {t \in slots : t[2] \in ToSet(Methods)} |->
            LET k == winner(slot)
            IN  [buildOperation(k, groups[k], s, static) EXCEPT
                    !.collisions = recordCollisions(slot, DOMAIN groups \ {k})]]

-----------------------------------------------------------------------------
(* Component schemas.                                                      *)

Fingerprint(schema) == [k \in DOMAIN schema.props |-> schema.props[k].type]

\* The last segment that is no parameter names the resource.
resourceNameFromPath(template) ==
    LET named == {i \in DOMAIN template : Len(template[i]) = 1 /\ template[i][1] # ""}
    IN  IF named = {} THEN "Resource" ELSE Singular[template[MaxOf(named)][1]]

MethodPrefix(method) == CASE method = "POST" -> "Create"
                          [] method \in {"PUT", "PATCH"} -> "Update"
                          [] OTHER -> ""

\* Parameters come after words, their braces after the letters.
SegmentOrder(seg) ==
    IF Len(seg) = 1 THEN <<IndexIn(Words, seg[1])>>
    ELSE <<Len(Words) + 1, IndexIn(Words, seg[2]), IndexIn(<<"Id", "Slug", "Token">>, seg[3]), seg[4]>>

Earlier(a, b) ==
    \/ Lexicographic(a[1], b[1], LAMBDA s, t : Before(SegmentOrder(s), SegmentOrder(t)))
    \/ a[1] = b[1] /\ IndexIn(Methods, a[2]) < IndexIn(Methods, b[2])

\* The schemas of an operation with their places: bodies first, then responses.
Places(slot, op) ==
    LET types == Pick(MediaTypes, {i \in DOMAIN MediaTypes : MediaTypes[i] \in DOMAIN op.bodies})
        codes == Sorted(DOMAIN op.responses)
        resource == resourceNameFromPath(slot[1])
    IN  [i \in DOMAIN types |-> [at |-> <<slot, "request", types[i]>>, kind |-> "request",
            schema |-> op.bodies[types[i]], base |-> <<MethodPrefix(slot[2]), resource, "Request">>]]
        \o [i \in DOMAIN codes |-> [at |-> <<slot, "response", codes[i]>>, kind |-> "response",
            schema |-> op.responses[codes[i]], base |-> <<"", resource, codes[i]>>]]

\* Mutant: a name that is taken is given again.
plainName(base, counted) == base \o <<1>>

uniqueName(base, counted) == base \o <<1 + (IF base \in DOMAIN counted THEN counted[base] ELSE 0)>>

\* A known fingerprint shares the component, request and response apart; a
\* new one gets a name of its own, but not for a 204.
Extract(acc, place) ==
    LET print == <<place.kind, Fingerprint(place.schema)>>
        name == uniqueName(place.base, acc.counted)
    IN  CASE ~hasProperties(place.schema) \/ DOMAIN place.schema.props = {} -> acc
          [] OTHER ->
                IF \E n \in acc.named : n[1] = print
                THEN [acc EXCEPT !.refs = With(@, place.at, (CHOOSE n \in acc.named : n[1] = print)[2])]
                ELSE IF place.at[2] = "response" /\ place.at[3] = 204 THEN acc
                ELSE [counted |-> With(acc.counted, place.base, name[4]),
                      named   |-> acc.named \cup {<<print, name>>},
                      schemas |-> With(acc.schemas, name, place.schema),
                      refs    |-> With(acc.refs, place.at, name)]

extractComponents(operations) ==
    LET slots == Arranged(DOMAIN operations, Earlier)
        places == FlattenSeq([i \in DOMAIN slots |-> Places(slots[i], operations[slots[i]])])
    IN  FoldLeft(Extract, [counted |-> <<>>, named |-> {}, schemas |-> <<>>, refs |-> <<>>], places)

NoDocument == [servers |-> <<>>, title |-> 0, operations |-> <<>>, schemas |-> <<>>, refs |-> <<>>]

Generate(endpoints, target, opts) ==
    LET s == extractServers(endpoints, target)
        operations == resolveCollisions(groupEndpoints(endpoints, opts), s, Static(endpoints) # {})
        components == extractComponents(operations)
    IN  IF endpoints = <<>> THEN NoDocument
        ELSE [servers |-> s.servers, title |-> s.primary, operations |-> operations,
              schemas |-> components.schemas, refs |-> components.refs]
=============================================================================
