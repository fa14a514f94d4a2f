----------------------------- MODULE BodySchema -----------------------------
(***************************************************************************)
(* Schemas inferred from bodies (pkg/generate/rest/schema.go and form.go)  *)
(* and the ways several of them are merged.                                *)
(*                                                                         *)
(* A body is a number, 0 the empty one, whose order is the order of the    *)
(* bytes; Bodies gives what the parsers make of it:                        *)
(*   big    it is over the size every parser accepts                       *)
(*   first  its first byte that is no blank                                *)
(*   json   the JSON value, Invalid if it is none                          *)
(*   form   the type of the first value of each form field, a function     *)
(*   parts  the parts of the multipart body, in order                      *)
(*   same   the body all multipart bodies equal up to the boundary share   *)
(*   marks  markup it contains: "envelope", "feed", "html", "query"        *)
(* A value is a scalar [t], an array [t, items] or an object [t, props].   *)
(***************************************************************************)
EXTENDS Naturals, Sequences, FiniteSets, SequencesExt, Functions

CONSTANTS Bodies,
          MaxSchemaDepth,    \* nesting up to which a value is described
          MaxFormFields,     \* fields of a form
          MaxMultipartParts  \* parts read of a multipart body

ASSUME BodyConstants == {MaxSchemaDepth, MaxFormFields, MaxMultipartParts} \subseteq Nat \ {0}

Invalid == [t |-> "invalid"]
NoSchema == [type |-> "none"]
Scalar(type) == [type |-> type]
Object(props) == [type |-> "object", props |-> props]

hasProperties(schema) == "props" \in DOMAIN schema

\* The values a schema describes one level below that of a value.
Parts(value) ==
    CASE value.t = "array" /\ value.items # <<>> -> {value.items[1]}
      [] value.t = "object" -> Range(value.props)
      [] OTHER -> {}

\* The recursion, from the greatest depth up: schema[d] describes the values
\* met at depth d.
inferSchemaFromValue(value) ==
    LET met[d \in 0..MaxSchemaDepth] ==
            IF d = 0 THEN {value} ELSE UNION {Parts(v) : v \in met[d - 1]}
        schema[d \in 0..MaxSchemaDepth] == [v \in met[d] |->
            CASE d = MaxSchemaDepth -> Scalar("object")
              [] d < MaxSchemaDepth /\ v.t = "array" ->
                    IF v.items = <<>> THEN Scalar("array")
                    ELSE [type |-> "array", items |-> schema[d + 1][v.items[1]]]
              [] d < MaxSchemaDepth /\ v.t = "object" ->
                    Object([k \in DOMAIN v.props |-> schema[d + 1][v.props[k]]])
              [] OTHER -> Scalar(v.t)]
    IN  schema[0][value]

InferSchema(body) ==
    IF body = 0 \/ Bodies[body].big \/ Bodies[body].json = Invalid THEN NoSchema
    ELSE inferSchemaFromValue(Bodies[body].json)

ParseURLEncodedForm(body) ==
    LET form == Bodies[body].form
    IN  IF Bodies[body].big \/ Cardinality(DOMAIN form) \notin 1..MaxFormFields THEN NoSchema
        ELSE Object([k \in DOMAIN form |-> Scalar(form[k])])

\* A part without a name is skipped; of like-named parts the last one counts.
ParseMultipartForm(body) ==
    LET read == SubSeq(Bodies[body].parts, 1, MaxMultipartParts)
        named == {i \in DOMAIN read : read[i].name # ""}
        last(name) == CHOOSE i \in named : /\ read[i].name = name
                                           /\ \A j \in named : read[j].name = name => j <= i
    IN  IF Bodies[body].big \/ named = {} THEN NoSchema
        ELSE Object([name \in {read[i].name : i \in named} |->
                        IF read[last(name)].file THEN [type |-> "string", format |-> "binary"]
                                                 ELSE Scalar(read[last(name)].type)])

\* A null has no type, and so conflicts with none.
schemaTypesConflict(a, b) == a.type # b.type /\ "null" \notin {a.type, b.type}

mergeObjectSchemas(base, overlay) ==
    CASE base = NoSchema -> overlay
      [] base # NoSchema /\ (overlay = NoSchema \/ ~hasProperties(base) \/ ~hasProperties(overlay)) -> base
      [] OTHER ->
            Object([k \in DOMAIN base.props \cup DOMAIN overlay.props |->
                IF k \notin DOMAIN overlay.props THEN base.props[k]
                ELSE IF k \notin DOMAIN base.props THEN overlay.props[k]
                ELSE IF schemaTypesConflict(base.props[k], overlay.props[k]) THEN Scalar("string")
                ELSE base.props[k]])

\* mergeURLEncodedBodies, mergeMultipartBodies and mergeJSONBodies.
mergeBodies(bodies, ctype) ==
    FoldLeft(LAMBDA merged, body :
                mergeObjectSchemas(merged, CASE ctype = "form"      -> ParseURLEncodedForm(body)
                                             [] ctype = "multipart" -> ParseMultipartForm(body)
                                             [] OTHER               -> InferSchema(body)),
             NoSchema, bodies)
=============================================================================
