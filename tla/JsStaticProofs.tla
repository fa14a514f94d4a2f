--------------------------- MODULE JsStaticProofs ---------------------------
(***************************************************************************)
(* What static analysis promises, for every capture, bundle, page, pool    *)
(* and cap.                                                                *)
(*                                                                         *)
(* First what the functions compute, with SequenceLemmas for selections    *)
(* and concatenations: the form parser, whose fields carry no secret that  *)
(* is not marked as one; the extraction, which finds the calls of a source *)
(* and reconstructs paths no call has; the cap, which keeps a share of     *)
(* both kinds; the requests made of what is left.                          *)
(*                                                                         *)
(* Then the inductive invariant, in two parts.  SInv says where every      *)
(* request of the capture comes from and what a worker has in hand at each *)
(* program counter.  AInv counts: during an analysis every bundle is in    *)
(* the channel, with a worker, among the results or collected, and after   *)
(* it the counters are settled.                                            *)
(***************************************************************************)
EXTENDS JsStatic, SequenceLemmas

-----------------------------------------------------------------------------
(* The form parser: what the fields of its forms may carry.                *)

FormTokens == {tok \in Tokens : tok.t = "form"}
FieldTokens == {tok \in Tokens : tok.t \in {"input", "textarea", "select"}}
Fragments == STRING \cup ToSet(Sentinel)
Plain == {v \in Texts : "secret" \notin ToSet(v)}

\* A secret is in a field that gives nothing away.
Guarded(f, v) == "secret" \in ToSet(v) => f.sensitive \/ f.hidden

Fields ==
    {f \in [name : {tok.name : tok \in FieldTokens}, value : Texts, placeholder : Texts,
            hidden : BOOLEAN, sensitive : BOOLEAN] :
        /\ f.name \in SensitiveNames => f.sensitive
        /\ Guarded(f, f.value) /\ Guarded(f, f.placeholder)}

Forms == [action : {tok.action : tok \in FormTokens}, method : {tok.method : tok \in FormTokens},
          enctype : {tok.enctype : tok \in FormTokens}, fields : Seq(Fields)]

Pendings == [in : {"none", "select", "textarea"}, option : BOOLEAN, value : Plain,
             text : Plain, first : Plain, hasFirst : BOOLEAN]

Parsers ==
    {p \in [stack : Seq(Forms), results : Seq(Forms), pending : Pendings] :
        p.pending.in # "none" => p.stack # <<>> /\ Last(p.stack).fields # <<>>}

LEMMA EmptyIsPlain == <<>> \in Plain /\ <<>> \in Texts
<1>1. <<>> \in Seq(Fragments) /\ DOMAIN <<>> = {}
  BY EmptySeq
<1> QED BY <1>1 DEF Plain, Texts, Fragments, ToSet

LEMMA LastElement ==
  ASSUME NEW S, NEW s \in Seq(S), s # <<>>
  PROVE  /\ Len(s) \in 1..Len(s) /\ Last(s) = s[Len(s)] /\ Last(s) \in S
         /\ Front(s) \in Seq(S)
<1>1. Len(s) \in 1..Len(s)
  BY EmptySeq, LenProperties
<1>2. \A i \in 1..(Len(s) - 1) : s[i] \in S
  BY <1>1, ElementOfSeq
<1>3. SubSeq(s, 1, Len(s) - 1) \in Seq(S)
  BY <1>1, <1>2, SubSeqProperties
<1> QED BY <1>1, <1>3, ElementOfSeq DEF Last, Front

\* Something pending belongs to the last field of the innermost form.
LEMMA PendingFieldIs ==
  ASSUME NEW p \in Parsers, p.pending.in # "none"
  PROVE  /\ PendingField(p) \in Fields
         /\ Len(p.stack) \in 1..Len(p.stack) /\ p.stack[Len(p.stack)] \in Forms
         /\ LET f == p.stack[Len(p.stack)].fields
            IN  /\ f \in Seq(Fields) /\ Len(f) \in 1..Len(f)
                /\ PendingField(p) = f[Len(f)]
<1>1. p.stack \in Seq(Forms) /\ p.stack # <<>> /\ Last(p.stack).fields # <<>>
  BY DEF Parsers
<1>2. /\ Last(p.stack) \in Forms /\ Last(p.stack) = p.stack[Len(p.stack)]
      /\ Len(p.stack) \in 1..Len(p.stack)
  BY <1>1, LastElement
<1>3. Last(p.stack).fields \in Seq(Fields)
  BY <1>2 DEF Forms
<1> QED BY <1>1, <1>2, <1>3, LastElement DEF PendingField

LEMMA SetPendingKeeps ==
  ASSUME NEW p \in Parsers, p.pending.in # "none",
         NEW v \in Texts, Guarded(PendingField(p), v)
  PROVE  SetPendingValue(p, v) \in Parsers /\ SetPendingValue(p, v).pending = p.pending
<1> DEFINE n == Len(p.stack)
           form == p.stack[n]
           m == Len(form.fields)
           field == form.fields[m]
           newField == [field EXCEPT !.value = v]
           newFields == [form.fields EXCEPT ![m] = newField]
           newForm == [form EXCEPT !.fields = newFields]
           newStack == [p.stack EXCEPT ![n] = newForm]
<1>1. /\ n \in 1..n /\ form \in Forms /\ form.fields \in Seq(Fields) /\ m \in 1..m
      /\ field \in Fields /\ field = PendingField(p) /\ p.stack \in Seq(Forms)
  BY PendingFieldIs DEF Parsers
<1>2. m = Len(p.stack[n].fields)
  OBVIOUS
<1>3. SetPendingValue(p, v) = [p EXCEPT !.stack = newStack]
  BY DEF SetPendingValue
<1>4. newField \in Fields
  <2> HIDE DEF field
  <2> QED BY <1>1 DEF Fields, Guarded
<1>5. newFields \in Seq(Fields) /\ Len(newFields) = m
  <2> HIDE DEF newField, form
  <2> QED BY <1>1, <1>4, ExceptSeq
<1>6. newForm \in Forms /\ newForm.fields = newFields
  <2> HIDE DEF newFields, form
  <2> QED BY <1>1, <1>5 DEF Forms
<1>7. /\ newStack \in Seq(Forms) /\ Len(newStack) = n /\ newStack[n] = newForm
  <2> HIDE DEF newForm
  <2> QED BY <1>1, <1>6, ExceptSeq
<1>8. newStack # <<>> /\ newFields # <<>>
  <2>1. Len(newStack) # 0 /\ Len(newFields) # 0
    <3> HIDE DEF newStack, newFields, form
    <3> QED BY <1>1, <1>5, <1>7
  <2> HIDE DEF newStack, newFields
  <2> QED BY <2>1, EmptySeq
<1>9. Last(newStack).fields # <<>>
  <2> HIDE DEF newStack, newForm, newFields
  <2> QED BY <1>1, <1>6, <1>7, <1>8, LastElement
<1> HIDE DEF newStack
<1> QED BY <1>3, <1>7, <1>8, <1>9 DEF Parsers

LEMMA PendingChanges ==
  ASSUME NEW p \in Parsers, NEW r \in Pendings, r.in # "none" => p.pending.in # "none"
  PROVE  /\ [p EXCEPT !.pending = r] \in Parsers
         /\ [p EXCEPT !.pending = r].pending = r
         /\ PendingField([p EXCEPT !.pending = r]) = PendingField(p)
BY DEF Parsers, PendingField

\* Capping cuts, so it brings in nothing that is not in its parts.
LEMMA AppendCappedIs ==
  ASSUME NEW u \in Texts, NEW v \in Plain
  PROVE  /\ AppendCapped(u, v) \in Texts
         /\ "secret" \in ToSet(AppendCapped(u, v)) => "secret" \in ToSet(u)
<1> DEFINE both == u \o v
<1>1. u \in Seq(Fragments) /\ v \in Seq(Fragments) /\ "secret" \notin ToSet(v)
  BY DEF Plain, Texts, Fragments
<1>2. both \in Seq(Fragments) /\ ToSet(both) = ToSet(u) \cup ToSet(v)
  BY <1>1, ConcatProperties, ConcatSet
<1> HIDE DEF both
<1>3. CASE Len(both) <= MaxValue
  BY <1>1, <1>2, <1>3 DEF AppendCapped, Texts, Fragments, both
<1>4. CASE ~(Len(both) <= MaxValue)
  <2> DEFINE cut == SubSeq(both, 1, MaxValue)
  <2>1. MaxValue \in Nat /\ Len(both) \in Nat /\ DOMAIN both = 1..Len(both)
    BY <1>2, FormCaps, LenProperties
  <2>2. \A i \in 1..MaxValue : both[i] \in ToSet(both) \cap Fragments
    BY <1>2, <1>4, <2>1, ElementOfSeq DEF ToSet
  <2>3. cut \in Seq(ToSet(both) \cap Fragments)
    BY <2>1, <2>2, SubSeqProperties
  <2>4. cut \in Texts /\ ToSet(cut) \subseteq ToSet(both)
    <3> HIDE DEF cut
    <3>1. cut \in Seq(Fragments)
      BY <2>3, SeqMonotonic
    <3>2. DOMAIN cut = 1..Len(cut) /\ \A i \in 1..Len(cut) : cut[i] \in ToSet(both) \cap Fragments
      BY <2>3, LenProperties, ElementOfSeq
    <3> QED BY <3>1, <3>2 DEF Texts, Fragments, ToSet
  <2>5. AppendCapped(u, v) = cut
    BY <1>4 DEF AppendCapped, both
  <2> QED BY <1>1, <1>2, <2>4, <2>5
<1> QED BY <1>3, <1>4

LEMMA SentinelIsPlain == Sentinel \in Plain
<1> DEFINE mark == "<selected>"
<1>1. Sentinel = <<mark>> /\ mark # "secret"
  BY DEF Sentinel
<1> HIDE DEF mark
<1>2. DOMAIN <<mark>> = 1..1 /\ <<mark>>[1] = mark
  OBVIOUS
<1>3. ToSet(Sentinel) = {mark}
  BY <1>1, <1>2 DEF ToSet
<1>4. <<mark>> \in Seq(ToSet(Sentinel) \cup STRING)
  BY <1>3
<1> QED BY <1>1, <1>3, <1>4 DEF Plain, Texts

LEMMA PlainIsGuarded ==
  ASSUME NEW v \in Plain, NEW f
  PROVE  v \in Texts /\ Guarded(f, v)
BY DEF Plain, Guarded

LEMMA PendingStartKeeps ==
  ASSUME NEW p \in Parsers, NEW tok \in Tokens, p.pending.in # "none"
  PROVE  PendingStart(p, tok) \in Parsers
<1>1. CASE p.pending.in # "select" \/ tok.t # "option"
  BY <1>1 DEF PendingStart
<1>2. CASE p.pending.in = "select" /\ tok.t = "option"
  <2> DEFINE r == [p.pending EXCEPT !.option = TRUE, !.value = tok.value, !.text = <<>>]
             q == [p EXCEPT !.pending = r]
  <2>1. tok.value \in Plain
    BY <1>2, TokenShapes DEF Plain
  <2>2. r \in Pendings /\ r.in = p.pending.in
    BY <2>1, EmptyIsPlain DEF Parsers, Pendings
  <2>3. q \in Parsers /\ q.pending.in # "none"
    <3> HIDE DEF r
    <3> QED BY <2>2, PendingChanges
  <2>4. PendingStart(p, tok) \in {q, SetPendingValue(q, Sentinel)}
    BY <1>2 DEF PendingStart, Parsers, Pendings
  <2> HIDE DEF q
  <2> QED BY <2>3, <2>4, SentinelIsPlain, PlainIsGuarded, SetPendingKeeps
<1> QED BY <1>1, <1>2

LEMMA PendingTextKeeps ==
  ASSUME NEW p \in Parsers, NEW tok \in Tokens, tok.t = "text"
  PROVE  PendingText(p, tok) \in Parsers
<1>1. tok.value \in Plain
  BY TokenShapes DEF Plain
<1>2. CASE p.pending.in = "textarea"
  <2> DEFINE f == PendingField(p)
             v == AppendCapped(f.value, tok.value)
  <2>1. f \in Fields
    BY <1>2, PendingFieldIs
  <2>2. f.value \in Texts /\ Guarded(f, f.value)
    BY <2>1 DEF Fields
  <2>3. v \in Texts /\ Guarded(f, v)
    <3> HIDE DEF f
    <3> QED BY <1>1, <2>2, AppendCappedIs DEF Guarded
  <2>4. PendingText(p, tok) = SetPendingValue(p, v)
    BY <1>2 DEF PendingText
  <2> HIDE DEF v
  <2> QED BY <1>2, <2>3, <2>4, SetPendingKeeps
<1>3. CASE p.pending.in = "select" /\ p.pending.option
  <2> DEFINE r == [p.pending EXCEPT !.text = AppendCapped(@, tok.value)]
  <2>1. p.pending \in Pendings /\ p.pending.text \in Plain /\ p.pending.text \in Texts
    BY DEF Parsers, Pendings, Plain
  <2>2. AppendCapped(p.pending.text, tok.value) \in Plain
    BY <1>1, <2>1, AppendCappedIs DEF Plain
  <2>3. r \in Pendings /\ r.in = p.pending.in
    BY <2>1, <2>2 DEF Pendings
  <2>4. PendingText(p, tok) = [p EXCEPT !.pending = r]
    BY <1>3 DEF PendingText, Parsers, Pendings
  <2> HIDE DEF r
  <2> QED BY <2>3, <2>4, PendingChanges
<1>4. CASE p.pending.in # "textarea" /\ ~(p.pending.in = "select" /\ p.pending.option)
  BY <1>4 DEF PendingText
<1> QED BY <1>2, <1>3, <1>4

LEMMA CommitOptionKeeps ==
  ASSUME NEW p \in Parsers, p.pending.in # "none"
  PROVE  CommitOption(p) \in Parsers
<1> DEFINE v == IF p.pending.value = <<>> THEN p.pending.text ELSE p.pending.value
           q == IF PendingField(p).value = Sentinel THEN SetPendingValue(p, v) ELSE p
           r == [q.pending EXCEPT !.first = IF q.pending.hasFirst THEN @ ELSE v,
                                  !.hasFirst = TRUE, !.option = FALSE,
                                  !.value = <<>>, !.text = <<>>]
<1>1. v \in Plain /\ p.pending \in Pendings
  BY DEF Parsers, Pendings
<1> HIDE DEF v
<1>2. q \in Parsers /\ q.pending = p.pending
  BY <1>1, PlainIsGuarded, SetPendingKeeps
<1> HIDE DEF q
<1>3. r \in Pendings /\ r.in = q.pending.in
  BY <1>1, <1>2, EmptyIsPlain DEF Pendings
<1>4. CommitOption(p) = [q EXCEPT !.pending = r]
  <2>1. q.pending.hasFirst = p.pending.hasFirst
    BY <1>2
  <2>2. q.pending \in Pendings /\ q \in Parsers
    BY <1>1, <1>2
  <2>3. CommitOption(p) = [q EXCEPT !.pending.first = IF p.pending.hasFirst THEN @ ELSE v,
                  !.pending.hasFirst = TRUE,
                  !.pending.option = FALSE,
                  !.pending.value = <<>>,
                  !.pending.text = <<>>]
    BY DEF CommitOption, q, v
  <2> QED BY <2>1, <2>2, <2>3 DEF Parsers, Pendings
<1> HIDE DEF r
<1> QED BY <1>2, <1>3, <1>4, PendingChanges

LEMMA ResolveSelectKeeps ==
  ASSUME NEW p \in Parsers, p.pending.in # "none"
  PROVE  ResolveSelect(p) \in Parsers
<1> DEFINE v == PendingField(p).value
           w == IF v = Sentinel THEN <<>> ELSE v
           x == IF w = <<>> /\ p.pending.hasFirst THEN p.pending.first ELSE w
<1>1. PendingField(p) \in Fields
  BY PendingFieldIs
<1>2. v \in Texts /\ Guarded(PendingField(p), v)
  BY <1>1 DEF Fields
<1>3. p.pending.first \in Plain
  BY DEF Parsers, Pendings
<1> HIDE DEF v
<1>4. w \in Texts /\ Guarded(PendingField(p), w)
  BY <1>2, EmptyIsPlain, PlainIsGuarded
<1> HIDE DEF w
<1>5. x \in Texts /\ Guarded(PendingField(p), x)
  BY <1>3, <1>4, PlainIsGuarded
<1>6. ResolveSelect(p) = SetPendingValue(p, x)
  BY DEF ResolveSelect, v, w
<1> HIDE DEF x
<1> QED BY <1>5, <1>6, SetPendingKeeps

LEMMA NotPendingIs == NotPending \in Pendings /\ NotPending.in = "none"
BY EmptyIsPlain DEF NotPending, Pendings

LEMMA PendingEndKeeps ==
  ASSUME NEW p \in Parsers, NEW tok, p.pending.in # "none"
  PROVE  PendingEnd(p, tok) \in Parsers
<1>1. /\ CommitOption(p) \in Parsers
      /\ [ResolveSelect(p) EXCEPT !.pending = NotPending] \in Parsers
      /\ [p EXCEPT !.pending = NotPending] \in Parsers
  BY CommitOptionKeeps, ResolveSelectKeeps, NotPendingIs, PendingChanges
<1>2. PendingEnd(p, tok) \in {CommitOption(p), [ResolveSelect(p) EXCEPT !.pending = NotPending],
                              [p EXCEPT !.pending = NotPending], p}
  BY DEF PendingEnd
<1> QED BY <1>1, <1>2

LEMMA OpenFormKeeps ==
  ASSUME NEW p \in Parsers, NEW tok \in FormTokens, p.pending.in = "none"
  PROVE  OpenForm(p, tok) \in Parsers
<1> DEFINE form == [action |-> tok.action, method |-> tok.method,
                    enctype |-> tok.enctype, fields |-> <<>>]
           stack == Append(p.stack, form)
<1>1. form \in Forms
  <2>1. <<>> \in Seq(Fields)
    BY EmptySeq
  <2> QED BY <2>1 DEF Forms
<1>2. stack \in Seq(Forms)
  <2>1. p.stack \in Seq(Forms)
    BY DEF Parsers
  <2> HIDE DEF form
  <2> QED BY <1>1, <2>1, AppendProperties
<1>3. OpenForm(p, tok) \in {p, [p EXCEPT !.stack = stack]}
  BY DEF OpenForm, Parsers
<1> HIDE DEF stack
<1> QED BY <1>2, <1>3 DEF Parsers

LEMMA CloseFormKeeps ==
  ASSUME NEW p \in Parsers, p.pending.in = "none"
  PROVE  CloseForm(p) \in Parsers
<1>1. CASE p.stack = <<>>
  BY <1>1 DEF CloseForm
<1>2. CASE p.stack # <<>>
  <2> DEFINE results == Append(p.results, Last(p.stack))
             stack == Front(p.stack)
  <2>1. p.stack \in Seq(Forms) /\ p.results \in Seq(Forms)
    BY DEF Parsers
  <2>2. results \in Seq(Forms) /\ stack \in Seq(Forms)
    BY <1>2, <2>1, LastElement, AppendProperties
  <2>3. CloseForm(p) = [p EXCEPT !.results = results, !.stack = stack]
    BY <1>2 DEF CloseForm, Parsers
  <2> HIDE DEF results, stack
  <2> QED BY <2>2, <2>3 DEF Parsers
<1> QED BY <1>1, <1>2

\* A new field is in the innermost form, which is then not empty.
LEMMA AddFieldKeeps ==
  ASSUME NEW p \in Parsers, p.pending.in = "none", NEW tok \in FieldTokens, TakesField(p, tok),
         NEW type, tok.t = "input" => type = tok.type,
         NEW value \in Texts, value \in {<<>>, tok.value},
         type \in {"hidden", "password"} => value = <<>>
  PROVE  /\ AddField(p, tok, type, value) \in Parsers
         /\ AddField(p, tok, type, value).stack # <<>>
         /\ Last(AddField(p, tok, type, value).stack).fields # <<>>
<1> DEFINE n == Len(p.stack)
           form == p.stack[n]
           field == [name |-> tok.name, value |-> value, placeholder |-> tok.placeholder,
                     hidden |-> type = "hidden",
                     sensitive |-> tok.name \in SensitiveNames \/ type = "password"]
           fields == Append(form.fields, field)
           newForm == [form EXCEPT !.fields = fields]
           stack == [p.stack EXCEPT ![n] = newForm]
<1>1. p.stack # <<>> /\ p.stack \in Seq(Forms)
  BY DEF TakesField, Parsers
<1>2. n \in 1..n /\ form \in Forms
  BY <1>1, LastElement
<1>3. /\ tok \in Tokens /\ tok.t \in {"input", "textarea", "select"}
      /\ tok.placeholder \in Texts /\ tok.value \in Texts
      /\ "secret" \in ToSet(tok.value) \cup ToSet(tok.placeholder) =>
            \/ tok.name \in SensitiveNames
            \/ tok.t = "input" /\ tok.type \in {"hidden", "password"}
  BY TokenShapes DEF FieldTokens
<1>4. field.hidden \in BOOLEAN /\ field.sensitive \in BOOLEAN
  OBVIOUS
<1>5. Guarded(field, tok.placeholder)
  BY <1>3 DEF Guarded
<1>6. Guarded(field, value)
  <2>1. "secret" \notin ToSet(<<>>)
    BY EmptyIsPlain DEF Plain
  <2> QED BY <1>3, <2>1 DEF Guarded
<1>7. field \in Fields
  <2>1. field \in [name : {t.name : t \in FieldTokens}, value : Texts, placeholder : Texts,
                   hidden : BOOLEAN, sensitive : BOOLEAN]
    BY <1>3, <1>4
  <2>2. field.name \in SensitiveNames => field.sensitive
    OBVIOUS
  <2>3. field.value = value /\ field.placeholder = tok.placeholder
    OBVIOUS
  <2> HIDE DEF field
  <2> QED BY <1>5, <1>6, <2>1, <2>2, <2>3 DEF Fields
<1>8. form.fields \in Seq(Fields)
  <2> HIDE DEF form
  <2> QED BY <1>2 DEF Forms
<1>9. fields \in Seq(Fields) /\ fields # <<>>
  <2> HIDE DEF form, field
  <2> QED BY <1>7, <1>8, AppendProperties
<1>10. newForm \in Forms /\ newForm.fields = fields
  <2> HIDE DEF form, fields
  <2> QED BY <1>2, <1>9 DEF Forms
<1>11. stack \in Seq(Forms) /\ Len(stack) = n /\ stack[n] = newForm
  <2> HIDE DEF newForm
  <2> QED BY <1>1, <1>2, <1>10, ExceptSeq
<1>12. stack # <<>>
  <2>1. Len(stack) # 0
    <3> HIDE DEF stack
    <3> QED BY <1>2, <1>11
  <2> HIDE DEF stack
  <2> QED BY <2>1, EmptySeq
<1>13. Last(stack).fields # <<>>
  <2> HIDE DEF stack, newForm, fields
  <2> QED BY <1>9, <1>10, <1>11, <1>12, LastElement
<1>14. AddField(p, tok, type, value) = [p EXCEPT !.stack = stack]
  BY DEF AddField, Parsers
<1> HIDE DEF stack
<1>15. /\ [p EXCEPT !.stack = stack] \in Parsers
       /\ [p EXCEPT !.stack = stack].stack = stack
  BY <1>11 DEF Parsers
<1> QED BY <1>12, <1>13, <1>14, <1>15

LEMMA InputKeeps ==
  ASSUME NEW p \in Parsers, p.pending.in = "none", NEW tok \in FieldTokens, tok.t = "input"
  PROVE  Input(p, tok) \in Parsers
<1>1. CASE ~TakesField(p, tok) \/ tok.type = "submit"
  BY <1>1 DEF Input
<1>2. CASE TakesField(p, tok) /\ tok.type # "submit"
  <2> DEFINE value == IF tok.type \in {"hidden", "password"} THEN <<>> ELSE tok.value
  <2>1. tok.value \in Texts
    BY TokenShapes DEF FieldTokens
  <2>2. value \in Texts /\ value \in {<<>>, tok.value}
    BY <2>1, EmptyIsPlain
  <2>3. Input(p, tok) = AddField(p, tok, tok.type, value)
    BY <1>2 DEF Input
  <2>4. tok.type \in {"hidden", "password"} => value = <<>>
    OBVIOUS
  <2> HIDE DEF value
  <2> QED BY <1>2, <2>2, <2>3, <2>4, AddFieldKeeps
<1> QED BY <1>1, <1>2

LEMMA OpenPendingKeeps ==
  ASSUME NEW p \in Parsers, p.pending.in = "none",
         NEW tok \in FieldTokens, tok.t \in {"textarea", "select"}
  PROVE  OpenPending(p, tok) \in Parsers
<1>1. CASE ~TakesField(p, tok)
  BY <1>1 DEF OpenPending
<1>2. CASE TakesField(p, tok)
  <2> DEFINE q == AddField(p, tok, tok.t, <<>>)
             r == [NotPending EXCEPT !.in = tok.t]
  <2>1. q \in Parsers /\ q.stack # <<>> /\ Last(q.stack).fields # <<>>
    BY <1>2, EmptyIsPlain, AddFieldKeeps
  <2>2. r \in Pendings
    BY NotPendingIs DEF Pendings
  <2>3. OpenPending(p, tok) = [q EXCEPT !.pending = r]
    BY <1>2 DEF OpenPending
  <2> HIDE DEF q, r
  <2> QED BY <2>1, <2>2, <2>3 DEF Parsers
<1> QED BY <1>1, <1>2

\* No token takes the parser out of its invariant.
LEMMA TokenKeeps ==
  ASSUME NEW p \in Parsers, NEW tok \in Tokens
  PROVE  Token(p, tok) \in Parsers
<1>1. CASE tok.t = "text"
  BY <1>1, PendingTextKeeps DEF Token
<1>2. CASE tok.t \in {"/form", "/option", "/select", "/textarea"}
  <2>1. Token(p, tok) = EndTag(p, tok)
    BY <1>2 DEF Token
  <2>2. EndTag(p, tok) \in Parsers
    BY PendingEndKeeps, CloseFormKeeps DEF EndTag
  <2> QED BY <2>1, <2>2
<1>3. CASE tok.t \notin {"text", "/form", "/option", "/select", "/textarea"}
  <2>1. Token(p, tok) = StartTag(p, tok)
    BY <1>3 DEF Token
  <2>2. CASE p.pending.in # "none"
    BY <2>1, <2>2, PendingStartKeeps DEF StartTag
  <2>3. CASE p.pending.in = "none"
    <3>1. tok.t = "form" => OpenForm(p, tok) \in Parsers
      BY <2>3, OpenFormKeeps DEF FormTokens
    <3>2. tok.t = "input" => Input(p, tok) \in Parsers
      BY <2>3, InputKeeps DEF FieldTokens
    <3>3. tok.t \in {"textarea", "select"} => OpenPending(p, tok) \in Parsers
      BY <2>3, OpenPendingKeeps DEF FieldTokens
    <3> QED BY <2>1, <2>3, <3>1, <3>2, <3>3 DEF StartTag
  <2> QED BY <2>2, <2>3
<1> QED BY <1>1, <1>2, <1>3

LEMMA NewParserIs == NewParser \in Parsers
<1>1. <<>> \in Seq(Forms)
  BY EmptySeq
<1> QED BY <1>1, NotPendingIs DEF NewParser, Parsers

\* The forms of a body, at its end.
LEMMA FlushedForms ==
  ASSUME NEW p \in Parsers
  PROVE  FlushUnclosed(p) \in Seq(Forms)
<1> DEFINE q == IF p.pending.in = "select" THEN ResolveSelect(p) ELSE p
<1>1. q \in Parsers
  BY ResolveSelectKeeps
<1> HIDE DEF q
<1>2. q.stack \in Seq(Forms) /\ q.results \in Seq(Forms) /\ Len(q.stack) \in Nat
  BY <1>1, LenProperties DEF Parsers
<1>3. Reverse(q.stack) \in Seq(Forms)
  <2> DEFINE n == Len(q.stack)
             s == [i \in 1..n |-> q.stack[(n - i) + 1]]
  <2>1. \A i \in 1..n : (n - i) + 1 \in 1..n
    BY <1>2
  <2>2. s \in [1..n -> Forms]
    BY <1>2, <2>1, ElementOfSeq
  <2>3. s \in Seq(Forms)
    <3> HIDE DEF s
    <3> QED BY <1>2, <2>2, SeqDef
  <2> QED BY <2>3 DEF Reverse
<1>4. FlushUnclosed(p) = q.results \o Reverse(q.stack)
  BY DEF FlushUnclosed, q
<1> QED BY <1>2, <1>3, <1>4, ConcatProperties

-----------------------------------------------------------------------------
(* The request of a form.                                                  *)

LEMMA FieldValueIs ==
  ASSUME NEW f \in Fields
  PROVE  FieldValue(f) \in Texts /\ Blank(f.name, FieldValue(f))
BY EmptyIsPlain DEF Fields, FieldValue, Guarded, Blank, Plain

\* The values submitted for the fields of a form.
LEMMA FieldsToValuesIs ==
  ASSUME NEW fields \in Seq(Fields), NEW k \in DOMAIN FieldsToValues(fields)
  PROVE  /\ FieldsToValues(fields)[k] \in Seq(Texts)
         /\ \A v \in ToSet(FieldsToValues(fields)[k]) : Blank(k, v)
<1> DEFINE value == [i \in DOMAIN fields |-> FieldValue(fields[i])]
           I == {i \in DOMAIN fields : fields[i].name = k}
           vs == {value[i] : i \in I}
<1>1. FieldsToValues(fields)[k] = Pick(value, I)
  BY DEF FieldsToValues
<1>2. Len(fields) \in Nat /\ DOMAIN fields = 1..Len(fields) /\ \A i \in DOMAIN fields : fields[i] \in Fields
  BY LenProperties, ElementOfSeq
<1>3. \A i \in I : value[i] \in Texts /\ Blank(k, value[i])
  BY <1>2, FieldValueIs
<1>4. I \in SUBSET (1..Len(fields))
  BY <1>2
<1>5. Pick(value, I) \in Seq(vs) /\ ToSet(Pick(value, I)) = vs
  <2> HIDE DEF value, I
  <2> QED BY <1>2, <1>4, PickElements
<1>6. vs \subseteq Texts /\ \A v \in vs : Blank(k, v)
  BY <1>3
<1> HIDE DEF vs, value, I
<1> QED BY <1>1, <1>5, <1>6, SeqMonotonic

\* The caps of a query cut it.
LEMMA CapQueryValuesCuts ==
  ASSUME NEW q, IsQuery(q), NEW k \in DOMAIN CapQueryValues(q)
  PROVE  k \in DOMAIN q /\ ToSet(CapQueryValues(q)[k]) \subseteq ToSet(q[k])
<1> DEFINE n == IF Len(q[k]) > MaxQueryParamValues THEN MaxQueryParamValues ELSE Len(q[k])
<1>1. k \in DOMAIN q /\ CapQueryValues(q)[k] = SubSeq(q[k], 1, n)
  BY DEF CapQueryValues
<1>2. q[k] \in Seq(Texts)
  BY <1>1 DEF IsQuery
<1>3. n \in 0..Len(q[k]) /\ Len(q[k]) \in Nat /\ DOMAIN q[k] = 1..Len(q[k])
  BY <1>2, QueryCaps, LenProperties
<1> HIDE DEF n
<1>4. \A i \in 1..n : q[k][i] \in ToSet(q[k])
  BY <1>3 DEF ToSet
<1>5. SubSeq(q[k], 1, n) \in Seq(ToSet(q[k]))
  BY <1>3, <1>4, SubSeqProperties
<1>6. \A s \in Seq(ToSet(q[k])) : ToSet(s) \subseteq ToSet(q[k])
  <2> TAKE s \in Seq(ToSet(q[k]))
  <2>1. DOMAIN s = 1..Len(s) /\ \A i \in 1..Len(s) : s[i] \in ToSet(q[k])
    BY LenProperties, ElementOfSeq
  <2> QED BY <2>1 DEF ToSet
<1> QED BY <1>1, <1>5, <1>6

\* A value is blank, or the action or the page has it in its own URL.
Submits(r, url, action) ==
    /\ r.source = "static:html" /\ r.resp = NoResponse
    /\ \A k \in DOMAIN r.body : \A v \in ToSet(r.body[k]) : Blank(k, v)
    /\ \A k \in DOMAIN r.query : \A v \in ToSet(r.query[k]) :
          Blank(k, v) \/ \E q \in {url.query, action.query} : k \in DOMAIN q /\ v \in ToSet(q[k])

LEMMA FormRequestIs ==
  ASSUME NEW form \in Forms, NEW url, IsQuery(url.query)
  PROVE  Submits(FormRequest(form, url), url, form.action)
<1> DEFINE target  == IF form.action.kind = "self" THEN url ELSE form.action
           method  == IF form.method = "POST" THEN "POST" ELSE "GET"
           enctype == IF form.enctype = "" THEN "urlencoded" ELSE form.enctype
           values  == FieldsToValues(form.fields)
           query   == [k \in DOMAIN values \cup DOMAIN target.query |->
                         IF k \in DOMAIN values THEN values[k] ELSE target.query[k]]
           get  == Observed("GET", target.host, target.path, CapQueryValues(query), "", NoBody,
                            "static:html", NoResponse)
           post == Observed("POST", target.host, target.path, CapQueryValues(target.query),
                            enctype, values, "static:html", NoResponse)
           mine(q) == \A k \in DOMAIN q : \A v \in ToSet(q[k]) :
               Blank(k, v) \/ \E p \in {url.query, form.action.query} :
                                 k \in DOMAIN p /\ v \in ToSet(p[k])
<1>1. FormRequest(form, url) = IF method = "GET" THEN get ELSE post
  BY DEF FormRequest
<1>2. form.fields \in Seq(Fields) /\ IsQuery(form.action.query)
  BY TokenShapes DEF Forms, FormTokens
<1>3. \A k \in DOMAIN values : /\ values[k] \in Seq(Texts)
                               /\ \A v \in ToSet(values[k]) : Blank(k, v)
  BY <1>2, FieldsToValuesIs
<1>4. target.query \in {url.query, form.action.query} /\ IsQuery(target.query)
  BY <1>2
<1> HIDE DEF values, target
<1>5. IsQuery(query)
  BY <1>3, <1>4 DEF IsQuery
<1>6. mine(CapQueryValues(target.query))
  BY <1>4, CapQueryValuesCuts
<1>7. mine(CapQueryValues(query))
  <2> SUFFICES ASSUME NEW k \in DOMAIN CapQueryValues(query),
                      NEW v \in ToSet(CapQueryValues(query)[k])
               PROVE  \/ Blank(k, v)
                      \/ \E p \in {url.query, form.action.query} : k \in DOMAIN p /\ v \in ToSet(p[k])
    OBVIOUS
  <2>1. k \in DOMAIN query /\ v \in ToSet(query[k])
    <3> HIDE DEF query
    <3> QED BY <1>5, CapQueryValuesCuts
  <2>2. CASE k \in DOMAIN values
    BY <1>3, <2>1, <2>2
  <2>3. CASE k \notin DOMAIN values
    BY <1>4, <2>1, <2>3
  <2> QED BY <2>2, <2>3
<1>8. DOMAIN NoBody = {}
  BY DEF NoBody
<1> HIDE DEF query
<1>9. Submits(get, url, form.action)
  <2>1. get.body = NoBody /\ get.query = CapQueryValues(query) /\ get.source = "static:html" /\ get.resp = NoResponse
    BY DEF Observed
  <2> HIDE DEF get
  <2> QED BY <1>7, <1>8, <2>1 DEF Submits
<1>10. Submits(post, url, form.action)
  <2>1. /\ post.body = values /\ post.query = CapQueryValues(target.query)
        /\ post.source = "static:html" /\ post.resp = NoResponse
    BY DEF Observed
  <2> HIDE DEF post
  <2> QED BY <1>3, <1>6, <2>1 DEF Submits
<1> HIDE DEF get, post, method
<1> QED BY <1>1, <1>9, <1>10

\* What the forms of a page add to a capture.
LEMMA FormRequestsAre ==
  ASSUME NEW forms \in Seq(Forms), NEW url, IsQuery(url.query)
  PROVE  /\ FormRequests(forms, url) \in Seq(ToSet(FormRequests(forms, url)))
         /\ \A r \in ToSet(FormRequests(forms, url)) :
               \E tok \in FormTokens : Submits(r, url, tok.action)
<1> DEFINE request == [i \in DOMAIN forms |-> FormRequest(forms[i], url)]
           I == {i \in DOMAIN forms : ResolvesAction(url, forms[i].action)}
           rs == {request[i] : i \in I}
<1>1. Len(forms) \in Nat /\ DOMAIN forms = 1..Len(forms) /\ \A i \in DOMAIN forms : forms[i] \in Forms
  BY LenProperties, ElementOfSeq
<1>2. \A i \in I : Submits(request[i], url, forms[i].action) /\ \E tok \in FormTokens : forms[i].action = tok.action
  BY <1>1, FormRequestIs DEF Forms
<1>3. I \in SUBSET (1..Len(forms))
  BY <1>1
<1>4. Pick(request, I) \in Seq(rs) /\ ToSet(Pick(request, I)) = rs
  <2> HIDE DEF request, I
  <2> QED BY <1>1, <1>3, PickElements
<1>5. FormRequests(forms, url) = Pick(request, I)
  BY DEF FormRequests
<1>6. \A r \in rs : \E tok \in FormTokens : Submits(r, url, tok.action)
  <2> TAKE r \in rs
  <2>1. PICK i \in I : r = request[i]
    OBVIOUS
  <2> HIDE DEF request, I
  <2> QED BY <1>2, <2>1
<1> HIDE DEF rs, request, I
<1> QED BY <1>4, <1>5, <1>6

-----------------------------------------------------------------------------
(* The endpoints of a source, and the requests made of them.               *)

LEMMA MatchesAreSeq ==
  ASSUME NEW src, IsSeq(src)
  PROVE  /\ IsSeq(JsluiceMatches(src))
         /\ ToSet(JsluiceMatches(src)) =
               {s \in ToSet(src) : s.by \in {"fetch", "other"}}
                 \cup {[s EXCEPT !.method = ""] :
                         s \in {t \in ToSet(src) : t.by = "fetch" /\ t.method # ""}}
<1> DEFINE bare(s) == [s EXCEPT !.method = ""]
           report(s) == IF s.by \notin {"fetch", "other"} THEN <<>>
                        ELSE IF s.by = "fetch" /\ s.method # "" THEN <<s, bare(s)>>
                        ELSE <<s>>
           A == ToSet(src) \cup {bare(s) : s \in ToSet(src)}
           ss == [i \in DOMAIN src |-> report(src[i])]
<1>1. Len(src) \in Nat /\ DOMAIN src = 1..Len(src) /\ \A i \in DOMAIN src : src[i] \in ToSet(src)
  BY SeqIsSeq DEF IsSeq
<1>2. ASSUME NEW s \in ToSet(src) PROVE report(s) \in Seq(A)
  <2>1. s \in A /\ bare(s) \in A
    OBVIOUS
  <2> HIDE DEF A, bare
  <2>2. <<>> \in Seq(A) /\ <<s>> \in Seq(A) /\ <<s, bare(s)>> \in Seq(A)
    BY <2>1
  <2> QED BY <2>2
<1>3. ss \in [1..Len(src) -> Seq(A)]
  <2> HIDE DEF report, A
  <2> QED BY <1>1, <1>2
<1>4. ss \in Seq(Seq(A))
  <2> HIDE DEF ss, A
  <2> QED BY <1>1, <1>3, SeqDef
<1>5. FlattenSeq(ss) \in Seq(A) /\ ToSet(FlattenSeq(ss)) = UNION {ToSet(ss[i]) : i \in DOMAIN ss}
  <2> HIDE DEF ss, A
  <2> QED BY <1>4, FlattenElements
<1>6. JsluiceMatches(src) = FlattenSeq(ss)
  BY DEF JsluiceMatches
<1>7. IsSeq(FlattenSeq(ss))
  <2> HIDE DEF ss, A
  <2> QED BY <1>5, SeqIsSeq
<1>8. UNION {ToSet(ss[i]) : i \in DOMAIN ss} = UNION {ToSet(report(s)) : s \in ToSet(src)}
  <2> DEFINE L == {ToSet(ss[i]) : i \in DOMAIN ss}
             R == {ToSet(report(s)) : s \in ToSet(src)}
  <2>1. \A i \in DOMAIN src : ss[i] = report(src[i])
    OBVIOUS
  <2>2. DOMAIN ss = DOMAIN src /\ ToSet(src) = {src[i] : i \in DOMAIN src}
    BY DEF ToSet
  <2> HIDE DEF report, ss
  <2>3. L = R
    BY <2>1, <2>2
  <2> QED BY <2>3
<1>9. \A s \in ToSet(src) :
         ToSet(report(s)) = IF s.by \notin {"fetch", "other"} THEN {}
                            ELSE IF s.by = "fetch" /\ s.method # "" THEN {s, bare(s)}
                            ELSE {s}
  <2>1. ToSet(<<>>) = {}
    BY DEF ToSet
  <2>2. \A x : ToSet(<<x>>) = {x}
    <3> TAKE x
    <3>1. DOMAIN <<x>> = {1} /\ <<x>>[1] = x
      OBVIOUS
    <3> QED BY <3>1 DEF ToSet
  <2>3. \A x, y : ToSet(<<x, y>>) = {x, y}
    <3> TAKE x, y
    <3>1. DOMAIN <<x, y>> = {1, 2} /\ <<x, y>>[1] = x /\ <<x, y>>[2] = y
      OBVIOUS
    <3> QED BY <3>1 DEF ToSet
  <2> HIDE DEF bare
  <2> QED BY <2>1, <2>2, <2>3
<1>10. UNION {ToSet(report(s)) : s \in ToSet(src)} =
               {s \in ToSet(src) : s.by \in {"fetch", "other"}}
                 \cup {bare(s) : s \in {t \in ToSet(src) : t.by = "fetch" /\ t.method # ""}}
  <2> DEFINE L == UNION {ToSet(report(s)) : s \in ToSet(src)}
             P == {s \in ToSet(src) : s.by \in {"fetch", "other"}}
             Q == {bare(s) : s \in {t \in ToSet(src) : t.by = "fetch" /\ t.method # ""}}
  <2> HIDE DEF bare, report
  <2>1. ASSUME NEW x \in L PROVE x \in P \cup Q
    <3>1. PICK s \in ToSet(src) : x \in ToSet(report(s))
      OBVIOUS
    <3>2. s.by \in {"fetch", "other"} /\ (x = s \/ (x = bare(s) /\ s.by = "fetch" /\ s.method # ""))
      BY <1>9, <3>1
    <3> QED BY <3>1, <3>2
  <2>2. ASSUME NEW x \in P \cup Q PROVE x \in L
    <3>1. CASE x \in P
      BY <1>9, <3>1
    <3>2. CASE x \in Q
      <4>1. PICK s \in ToSet(src) : x = bare(s) /\ s.by = "fetch" /\ s.method # ""
        BY <3>2
      <4>2. x \in ToSet(report(s))
        BY <1>9, <4>1
      <4> QED BY <4>2
    <3> QED BY <3>1, <3>2
  <2> QED BY <2>1, <2>2
<1> HIDE DEF ss, report, A
<1> QED BY <1>5, <1>6, <1>7, <1>8, <1>10

\* The key of a site's URL, whatever names its substitutions are given.
RawKey(url, base) ==
    <<IF url.host = "" THEN base ELSE url.host,
      [i \in DOMAIN url.segs |->
        IF url.segs[i] \in {Expr, ConcatSentinel} \/ url.segs[i][1] = "param"
        THEN <<"{}">> ELSE url.segs[i]]>>

LEMMA KeyOfNormal ==
  ASSUME NEW s, DOMAIN s.url = {"host", "segs", "kind"}, NEW base
  PROVE  ConcatDedupKey(NormalURL(s), base) = RawKey(s.url, base)
<1> DEFINE segs == NormalizeEXPRPath(s.url.segs, s.tokens)
           url == NormalURL(s)
           key(ss) == [i \in DOMAIN ss |-> IF ss[i] = ConcatSentinel \/ ss[i][1] = "param"
                                           THEN <<"{}">> ELSE ss[i]]
           raw(ss) == [i \in DOMAIN ss |->
                         IF ss[i] \in {Expr, ConcatSentinel} \/ ss[i][1] = "param"
                         THEN <<"{}">> ELSE ss[i]]
<1>1. url.host = s.url.host /\ url.segs = segs
  BY DEF NormalURL
<1>2. DOMAIN segs = DOMAIN s.url.segs
  BY DEF NormalizeEXPRPath
<1>3. ASSUME NEW i \in DOMAIN s.url.segs
      PROVE  segs[i] = s.url.segs[i] \/ (s.url.segs[i] = Expr /\ segs[i][1] = "param")
  BY DEF NormalizeEXPRPath
<1>4. Expr # ConcatSentinel /\ Expr[1] # "param"
  BY DEF Expr, ConcatSentinel
<1> HIDE DEF segs
<1>5. ASSUME NEW i \in DOMAIN s.url.segs
      PROVE  key(segs)[i] = raw(s.url.segs)[i]
  <2>1. CASE s.url.segs[i] = Expr
    <3>1. segs[i] = Expr => FALSE
      BY <2>1 DEF segs, NormalizeEXPRPath, Expr
    <3>2. segs[i][1] = "param"
      BY <1>3, <2>1, <3>1
    <3> QED BY <1>2, <2>1, <3>2
  <2>2. CASE s.url.segs[i] # Expr
    BY <1>2, <1>3, <2>2
  <2> QED BY <2>1, <2>2
<1>6. key(segs) = raw(s.url.segs)
  BY <1>2, <1>5
<1> QED BY <1>1, <1>6 DEF ConcatDedupKey, RawKey

\* The parser's reports of a call, as (method, key).
KeyedCall(e, base) == <<e.method, ConcatDedupKey(e.url, base)>>

LEMMA AxiosCallsAre ==
  ASSUME NEW src, IsSeq(src)
  PROVE  /\ IsSeq(AxiosCalls(src))
         /\ ToSet(AxiosCalls(src)) =
              {Endpoint(s, MethodOr(s, "GET"), s.fields) :
                 s \in {t \in ToSet(src) : t.by = "axios" /\ ~Dropped(t.url)}}
<1> DEFINE ep == [i \in DOMAIN src |-> Endpoint(src[i], MethodOr(src[i], "GET"), src[i].fields)]
           I == {i \in DOMAIN src : src[i].by = "axios" /\ ~Dropped(src[i].url)}
<1>1. Len(src) \in Nat /\ DOMAIN src = 1..Len(src)
  BY SeqIsSeq DEF IsSeq
<1>2. I \in SUBSET (1..Len(src)) /\ AxiosCalls(src) = Pick(ep, I)
  BY <1>1 DEF AxiosCalls
<1>3. IsSeq(Pick(ep, I)) /\ ToSet(Pick(ep, I)) = {ep[i] : i \in I}
  <2> HIDE DEF ep, I
  <2> QED BY <1>1, <1>2, PickIsSeq
<1>4. {ep[i] : i \in I} = {Endpoint(s, MethodOr(s, "GET"), s.fields) :
                 s \in {t \in ToSet(src) : t.by = "axios" /\ ~Dropped(t.url)}}
  BY DEF ToSet
<1> QED BY <1>2, <1>3, <1>4

LEMMA TemplateFetchesAre ==
  ASSUME NEW src, IsSeq(src)
  PROVE  /\ IsSeq(TemplateLiteralFetches(src))
         /\ ToSet(TemplateLiteralFetches(src)) =
              {FetchEndpoint(src, s) :
                 s \in {t \in ToSet(src) : t.by = "template" /\ ~Dropped(t.url)}}
<1> DEFINE ep == [i \in DOMAIN src |-> FetchEndpoint(src, src[i])]
           I == {i \in DOMAIN src : src[i].by = "template" /\ ~Dropped(src[i].url)}
<1>1. Len(src) \in Nat /\ DOMAIN src = 1..Len(src)
  BY SeqIsSeq DEF IsSeq
<1>2. I \in SUBSET (1..Len(src)) /\ TemplateLiteralFetches(src) = Pick(ep, I)
  BY <1>1 DEF TemplateLiteralFetches
<1>3. IsSeq(Pick(ep, I)) /\ ToSet(Pick(ep, I)) = {ep[i] : i \in I}
  <2> HIDE DEF ep, I
  <2> QED BY <1>1, <1>2, PickIsSeq
<1>4. {ep[i] : i \in I} = {FetchEndpoint(src, s) :
                 s \in {t \in ToSet(src) : t.by = "template" /\ ~Dropped(t.url)}}
  BY DEF ToSet
<1> QED BY <1>2, <1>3, <1>4

\* The URLs of fetches that name a method, and the reports that are kept.
Named(src) == {s.url : s \in {t \in ToSet(src) : t.by = "fetch" /\ t.method # ""}}
Reported(src) == {m \in ToSet(JsluiceMatches(src)) :
                    ~Dropped(m.url) /\ ~(m.by = "fetch" /\ m.method = "" /\ m.url \in Named(src))}

LEMMA JsluiceEndpointsAre ==
  ASSUME NEW src, AreSites(src)
  PROVE  /\ IsSeq(JsluiceEndpoints(src))
         /\ ToSet(JsluiceEndpoints(src)) =
              {FetchEndpoint(src, [m EXCEPT !.tokens = <<>>]) : m \in Reported(src)}
         /\ Reported(src) =
              {s \in ToSet(src) : /\ s.by \in {"fetch", "other"} /\ ~Dropped(s.url)
                                  /\ ~(s.by = "fetch" /\ s.method = "" /\ s.url \in Named(src))}
<1> DEFINE matches == JsluiceMatches(src)
           named   == {m.url : m \in {n \in ToSet(matches) : n.by = "fetch" /\ n.method # ""}}
           kept(m) == ~Dropped(m.url) /\ ~(m.by = "fetch" /\ m.method = "" /\ m.url \in named)
           ep == [i \in DOMAIN matches |-> FetchEndpoint(src, [matches[i] EXCEPT !.tokens = <<>>])]
           I == {i \in DOMAIN matches : kept(matches[i])}
           bare(s) == [s EXCEPT !.method = ""]
<1>1. IsSeq(src)
  BY DEF AreSites, IsSeq
<1>2. /\ IsSeq(matches)
      /\ ToSet(matches) = {s \in ToSet(src) : s.by \in {"fetch", "other"}}
                 \cup {bare(s) : s \in {t \in ToSet(src) : t.by = "fetch" /\ t.method # ""}}
  BY <1>1, MatchesAreSeq
<1>3. ASSUME NEW s \in ToSet(src)
      PROVE  bare(s).method = "" /\ bare(s).url = s.url /\ bare(s).by = s.by
  BY DEF AreSites
<1>4. Len(matches) \in Nat /\ DOMAIN matches = 1..Len(matches)
  BY <1>2, SeqIsSeq DEF IsSeq
<1>5. I \in SUBSET (1..Len(matches)) /\ JsluiceEndpoints(src) = Pick(ep, I)
  BY <1>4 DEF JsluiceEndpoints
<1>6. IsSeq(Pick(ep, I)) /\ ToSet(Pick(ep, I)) = {ep[i] : i \in I}
  <2> HIDE DEF ep, I
  <2> QED BY <1>4, <1>5, PickIsSeq
<1> HIDE DEF bare, matches
<1>7. named = Named(src)
  BY <1>2, <1>3 DEF Named
<1>8. {ep[i] : i \in I} =
         {FetchEndpoint(src, [m EXCEPT !.tokens = <<>>]) : m \in {n \in ToSet(matches) : kept(n)}}
  <2> HIDE DEF named
  <2> QED BY DEF ToSet
<1>9. Reported(src) = {n \in ToSet(matches) : kept(n)}
  BY <1>7 DEF Reported, matches
<1>10. Reported(src) =
              {s \in ToSet(src) : /\ s.by \in {"fetch", "other"} /\ ~Dropped(s.url)
                                  /\ ~(s.by = "fetch" /\ s.method = "" /\ s.url \in Named(src))}
  <2>1. ASSUME NEW s \in ToSet(src), s.by = "fetch", s.method # ""
        PROVE  bare(s) \notin Reported(src)
    <3>1. s.url \in Named(src)
      BY <2>1 DEF Named
    <3> QED BY <1>3, <2>1, <3>1 DEF Reported
  <2> QED BY <1>2, <2>1 DEF Reported, matches
<1> QED BY <1>5, <1>6, <1>8, <1>9, <1>10

\* Each endpoint has its first, and the firsts are among the endpoints.
LEMMA FirstSeenIs ==
  ASSUME NEW eps, IsSeq(eps)
  PROVE  /\ IsSeq(FirstSeen(eps)) /\ ToSet(FirstSeen(eps)) \subseteq ToSet(eps)
         /\ \A e \in ToSet(eps) : \E f \in ToSet(FirstSeen(eps)) :
               f.method = e.method /\ f.url = e.url
<1> DEFINE again(i) == \E j \in 1..(i - 1) : /\ eps[j].method = eps[i].method
                                             /\ eps[j].url = eps[i].url
           I == {i \in DOMAIN eps : ~again(i)}
<1>1. Len(eps) \in Nat /\ DOMAIN eps = 1..Len(eps)
  BY SeqIsSeq DEF IsSeq
<1>2. I \in SUBSET (1..Len(eps)) /\ FirstSeen(eps) = Pick(eps, I)
  BY <1>1 DEF FirstSeen
<1>3. IsSeq(Pick(eps, I)) /\ ToSet(Pick(eps, I)) = {eps[i] : i \in I}
  <2> HIDE DEF I
  <2> QED BY <1>1, <1>2, PickIsSeq
<1>4. {eps[i] : i \in I} \subseteq ToSet(eps)
  BY DEF ToSet
<1>5. ASSUME NEW e \in ToSet(eps)
      PROVE  \E i \in I : eps[i].method = e.method /\ eps[i].url = e.url
  <2> DEFINE T == {j \in 1..Len(eps) : eps[j].method = e.method /\ eps[j].url = e.url}
  <2>1. T # {} /\ T \in SUBSET Nat
    BY <1>1 DEF ToSet
  <2>2. PICK n \in T : \A m \in T : n <= m
    <3> HIDE DEF T
    <3> QED BY <2>1, LeastExists
  <2>3. ~again(n)
    <3> SUFFICES ASSUME NEW j \in 1..(n - 1), eps[j].method = eps[n].method, eps[j].url = eps[n].url
                 PROVE  FALSE
      OBVIOUS
    <3>1. n \in 1..Len(eps) /\ j \in 1..Len(eps) /\ ~(n <= j)
      BY <1>1, <2>2
    <3>2. j \in T
      BY <2>2, <3>1
    <3> QED BY <2>2, <3>1, <3>2
  <2>4. n \in I
    BY <1>1, <2>2, <2>3
  <2> QED BY <2>2, <2>4
<1> HIDE DEF I
<1>6. \A e \in ToSet(eps) : \E f \in {eps[i] : i \in I} : f.method = e.method /\ f.url = e.url
  BY <1>5
<1> QED BY <1>2, <1>3, <1>4, <1>6

\* Paths of the bundle's own origin that no endpoint of ast has.
NewPaths(eps, base, ast) ==
    /\ IsSeq(eps)
    /\ \A e \in ToSet(eps) :
          /\ IsConcat(e) /\ "tag" \in DOMAIN e /\ e.url.host \in {"", base}
          /\ \A i \in DOMAIN ast : ConcatDedupKey(ast[i].url, base) # ConcatDedupKey(e.url, base)

LEMMA ConcatEndpointsAre ==
  ASSUME NEW src, IsSeq(src), NEW base, NEW ast
  PROVE  NewPaths(ConcatEndpoints(src, base, ast), base, ast)
<1> DEFINE known == {ConcatDedupKey(ast[i].url, base) : i \in DOMAIN ast}
           new   == {i \in DOMAIN src : /\ src[i].by = "concat" /\ src[i].url.kind # "filtered"
                                        /\ src[i].url.host \in {"", base}
                                        /\ ConcatDedupKey(src[i].url, base) \notin known}
           ep == [i \in DOMAIN src |-> [method |-> "GET", url |-> src[i].url, fields |-> {},
                                        tag |-> "static:js-concat"]]
<1>1. Len(src) \in Nat /\ DOMAIN src = 1..Len(src)
  BY SeqIsSeq DEF IsSeq
<1>2. new \in SUBSET (1..Len(src)) /\ ConcatEndpoints(src, base, ast) = FirstSeen(Pick(ep, new))
  BY <1>1 DEF ConcatEndpoints
<1>3. IsSeq(Pick(ep, new)) /\ ToSet(Pick(ep, new)) = {ep[i] : i \in new}
  <2> HIDE DEF ep, new
  <2> QED BY <1>1, <1>2, PickIsSeq
<1>4. IsSeq(FirstSeen(Pick(ep, new))) /\ ToSet(FirstSeen(Pick(ep, new))) \subseteq {ep[i] : i \in new}
  <2> DEFINE p == Pick(ep, new)
  <2>1. IsSeq(p)
    BY <1>3
  <2> HIDE DEF p
  <2>2. IsSeq(FirstSeen(p)) /\ ToSet(FirstSeen(p)) \subseteq ToSet(p)
    BY <2>1, FirstSeenIs
  <2> QED BY <1>3, <2>2 DEF p
<1>5. ASSUME NEW i \in new
      PROVE  /\ IsConcat(ep[i]) /\ "tag" \in DOMAIN ep[i] /\ ep[i].url.host \in {"", base}
             /\ ConcatDedupKey(ep[i].url, base) \notin known
  <2>1. ep[i].url = src[i].url /\ ep[i].tag = "static:js-concat" /\ "tag" \in DOMAIN ep[i]
    OBVIOUS
  <2> QED BY <2>1 DEF IsConcat
<1> HIDE DEF ep, new
<1>6. \A e \in ToSet(ConcatEndpoints(src, base, ast)) :
               /\ IsConcat(e) /\ "tag" \in DOMAIN e
               /\ e.url.host \in {"", base} /\ ConcatDedupKey(e.url, base) \notin known
  BY <1>2, <1>4, <1>5
<1>7. IsSeq(ConcatEndpoints(src, base, ast))
  BY <1>2, <1>4
<1> QED BY <1>6, <1>7 DEF NewPaths

IsParsed(e) == ~IsConcat(e) /\ "tag" \in DOMAIN e
Sited(by) == by \in {"axios", "template", "fetch", "other"}

\* What the parser reads: its own calls, and all of them but for the repeats.
LEMMA ParsedEndpointsAre ==
  ASSUME NEW src, AreSites(src), NEW base
  PROVE  LET ast == FirstSeen(AxiosCalls(src) \o TemplateLiteralFetches(src) \o JsluiceEndpoints(src))
         IN  /\ IsSeq(ast)
             /\ \A e \in ToSet(ast) : IsParsed(e) /\ KeyedCall(e, base) \in Calls(ToSet(src), base)
             /\ \A c \in Calls(ToSet(src), base) : \E e \in ToSet(ast) : KeyedCall(e, base)[2] = c[2]
             /\ \A c \in Calls(ToSet(src) \ TakenForRepeats(src), base) :
                   \E e \in ToSet(ast) : KeyedCall(e, base) = c
<1> DEFINE A == AxiosCalls(src)
           T == TemplateLiteralFetches(src)
           J == JsluiceEndpoints(src)
           eps == A \o T \o J
           ast == FirstSeen(eps)
           anon(m) == [m EXCEPT !.tokens = <<>>]
           call(s) == <<MethodOr(s, "GET"), ConcatDedupKey(NormalURL(s), base)>>
<1>1. IsSeq(src) /\ \A s \in ToSet(src) : DOMAIN s = {"by", "method", "url", "tokens", "fields"}
                                          /\ DOMAIN s.url = {"host", "segs", "kind"}
  BY DEF AreSites, IsSeq
<1>2. IsSeq(A) /\ ToSet(A) = {Endpoint(s, MethodOr(s, "GET"), s.fields) :
                 s \in {t \in ToSet(src) : t.by = "axios" /\ ~Dropped(t.url)}}
  BY <1>1, AxiosCallsAre
<1>3. IsSeq(T) /\ ToSet(T) = {FetchEndpoint(src, s) :
                 s \in {t \in ToSet(src) : t.by = "template" /\ ~Dropped(t.url)}}
  BY <1>1, TemplateFetchesAre
<1>4. /\ IsSeq(J) /\ ToSet(J) = {FetchEndpoint(src, anon(m)) : m \in Reported(src)}
      /\ Reported(src) =
              {s \in ToSet(src) : /\ s.by \in {"fetch", "other"} /\ ~Dropped(s.url)
                                  /\ ~(s.by = "fetch" /\ s.method = "" /\ s.url \in Named(src))}
  BY JsluiceEndpointsAre
<1>5. IsSeq(eps) /\ ToSet(eps) = ToSet(A) \cup ToSet(T) \cup ToSet(J)
  <2> HIDE DEF A, T, J
  <2>1. IsSeq(A \o T) /\ ToSet(A \o T) = ToSet(A) \cup ToSet(T)
    BY <1>2, <1>3, ConcatIsSeq
  <2> QED BY <1>4, <2>1, ConcatIsSeq
<1> HIDE DEF A, T, J, eps
<1>6. /\ IsSeq(ast) /\ ToSet(ast) \subseteq ToSet(eps)
      /\ \A e \in ToSet(eps) : \E f \in ToSet(ast) : f.method = e.method /\ f.url = e.url
  BY <1>5, FirstSeenIs
<1> HIDE DEF ast
<1>7. ASSUME NEW s \in ToSet(src)
      PROVE  /\ \A fields : KeyedCall(Endpoint(s, MethodOr(s, "GET"), fields), base) = call(s)
             /\ KeyedCall(FetchEndpoint(src, s), base) = call(s)
             /\ KeyedCall(FetchEndpoint(src, anon(s)), base) = call(s)
             /\ call(s)[2] = RawKey(s.url, base)
  <2>1. \A m, fields, t : Endpoint(t, m, fields).method = m /\ Endpoint(t, m, fields).url = NormalURL(t)
    BY DEF Endpoint
  <2>2. /\ \A fields : KeyedCall(Endpoint(s, MethodOr(s, "GET"), fields), base) = call(s)
        /\ KeyedCall(FetchEndpoint(src, s), base) = call(s)
    BY <2>1 DEF KeyedCall, FetchEndpoint
  <2>3. anon(s).method = s.method /\ anon(s).url = s.url
    BY <1>1
  <2>4. MethodOr(anon(s), "GET") = MethodOr(s, "GET")
    BY <2>3 DEF MethodOr
  <2>5. /\ ConcatDedupKey(NormalURL(s), base) = RawKey(s.url, base)
        /\ ConcatDedupKey(NormalURL(anon(s)), base) = RawKey(s.url, base)
    <3>1. DOMAIN s.url = {"host", "segs", "kind"}
      BY <1>1
    <3> HIDE DEF anon
    <3> QED BY <2>3, <3>1, KeyOfNormal
  <2> HIDE DEF anon
  <2>6. KeyedCall(FetchEndpoint(src, anon(s)), base) = call(s)
    BY <2>1, <2>4, <2>5 DEF KeyedCall, FetchEndpoint
  <2> QED BY <2>2, <2>5, <2>6
<1>8. \A s \in ToSet(src) : Sited(s.by) /\ ~Dropped(s.url) => call(s) \in Calls(ToSet(src), base)
  BY DEF Calls, Sited
<1>9. \A e : (\E s, m, fields : e = Endpoint(s, m, fields)) => IsParsed(e)
  BY DEF Endpoint, IsConcat, IsParsed
<1>10. ASSUME NEW e \in ToSet(eps)
       PROVE  IsParsed(e) /\ KeyedCall(e, base) \in Calls(ToSet(src), base)
  <2>1. CASE e \in ToSet(A)
    <3>1. PICK s \in ToSet(src) : /\ s.by = "axios" /\ ~Dropped(s.url)
                                  /\ e = Endpoint(s, MethodOr(s, "GET"), s.fields)
      BY <1>2, <2>1
    <3> QED BY <1>7, <1>8, <1>9, <3>1 DEF Sited
  <2>2. CASE e \in ToSet(T)
    <3>1. PICK s \in ToSet(src) : /\ s.by = "template" /\ ~Dropped(s.url) /\ e = FetchEndpoint(src, s)
      BY <1>3, <2>2
    <3>2. IsParsed(e)
      BY <1>9, <3>1 DEF FetchEndpoint
    <3> QED BY <1>7, <1>8, <3>1, <3>2 DEF Sited
  <2>3. CASE e \in ToSet(J)
    <3>1. PICK s \in Reported(src) : e = FetchEndpoint(src, anon(s))
      BY <1>4, <2>3
    <3>2. s \in ToSet(src) /\ s.by \in {"fetch", "other"} /\ ~Dropped(s.url)
      BY <1>4
    <3>3. IsParsed(e)
      <4> HIDE DEF anon
      <4> QED BY <1>9, <3>1 DEF FetchEndpoint
    <3> HIDE DEF anon
    <3> QED BY <1>7, <1>8, <3>1, <3>2, <3>3 DEF Sited
  <2> QED BY <1>5, <2>1, <2>2, <2>3
<1> HIDE DEF anon
\* A call that the parser keeps has its endpoint.
<1>11. ASSUME NEW s \in ToSet(src), Sited(s.by), ~Dropped(s.url),
              ~(s.by = "fetch" /\ s.method = "" /\ s.url \in Named(src))
       PROVE  \E e \in ToSet(eps) : KeyedCall(e, base) = call(s)
  <2>1. CASE s.by = "axios"
    BY <1>2, <1>5, <1>7, <1>11, <2>1
  <2>2. CASE s.by = "template"
    BY <1>3, <1>5, <1>7, <1>11, <2>2
  <2>3. CASE s.by \in {"fetch", "other"}
    <3>1. s \in Reported(src)
      BY <1>4, <1>11, <2>3
    <3> QED BY <1>4, <1>5, <1>7, <3>1
  <2> QED BY <1>11, <2>1, <2>2, <2>3 DEF Sited
<1>12. \A e \in ToSet(eps) : \E f \in ToSet(ast) : KeyedCall(f, base) = KeyedCall(e, base)
  BY <1>6 DEF KeyedCall
<1>13. ASSUME NEW c \in Calls(ToSet(src) \ TakenForRepeats(src), base)
       PROVE  \E e \in ToSet(ast) : KeyedCall(e, base) = c
  <2>1. PICK s \in ToSet(src) : /\ s \notin TakenForRepeats(src) /\ Sited(s.by) /\ ~Dropped(s.url)
                                /\ c = call(s)
    BY DEF Calls, Sited
  <2>2. ~(s.by = "fetch" /\ s.method = "" /\ s.url \in Named(src))
    BY <2>1 DEF TakenForRepeats, Named
  <2> QED BY <1>11, <1>12, <2>1, <2>2
<1>14. ASSUME NEW c \in Calls(ToSet(src), base)
       PROVE  \E e \in ToSet(ast) : KeyedCall(e, base)[2] = c[2]
  <2>1. PICK s \in ToSet(src) : Sited(s.by) /\ ~Dropped(s.url) /\ c = call(s)
    BY DEF Calls, Sited
  <2>2. CASE ~(s.by = "fetch" /\ s.method = "" /\ s.url \in Named(src))
    BY <1>11, <1>12, <2>1, <2>2
  <2>3. CASE s.by = "fetch" /\ s.method = "" /\ s.url \in Named(src)
    <3>1. PICK t \in ToSet(src) : t.by = "fetch" /\ t.method # "" /\ t.url = s.url
      BY <2>3 DEF Named
    <3>2. Sited(t.by) /\ ~Dropped(t.url)
      BY <2>1, <3>1 DEF Sited
    <3>3. PICK e \in ToSet(eps) : KeyedCall(e, base) = call(t)
      BY <1>11, <3>1, <3>2
    <3>4. call(t)[2] = call(s)[2]
      BY <1>7, <3>1
    <3> QED BY <1>12, <2>1, <3>3, <3>4
  <2> QED BY <2>2, <2>3
<1>15. /\ IsSeq(ast)
       /\ \A e \in ToSet(ast) : IsParsed(e) /\ KeyedCall(e, base) \in Calls(ToSet(src), base)
       /\ \A c \in Calls(ToSet(src), base) : \E e \in ToSet(ast) : KeyedCall(e, base)[2] = c[2]
       /\ \A c \in Calls(ToSet(src) \ TakenForRepeats(src), base) :
             \E e \in ToSet(ast) : KeyedCall(e, base) = c
  BY <1>6, <1>10, <1>13, <1>14
<1> QED BY <1>15 DEF ast, eps, A, T, J

\* The endpoints of a source: calls it makes, and paths no call has.
Explained(eps, src, base) ==
    /\ IsSeq(eps) /\ \A e \in ToSet(eps) : "tag" \in DOMAIN e
    /\ \A e \in ToSet(eps) :
          IF IsConcat(e)
          THEN e.url.host \in {"", base} /\
               \A c \in Calls(ToSet(src), base) : KeyedCall(e, base)[2] # c[2]
          ELSE KeyedCall(e, base) \in Calls(ToSet(src), base)
    /\ \A c \in Calls(ToSet(src) \ TakenForRepeats(src), base) :
          \E e \in ToSet(eps) : KeyedCall(e, base) = c

LEMMA ExtractedAre ==
  ASSUME NEW src, AreSites(src), NEW base
  PROVE  Explained(ExtractFromBundle(src, base), src, base)
<1> DEFINE ast == FirstSeen(AxiosCalls(src) \o TemplateLiteralFetches(src) \o JsluiceEndpoints(src))
           concat == ConcatEndpoints(src, base, ast)
<1>1. /\ IsSeq(ast)
      /\ \A e \in ToSet(ast) : IsParsed(e) /\ KeyedCall(e, base) \in Calls(ToSet(src), base)
      /\ \A c \in Calls(ToSet(src), base) : \E e \in ToSet(ast) : KeyedCall(e, base)[2] = c[2]
      /\ \A c \in Calls(ToSet(src) \ TakenForRepeats(src), base) :
            \E e \in ToSet(ast) : KeyedCall(e, base) = c
  BY ParsedEndpointsAre
<1> HIDE DEF ast
<1>2. /\ IsSeq(concat)
      /\ \A e \in ToSet(concat) :
               /\ IsConcat(e) /\ "tag" \in DOMAIN e /\ e.url.host \in {"", base}
               /\ \A i \in DOMAIN ast : ConcatDedupKey(ast[i].url, base) # ConcatDedupKey(e.url, base)
  <2>1. IsSeq(src)
    BY DEF AreSites, IsSeq
  <2>2. NewPaths(concat, base, ast)
    BY <2>1, ConcatEndpointsAre
  <2> HIDE DEF concat
  <2> QED BY <2>2 DEF NewPaths
<1> HIDE DEF concat
<1>3. \A e \in ToSet(concat) : \A f \in ToSet(ast) : KeyedCall(f, base)[2] # KeyedCall(e, base)[2]
  BY <1>2 DEF ToSet, KeyedCall
<1>4. ExtractFromBundle(src, base) = ast \o concat
  BY DEF ExtractFromBundle, ast, concat
<1>5. IsSeq(ast \o concat) /\ ToSet(ast \o concat) = ToSet(ast) \cup ToSet(concat)
  BY <1>1, <1>2, ConcatIsSeq
<1>6. ASSUME NEW e \in ToSet(concat)
      PROVE  \A c \in Calls(ToSet(src), base) : KeyedCall(e, base)[2] # c[2]
  BY <1>1, <1>3
<1> QED BY <1>1, <1>2, <1>4, <1>5, <1>6 DEF Explained, IsParsed

-----------------------------------------------------------------------------
(* The cap of a bundle.                                                    *)

LEMMA LeastIs ==
  ASSUME NEW T \in SUBSET Nat, T # {}
  PROVE  Least(T) \in T /\ \A n \in T : Least(T) <= n
BY LeastExists DEF Least

\* The positions of t that s is made of, each at most once.
Places(s, t) == {g \in Injection(DOMAIN s, DOMAIN t) : \A i \in DOMAIN s : s[i] = t[g[i]]}

LEMMA PickPlaces ==
  ASSUME NEW t, IsSeq(t), NEW I \in SUBSET (DOMAIN t)
  PROVE  \E g \in Places(Pick(t, I), t) : \A k \in DOMAIN Pick(t, I) : g[k] \in I
<1> DEFINE pos(k) == CHOOSE i \in I : RankIn(i, I) = k
           K == 1..Cardinality(I)
           g == [k \in K |-> pos(k)]
<1>1. Len(t) \in Nat /\ DOMAIN t = 1..Len(t)
  BY SeqIsSeq DEF IsSeq
<1>2. \A k \in K : pos(k) \in I /\ RankIn(pos(k), I) = k
  BY <1>1, Ranking
<1>3. DOMAIN Pick(t, I) = K /\ \A k \in K : Pick(t, I)[k] = t[pos(k)]
  BY DEF Pick
<1> HIDE DEF pos
<1>4. g \in Injection(K, DOMAIN t)
  <2>1. g \in [K -> DOMAIN t]
    BY <1>2
  <2>2. \A a, b \in K : g[a] = g[b] => a = b
    BY <1>2
  <2> HIDE DEF g
  <2> QED BY <2>1, <2>2 DEF Injection, IsInjective
<1>5. \A k \in K : Pick(t, I)[k] = t[g[k]] /\ g[k] \in I
  BY <1>2, <1>3
<1> HIDE DEF g
<1> QED BY <1>3, <1>4, <1>5 DEF Places

LEMMA AtMostIs ==
  ASSUME NEW s, IsSeq(s), NEW n \in Nat
  PROVE  /\ IsSeq(AtMost(s, n)) /\ ToSet(AtMost(s, n)) \subseteq ToSet(s)
         /\ Len(AtMost(s, n)) = IF Len(s) <= n THEN Len(s) ELSE n
         /\ \A i \in DOMAIN AtMost(s, n) : i \in DOMAIN s /\ AtMost(s, n)[i] = s[i]
<1>1. Len(s) \in Nat /\ DOMAIN s = 1..Len(s) /\ \A i \in DOMAIN s : s[i] \in ToSet(s)
  BY SeqIsSeq DEF IsSeq
<1>2. CASE Len(s) <= n
  BY <1>2 DEF AtMost
<1>3. CASE ~(Len(s) <= n)
  <2> DEFINE c == SubSeq(s, 1, n)
  <2>1. AtMost(s, n) = c
    BY <1>3 DEF AtMost
  <2>2. /\ c \in Seq(ToSet(s)) /\ Len(c) = n
        /\ \A i \in 1..n : c[i] = s[i]
    <3>1. \A i \in 1..n : s[i] \in ToSet(s)
      BY <1>1, <1>3
    <3>2. /\ c \in Seq(ToSet(s)) /\ Len(c) = IF 1 <= n THEN n - 1 + 1 ELSE 0
          /\ \A i \in 1..(n - 1 + 1) : c[i] = s[1 + i - 1]
      BY <3>1, SubSeqProperties
    <3> HIDE DEF c
    <3> QED BY <3>2
  <2> HIDE DEF c
  <2>3. IsSeq(c) /\ ToSet(c) \subseteq ToSet(s) /\ DOMAIN c = 1..n
    BY <2>2, SeqIsSeq
  <2> QED BY <1>1, <1>3, <2>1, <2>2, <2>3
<1> QED BY <1>2, <1>3

\* Of the positions that s takes from t, no more are in U than U has.
LEMMA CountPlaced ==
  ASSUME NEW s, IsSeq(s), NEW t, IsSeq(t), NEW g \in Places(s, t),
         NEW U \in SUBSET (DOMAIN t), NEW V \in SUBSET (DOMAIN s), \A i \in V : g[i] \in U
  PROVE  /\ Cardinality(V) \in Nat /\ Cardinality(U) \in Nat
         /\ Cardinality(V) <= Cardinality(U)
<1> DEFINE h == [i \in V |-> g[i]]
<1>1. IsFiniteSet(DOMAIN t)
  <2>1. Len(t) \in Nat /\ DOMAIN t = 1..Len(t)
    BY SeqIsSeq DEF IsSeq
  <2> QED BY <2>1, FS_Interval
<1>2. IsFiniteSet(U)
  BY <1>1, FS_Subset
<1>3. h \in Injection(V, U)
  <2>1. \A a, b \in V : g[a] = g[b] => a = b
    BY DEF Places, Injection, IsInjective
  <2> QED BY <2>1 DEF Injection, IsInjective
<1> HIDE DEF h
<1> QED BY <1>2, <1>3, FS_Injection, FS_CardinalityType

ConcatAt(eps) == {i \in DOMAIN eps : IsConcat(eps[i])}
ParsedAt(eps) == {i \in DOMAIN eps : ~IsConcat(eps[i])}

LEMMA SpanIs ==
  ASSUME NEW a \in Nat, NEW b \in Nat, a <= b
  PROVE  IsFiniteSet((a + 1)..b) /\ Cardinality((a + 1)..b) = b - a
<1>1. Cardinality((a + 1)..b) = IF a + 1 > b THEN 0 ELSE b - (a + 1) + 1
  BY FS_Interval
<1>2. IsFiniteSet((a + 1)..b)
  BY FS_Interval
<1> QED BY <1>1, <1>2

LEMMA UptoIs ==
  ASSUME NEW n \in Nat
  PROVE  IsFiniteSet(1..n) /\ Cardinality(1..n) = n
<1>1. 0 + 1 = 1 /\ n - 0 = n /\ 0 <= n
  OBVIOUS
<1> QED BY <1>1, SpanIs

LEMMA KindsPartition ==
  ASSUME NEW eps, IsSeq(eps)
  PROVE  /\ Len(eps) \in Nat /\ DOMAIN eps = 1..Len(eps)
         /\ Cardinality(ConcatAt(eps)) \in Nat /\ Cardinality(ParsedAt(eps)) \in Nat
         /\ Cardinality(ConcatAt(eps)) + Cardinality(ParsedAt(eps)) = Len(eps)
<1>1. Len(eps) \in Nat /\ DOMAIN eps = 1..Len(eps)
  BY SeqIsSeq DEF IsSeq
<1> DEFINE C == ConcatAt(eps)
           P == ParsedAt(eps)
<1>2. C \in SUBSET DOMAIN eps /\ P \in SUBSET DOMAIN eps /\ C \cup P = DOMAIN eps /\ C \cap P = {}
  BY DEF ConcatAt, ParsedAt
<1> HIDE DEF C, P
<1>3. IsFiniteSet(DOMAIN eps) /\ Cardinality(DOMAIN eps) = Len(eps)
  BY <1>1, UptoIs
<1>4. IsFiniteSet(C) /\ IsFiniteSet(P)
  BY <1>2, <1>3, FS_Subset
<1>5. Cardinality(C) \in Nat /\ Cardinality(P) \in Nat /\ Cardinality({}) = 0
  BY <1>4, FS_CardinalityType, FS_EmptySet
<1>6. Cardinality(C \cup P) = Cardinality(C) + Cardinality(P) - Cardinality(C \cap P)
  BY <1>4, FS_Union
<1>7. Cardinality(C) + Cardinality(P) = Len(eps)
  <2>1. Cardinality(C \cap P) = 0 /\ Cardinality(C \cup P) = Len(eps)
    BY <1>2, <1>3, <1>5
  <2> QED BY <1>5, <1>6, <2>1
<1> QED BY <1>1, <1>5, <1>7 DEF C, P

\* What a cap keeps: as much as there is room for, each endpoint once, and of
\* the concat paths no less than the floor.
KeptOf(x, eps, room) ==
    /\ IsSeq(x) /\ Places(x, eps) # {}
    /\ Len(x) = IF Len(eps) <= room THEN Len(eps) ELSE room
    /\ Len(eps) <= room => x = eps
    /\ Cardinality(ConcatAt(x)) \in Nat
    /\ Cardinality(ConcatAt(x)) >=
         Least({Cardinality(ConcatAt(eps)), ConcatMinReserve, room \div 2})

LEMMA FloorIs ==
  ASSUME NEW n \in Nat, NEW room \in Nat
  PROVE  LET floor == Least({n, ConcatMinReserve, room \div 2})
         IN  floor \in Nat /\ floor <= n /\ floor <= room
<1> DEFINE T == {n, ConcatMinReserve, room \div 2}
<1>1. ConcatMinReserve \in Nat /\ room \div 2 \in Nat /\ room \div 2 <= room
  BY ExtractConstants
<1>2. T \in SUBSET Nat /\ T # {} /\ n \in T /\ room \div 2 \in T
  BY <1>1
<1> HIDE DEF T
<1>3. Least(T) \in T /\ \A m \in T : Least(T) <= m
  BY <1>2, LeastIs
<1>4. Least(T) \in Nat /\ Least(T) <= n /\ Least(T) <= room \div 2
  BY <1>2, <1>3
<1>5. Least(T) \in Nat /\ Least(T) <= n /\ Least(T) <= room
  BY <1>1, <1>4
<1> QED BY <1>5 DEF T

LEMMA CappedToRoom ==
  ASSUME NEW eps, IsSeq(eps), NEW room \in Nat, Len(eps) > room
  PROVE  KeptOf(CapBundleEndpoints(eps, room), eps, room)
<1> DEFINE C == Concats(eps)
           P == Parsed(eps)
           c == Cardinality(ConcatAt(eps))
           p == Cardinality(ParsedAt(eps))
           floor == Least({Len(C), ConcatMinReserve, room \div 2})
           ast == AtMost(P, room - floor)
           rest == AtMost(C, room - Len(ast))
           x == ast \o rest
<1>1. /\ Len(eps) \in Nat /\ DOMAIN eps = 1..Len(eps)
      /\ c \in Nat /\ p \in Nat /\ c + p = Len(eps)
  BY KindsPartition
<1>2. ConcatAt(eps) \in SUBSET (DOMAIN eps) /\ ParsedAt(eps) \in SUBSET (DOMAIN eps)
  BY DEF ConcatAt, ParsedAt
<1>3. C = Pick(eps, ConcatAt(eps)) /\ P = Pick(eps, ParsedAt(eps))
  BY DEF Concats, Parsed, ConcatAt, ParsedAt
<1>4. /\ IsSeq(C) /\ Len(C) = c /\ IsSeq(P) /\ Len(P) = p
      /\ DOMAIN C = 1..c /\ DOMAIN P = 1..p
  <2>1. IsSeq(C) /\ Len(C) = c
    BY <1>1, <1>2, <1>3, PickIsSeq
  <2>2. IsSeq(P) /\ Len(P) = p
    BY <1>1, <1>2, <1>3, PickIsSeq
  <2> QED BY <2>1, <2>2, SeqIsSeq DEF IsSeq
<1>5. PICK gC \in Places(C, eps) : \A k \in DOMAIN C : gC[k] \in ConcatAt(eps)
  BY <1>2, <1>3, PickPlaces
<1>6. PICK gP \in Places(P, eps) : \A k \in DOMAIN P : gP[k] \in ParsedAt(eps)
  BY <1>2, <1>3, PickPlaces
<1> HIDE DEF C, P
<1>7. floor \in Nat /\ floor <= c /\ floor <= room /\ room - floor \in Nat
  <2>1. Len(C) \in Nat
    BY <1>1, <1>4
  <2>2. floor \in Nat /\ floor <= Len(C) /\ floor <= room
    BY <2>1, FloorIs
  <2> HIDE DEF floor
  <2> QED BY <1>4, <2>2
<1> HIDE DEF floor, c, p
<1>8. /\ IsSeq(ast) /\ Len(ast) = IF p <= room - floor THEN p ELSE room - floor
      /\ \A i \in DOMAIN ast : i \in DOMAIN P /\ ast[i] = P[i]
  BY <1>4, <1>7, AtMostIs
<1> HIDE DEF ast
<1>9. Len(ast) \in Nat /\ Len(ast) <= room /\ Len(ast) <= p /\ room - Len(ast) \in Nat
  BY <1>1, <1>7, <1>8
<1>10. /\ IsSeq(rest) /\ Len(rest) = IF c <= room - Len(ast) THEN c ELSE room - Len(ast)
       /\ \A i \in DOMAIN rest : i \in DOMAIN C /\ rest[i] = C[i]
  BY <1>4, <1>9, AtMostIs
<1> HIDE DEF rest
<1>11. Len(rest) \in Nat /\ Len(rest) >= floor /\ Len(ast) + Len(rest) = room
  BY <1>1, <1>7, <1>8, <1>9, <1>10
<1>12. DOMAIN ast = 1..Len(ast) /\ DOMAIN rest = 1..Len(rest)
  BY <1>8, <1>10, SeqIsSeq DEF IsSeq
<1>13. /\ IsSeq(x) /\ Len(x) = room /\ DOMAIN x = 1..room
       /\ \A i \in 1..Len(ast) : x[i] = ast[i]
       /\ \A i \in (Len(ast) + 1)..room : x[i] = rest[i - Len(ast)]
  <2>1. IsSeq(x) /\ Len(x) = Len(ast) + Len(rest)
    BY <1>8, <1>10, ConcatIsSeq
  <2>2. DOMAIN x = 1..Len(x)
    BY <2>1, SeqIsSeq DEF IsSeq
  <2>3. ast \in Seq(ToSet(ast) \cup ToSet(rest)) /\ rest \in Seq(ToSet(ast) \cup ToSet(rest))
    BY <1>8, <1>10, SeqMonotonic DEF IsSeq
  <2>4. \A i \in 1..(Len(ast) + Len(rest)) : x[i] = IF i <= Len(ast) THEN ast[i] ELSE rest[i - Len(ast)]
    BY <2>3, ConcatProperties
  <2> HIDE DEF x
  <2>5. Len(x) = room /\ DOMAIN x = 1..room
    BY <1>11, <2>1, <2>2
  <2>6. ASSUME NEW i \in 1..Len(ast) PROVE x[i] = ast[i]
    <3>1. i \in 1..(Len(ast) + Len(rest)) /\ i <= Len(ast)
      BY <1>9, <1>11
    <3> QED BY <2>4, <3>1
  <2>7. ASSUME NEW i \in (Len(ast) + 1)..room PROVE x[i] = rest[i - Len(ast)]
    <3>1. i \in 1..(Len(ast) + Len(rest)) /\ ~(i <= Len(ast))
      BY <1>9, <1>11
    <3> QED BY <2>4, <3>1
  <2> QED BY <2>1, <2>5, <2>6, <2>7
<1> HIDE DEF x
<1>14. Places(x, eps) # {}
  <2> DEFINE g == [i \in 1..room |-> IF i <= Len(ast) THEN gP[i] ELSE gC[i - Len(ast)]]
  <2>1. ASSUME NEW i \in 1..room
        PROVE  /\ g[i] \in DOMAIN eps /\ x[i] = eps[g[i]]
               /\ i <= Len(ast) => i \in DOMAIN P /\ g[i] = gP[i] /\ g[i] \in ParsedAt(eps)
               /\ ~(i <= Len(ast)) => /\ i - Len(ast) \in DOMAIN C /\ g[i] = gC[i - Len(ast)]
                                      /\ g[i] \in ConcatAt(eps)
    <3>1. CASE i <= Len(ast)
      <4>1. i \in DOMAIN ast /\ i \in 1..Len(ast)
        BY <1>9, <1>12, <3>1
      <4>2. i \in DOMAIN P /\ x[i] = P[i] /\ g[i] = gP[i]
        BY <1>8, <1>13, <3>1, <4>1
      <4>3. P[i] = eps[gP[i]] /\ gP[i] \in ParsedAt(eps)
        BY <1>6, <4>2 DEF Places
      <4> QED BY <1>2, <3>1, <4>2, <4>3
    <3>2. CASE ~(i <= Len(ast))
      <4>1. i - Len(ast) \in DOMAIN rest /\ i \in (Len(ast) + 1)..room
        BY <1>9, <1>11, <1>12, <3>2
      <4>2. i - Len(ast) \in DOMAIN C /\ x[i] = C[i - Len(ast)] /\ g[i] = gC[i - Len(ast)]
        BY <1>10, <1>13, <3>2, <4>1
      <4>3. C[i - Len(ast)] = eps[gC[i - Len(ast)]] /\ gC[i - Len(ast)] \in ConcatAt(eps)
        BY <1>5, <4>2 DEF Places
      <4> QED BY <1>2, <3>2, <4>2, <4>3
    <3> QED BY <3>1, <3>2
  <2>2. ConcatAt(eps) \cap ParsedAt(eps) = {}
    BY DEF ConcatAt, ParsedAt
  <2>3. ASSUME NEW i \in 1..room, NEW j \in 1..room, g[i] = g[j]
        PROVE  i = j
    <3>1. \A k, l \in DOMAIN P : gP[k] = gP[l] => k = l
      BY <1>6 DEF Places, Injection, IsInjective
    <3>2. \A k, l \in DOMAIN C : gC[k] = gC[l] => k = l
      BY <1>5 DEF Places, Injection, IsInjective
    <3> HIDE DEF g
    <3>3. CASE i <= Len(ast) /\ j <= Len(ast)
      BY <2>1, <2>3, <3>1, <3>3
    <3>4. CASE ~(i <= Len(ast)) /\ ~(j <= Len(ast))
      <4>1. i - Len(ast) = j - Len(ast)
        BY <2>1, <2>3, <3>2, <3>4
      <4> QED BY <1>9, <4>1
    <3> QED BY <2>1, <2>2, <2>3, <3>3, <3>4
  <2>4. g \in [1..room -> DOMAIN eps]
    BY <2>1
  <2> HIDE DEF g
  <2>5. g \in Injection(DOMAIN x, DOMAIN eps)
    BY <1>13, <2>3, <2>4 DEF Injection, IsInjective
  <2> QED BY <1>13, <2>1, <2>5 DEF Places
<1>15. ConcatAt(x) = (Len(ast) + 1)..room
  <2>1. ASSUME NEW i \in 1..Len(ast) PROVE ~IsConcat(x[i]) /\ i \in 1..room
    <3>1. i \in DOMAIN P /\ x[i] = P[i]
      BY <1>8, <1>12, <1>13
    <3>2. P[i] = eps[gP[i]] /\ gP[i] \in ParsedAt(eps)
      BY <1>6, <3>1 DEF Places
    <3> QED BY <1>9, <3>1, <3>2 DEF ParsedAt
  <2>2. ASSUME NEW i \in (Len(ast) + 1)..room PROVE IsConcat(x[i]) /\ i \in 1..room
    <3>1. i - Len(ast) \in DOMAIN rest
      BY <1>9, <1>11, <1>12
    <3>2. i - Len(ast) \in DOMAIN C /\ x[i] = C[i - Len(ast)]
      BY <1>10, <1>13, <3>1
    <3>3. C[i - Len(ast)] = eps[gC[i - Len(ast)]] /\ gC[i - Len(ast)] \in ConcatAt(eps)
      BY <1>5, <3>2 DEF Places
    <3> QED BY <1>9, <3>2, <3>3 DEF ConcatAt
  <2>3. \A i \in 1..room : i \in 1..Len(ast) \/ i \in (Len(ast) + 1)..room
    BY <1>9
  <2> QED BY <1>13, <2>1, <2>2, <2>3 DEF ConcatAt
<1>16. Cardinality(ConcatAt(x)) = Len(rest)
  <2>1. Cardinality((Len(ast) + 1)..room) = room - Len(ast)
    BY <1>9, SpanIs
  <2> QED BY <1>9, <1>11, <1>15, <2>1
<1>17. /\ Cardinality(ConcatAt(x)) \in Nat
       /\ Cardinality(ConcatAt(x)) >= Least({c, ConcatMinReserve, room \div 2})
  BY <1>4, <1>11, <1>16 DEF floor
<1>18. CapBundleEndpoints(eps, room) = x
  BY DEF CapBundleEndpoints, x, rest, ast, floor, C, P
<1>19. ~(Len(eps) <= room)
  BY <1>1
<1>20. KeptOf(x, eps, room)
  BY <1>13, <1>14, <1>17, <1>19 DEF KeptOf, c
<1> QED BY <1>18, <1>20

LEMMA CappedIs ==
  ASSUME NEW eps, IsSeq(eps), NEW room \in Nat
  PROVE  KeptOf(Capped(eps, room), eps, room)
<1>1. /\ Len(eps) \in Nat /\ DOMAIN eps = 1..Len(eps) /\ Cardinality(ConcatAt(eps)) \in Nat
  BY KindsPartition
<1>2. CASE Len(eps) > room
  <2>1. Capped(eps, room) = CapBundleEndpoints(eps, room)
    BY <1>2 DEF Capped
  <2> QED BY <1>2, <2>1, CappedToRoom
<1>3. CASE ~(Len(eps) > room)
  <2>1. Capped(eps, room) = eps /\ Len(eps) <= room
    BY <1>1, <1>3 DEF Capped
  <2> DEFINE g == [i \in DOMAIN eps |-> i]
             floor == Least({Cardinality(ConcatAt(eps)), ConcatMinReserve, room \div 2})
  <2>2. g \in Injection(DOMAIN eps, DOMAIN eps)
    BY DEF Injection, IsInjective
  <2>3. g \in Places(eps, eps)
    BY <2>2 DEF Places
  <2>4. floor \in Nat /\ floor <= Cardinality(ConcatAt(eps))
    BY <1>1, FloorIs
  <2> HIDE DEF floor, g
  <2> QED BY <1>1, <2>1, <2>3, <2>4 DEF KeptOf, floor
<1> QED BY <1>2, <1>3

-----------------------------------------------------------------------------
(* The requests made of the endpoints that are kept.                       *)

\* The elements of p are those of s at the positions I, each once.
Selects(p, s, I) == \E g \in Bijection(DOMAIN p, I) : \A k \in DOMAIN p : p[k] = s[g[k]]

LEMMA PickBijects ==
  ASSUME NEW n \in Nat, NEW I \in SUBSET (1..n), NEW s
  PROVE  Selects(Pick(s, I), s, I)
<1> DEFINE pos(k) == CHOOSE i \in I : RankIn(i, I) = k
           K == 1..Cardinality(I)
           g == [k \in K |-> pos(k)]
<1>1. \A k \in K : pos(k) \in I /\ RankIn(pos(k), I) = k
  BY Ranking
<1>2. DOMAIN Pick(s, I) = K /\ \A k \in K : Pick(s, I)[k] = s[pos(k)]
  BY DEF Pick
<1>3. \A i \in I : RankIn(i, I) \in K
  BY Ranking
<1>4. \A i, j \in I : RankIn(i, I) = RankIn(j, I) => i = j
  BY Ranking
<1> HIDE DEF pos
<1>5. g \in [K -> I] /\ \A k \in K : g[k] = pos(k)
  BY <1>1
<1> HIDE DEF g
<1>6. \A a, b \in K : g[a] = g[b] => a = b
  BY <1>1, <1>5
<1>7. \A i \in I : \E k \in K : g[k] = i
  BY <1>1, <1>3, <1>4, <1>5
<1>8. g \in Bijection(K, I)
  BY <1>5, <1>6, <1>7 DEF Bijection, Injection, Surjection, IsInjective
<1>9. g \in Bijection(DOMAIN Pick(s, I), I)
  BY <1>2, <1>8
<1>10. \A k \in DOMAIN Pick(s, I) : Pick(s, I)[k] = s[g[k]]
  BY <1>2, <1>5
<1> QED BY <1>9, <1>10 DEF Selects

UnsafeAt(eps) == {i \in DOMAIN eps : eps[i].url.kind = "unsafe"}
SafeAt(eps) == {i \in DOMAIN eps : eps[i].url.kind # "unsafe"}

\* The request that endpoint e becomes.
MadeOf(r, e, base, tag) ==
    /\ r.method = e.method /\ r.path = e.url.segs
    /\ r.host = IF e.url.host = "" THEN base ELSE e.url.host
    /\ r.query = NoQuery /\ r.resp = NoResponse
    /\ r.source = IF IsConcat(e) THEN "static:js-concat" ELSE tag

LEMMA RequestsAre ==
  ASSUME NEW eps, IsSeq(eps), \A e \in ToSet(eps) : "tag" \in DOMAIN e,
         NEW base, NEW tag, tag # "static:js-concat"
  PROVE  /\ IsSeq(ToRequests(Retag(eps, tag), base))
         /\ \E g \in Bijection(DOMAIN ToRequests(Retag(eps, tag), base), SafeAt(eps)) :
               \A k \in DOMAIN ToRequests(Retag(eps, tag), base) :
                  MadeOf(ToRequests(Retag(eps, tag), base)[k], eps[g[k]], base, tag)
<1> DEFINE re == Retag(eps, tag)
           request(ep) == Observed(ep.method, IF ep.url.host = "" THEN base ELSE ep.url.host,
                                ep.url.segs, NoQuery, "", [f \in ep.fields |-> <<"null">>],
                                ep.tag, NoResponse)
           reqs == [i \in DOMAIN re |-> request(re[i])]
           I == SafeAt(eps)
<1>1. Len(eps) \in Nat /\ DOMAIN eps = 1..Len(eps) /\ \A i \in DOMAIN eps : eps[i] \in ToSet(eps)
  BY SeqIsSeq DEF IsSeq
<1>2. DOMAIN re = DOMAIN eps
  BY DEF Retag
<1>3. ASSUME NEW i \in DOMAIN eps
      PROVE  /\ re[i].method = eps[i].method /\ re[i].url = eps[i].url
             /\ re[i].tag = IF IsConcat(eps[i]) THEN "static:js-concat" ELSE tag
  <2>1. CASE IsConcat(eps[i])
    BY <2>1 DEF Retag, IsConcat
  <2>2. CASE ~IsConcat(eps[i])
    <3>1. "tag" \in DOMAIN eps[i]
      BY <1>1
    <3>2. re[i] = [eps[i] EXCEPT !.tag = tag]
      BY <2>2 DEF Retag
    <3> QED BY <2>2, <3>1, <3>2
  <2> QED BY <2>1, <2>2
<1> HIDE DEF re
<1>4. ASSUME NEW i \in DOMAIN eps
      PROVE  MadeOf(reqs[i], eps[i], base, tag)
  BY <1>2, <1>3 DEF MadeOf, Observed
<1>5. I = {i \in DOMAIN re : re[i].url.kind # "unsafe"}
  BY <1>2, <1>3 DEF SafeAt
<1>6. ToRequests(re, base) = Pick(reqs, I)
  BY <1>5 DEF ToRequests
<1>7. I \in SUBSET (1..Len(eps))
  BY <1>1 DEF SafeAt
<1> HIDE DEF reqs, I
<1>8. IsSeq(Pick(reqs, I))
  BY <1>1, <1>7, PickIsSeq
<1>9. PICK g \in Bijection(DOMAIN Pick(reqs, I), I) :
         \A k \in DOMAIN Pick(reqs, I) : Pick(reqs, I)[k] = reqs[g[k]]
  <2>1. Selects(Pick(reqs, I), reqs, I)
    BY <1>1, <1>7, PickBijects
  <2> QED BY <2>1 DEF Selects
<1>10. \A k \in DOMAIN Pick(reqs, I) : MadeOf(Pick(reqs, I)[k], eps[g[k]], base, tag)
  <2> TAKE k \in DOMAIN Pick(reqs, I)
  <2>1. g[k] \in I
    BY <1>9 DEF Bijection, Injection
  <2>2. g[k] \in DOMAIN eps
    BY <1>1, <1>7, <2>1
  <2> QED BY <1>4, <1>9, <2>2
<1> QED BY <1>6, <1>8, <1>9, <1>10 DEF re, I

\* How many there are of them.
LEMMA RequestCounts ==
  ASSUME NEW y, IsSeq(y), NEW eps, IsSeq(eps), NEW base, NEW tag, tag # "static:js-concat",
         NEW g \in Bijection(DOMAIN y, SafeAt(eps)),
         \A k \in DOMAIN y : MadeOf(y[k], eps[g[k]], base, tag)
  PROVE  /\ Cardinality(UnsafeAt(eps)) \in Nat /\ Len(y) = Len(eps) - Cardinality(UnsafeAt(eps))
         /\ Cardinality(ConcatAt(eps) \cap UnsafeAt(eps)) \in Nat
         /\ Cardinality(Tagged(y, TRUE)) \in Nat
         /\ Cardinality(Tagged(y, TRUE)) =
               Cardinality(ConcatAt(eps)) - Cardinality(ConcatAt(eps) \cap UnsafeAt(eps))
<1> DEFINE U == UnsafeAt(eps)
           S == SafeAt(eps)
           C == ConcatAt(eps)
           D == DOMAIN eps
           V == Tagged(y, TRUE)
           h == [k \in V |-> g[k]]
<1>1. Len(eps) \in Nat /\ D = 1..Len(eps) /\ Len(y) \in Nat /\ DOMAIN y = 1..Len(y)
  BY SeqIsSeq DEF IsSeq
<1>2. IsFiniteSet(D) /\ Cardinality(D) = Len(eps) /\ IsFiniteSet(DOMAIN y) /\ Cardinality(DOMAIN y) = Len(y)
  BY <1>1, UptoIs
<1>3. S = D \ U /\ U \in SUBSET D /\ C \in SUBSET D /\ D \cap U = U
  BY DEF SafeAt, UnsafeAt, ConcatAt
<1>4. V = {k \in DOMAIN y : g[k] \in C}
  <2>1. ASSUME NEW k \in DOMAIN y PROVE (y[k].source = "static:js-concat") <=> g[k] \in C
    <3>1. g[k] \in D
      BY <1>3 DEF Bijection, Injection
    <3> QED BY <3>1 DEF MadeOf, ConcatAt
  <2> QED BY <2>1 DEF Tagged
<1>5. C \cap S = C \ U
  BY <1>3
<1> HIDE DEF U, S, C, D, V
<1>6. IsFiniteSet(U) /\ IsFiniteSet(C) /\ IsFiniteSet(S) /\ IsFiniteSet(C \cap U) /\ IsFiniteSet(C \ U)
  <2>1. IsFiniteSet(U) /\ IsFiniteSet(C)
    BY <1>2, <1>3, FS_Subset
  <2> QED BY <1>2, <1>3, <2>1, FS_Difference, FS_Intersection
<1>7. /\ Cardinality(U) \in Nat /\ Cardinality(C) \in Nat /\ Cardinality(C \cap U) \in Nat
      /\ Cardinality(C \ U) \in Nat
  BY <1>6, FS_CardinalityType
<1>8. Cardinality(S) = Len(eps) - Cardinality(U)
  <2>1. Cardinality(D \ U) = Cardinality(D) - Cardinality(D \cap U)
    BY <1>2, FS_Difference
  <2> QED BY <1>2, <1>3, <2>1
<1>9. Cardinality(C \cap S) = Cardinality(C) - Cardinality(C \cap U)
  BY <1>5, <1>6, FS_Difference
<1>10. Cardinality(DOMAIN y) = Cardinality(S)
  <2>1. IsFiniteSet(DOMAIN y) /\ g \in Bijection(DOMAIN y, S)
    BY <1>2 DEF S
  <2> QED BY <2>1, FS_Bijection DEF ExistsBijection
<1>11. Cardinality(V) = Cardinality(C \cap S)
  <2>1. h \in Bijection(V, C \cap S)
    <3>1. /\ g \in [DOMAIN y -> S] /\ \A a, b \in DOMAIN y : g[a] = g[b] => a = b
          /\ \A i \in S : \E k \in DOMAIN y : g[k] = i
      BY DEF S, Bijection, Injection, Surjection, IsInjective
    <3>2. h \in [V -> C \cap S] /\ \A k \in V : h[k] = g[k] /\ k \in DOMAIN y
      BY <1>4, <3>1
    <3> HIDE DEF h
    <3>3. \A a, b \in V : h[a] = h[b] => a = b
      BY <3>1, <3>2
    <3>4. \A i \in C \cap S : \E k \in V : h[k] = i
      BY <1>4, <3>1, <3>2
    <3> QED BY <3>2, <3>3, <3>4 DEF Bijection, Injection, Surjection, IsInjective
  <2> HIDE DEF h
  <2>2. IsFiniteSet(V)
    <3>1. V \in SUBSET DOMAIN y
      BY <1>4
    <3> QED BY <1>2, <3>1, FS_Subset
  <2> QED BY <2>1, <2>2, FS_Bijection DEF ExistsBijection
<1>12. Len(y) = Len(eps) - Cardinality(U)
  BY <1>2, <1>8, <1>10
<1>13. Cardinality(V) \in Nat /\ Cardinality(V) = Cardinality(C) - Cardinality(C \cap U)
  BY <1>5, <1>7, <1>9, <1>11
<1> QED BY <1>7, <1>12, <1>13 DEF U, C, V

\* A request that stands for a call of the sites, or for a path no call has.
Stands(r, sites, base) ==
    IF r.source = "static:js-concat"
    THEN r.host = base /\ \A c \in Calls(sites, base) : CallOf(r, base)[2] # c[2]
    ELSE CallOf(r, base) \in Calls(sites, base)

FromJS(r) == r.resp = NoResponse /\ IsJSStaticSource(r.source)

\* The share of a source in the requests of its bundle.
Share(y, src, base, room) ==
    /\ IsSeq(y) /\ Len(y) \in Nat /\ Len(y) <= room
    /\ \A r \in ToSet(y) : FromJS(r) /\ Stands(r, ToSet(src), base)

\* What the cap leaves of it.
FairShare(y, src, base, room) ==
    LET eps    == ExtractFromBundle(src, base)
        unsafe == UnsafeAt(eps)
    IN  /\ Cardinality(Tagged(y, TRUE)) >=
              Least({Cardinality(ConcatAt(eps)), ConcatMinReserve, room \div 2})
                  - Cardinality(ConcatAt(eps) \cap unsafe)
        /\ Len(eps) <= room =>
              \A c \in Calls(ToSet(src) \ TakenForRepeats(src), base) :
                  (\E q \in ToSet(y) : CallOf(q, base) = c) \/ unsafe # {}
        /\ Len(eps) > room => Len(y) >= room - Cardinality(unsafe)

LEMMA SharesAre ==
  ASSUME NEW src, AreSites(src), NEW base, NEW room \in Nat,
         NEW tag \in {"static:js", "static:js-sourcemap"},
         NEW y, y = ToRequests(Retag(Capped(ExtractFromBundle(src, base), room), tag), base)
  PROVE  Share(y, src, base, room) /\ FairShare(y, src, base, room)
<1> DEFINE eps == ExtractFromBundle(src, base)
           x == Capped(eps, room)
           floor == Least({Cardinality(ConcatAt(eps)), ConcatMinReserve, room \div 2})
<1>1. Explained(eps, src, base)
  BY ExtractedAre
<1> HIDE DEF eps
<1>2. IsSeq(eps)
  BY <1>1 DEF Explained
<1>3. KeptOf(x, eps, room)
  BY <1>2, CappedIs
<1>4. y = ToRequests(Retag(x, tag), base)
  BY DEF eps
<1> HIDE DEF x
<1>5. PICK p : p \in Places(x, eps)
  BY <1>3 DEF KeptOf
<1>6. IsSeq(x)
  BY <1>3 DEF KeptOf
<1>7. /\ Len(eps) \in Nat /\ DOMAIN eps = 1..Len(eps) /\ Len(x) \in Nat /\ DOMAIN x = 1..Len(x)
      /\ Cardinality(ConcatAt(eps)) \in Nat
      /\ \A i \in DOMAIN eps : eps[i] \in ToSet(eps)
  BY <1>2, <1>6, KindsPartition, SeqIsSeq DEF IsSeq
<1>8. \A i \in DOMAIN x : p[i] \in DOMAIN eps /\ x[i] = eps[p[i]]
  BY <1>5 DEF Places, Injection
<1>9. \A e \in ToSet(x) : e \in ToSet(eps)
  BY <1>7, <1>8 DEF ToSet
<1>10. \A e \in ToSet(x) : "tag" \in DOMAIN e
  BY <1>1, <1>9 DEF Explained
<1>11. tag # "static:js-concat"
  OBVIOUS
<1>12. /\ IsSeq(y)
       /\ \E g \in Bijection(DOMAIN y, SafeAt(x)) : \A k \in DOMAIN y : MadeOf(y[k], x[g[k]], base, tag)
  BY <1>4, <1>6, <1>10, <1>11, RequestsAre
<1>13. PICK g \in Bijection(DOMAIN y, SafeAt(x)) : \A k \in DOMAIN y : MadeOf(y[k], x[g[k]], base, tag)
  BY <1>12
<1>14. /\ Cardinality(UnsafeAt(x)) \in Nat /\ Len(y) = Len(x) - Cardinality(UnsafeAt(x))
       /\ Cardinality(ConcatAt(x) \cap UnsafeAt(x)) \in Nat
       /\ Cardinality(Tagged(y, TRUE)) \in Nat
       /\ Cardinality(Tagged(y, TRUE)) =
             Cardinality(ConcatAt(x)) - Cardinality(ConcatAt(x) \cap UnsafeAt(x))
  BY <1>6, <1>11, <1>12, <1>13, RequestCounts
<1>15. \A k \in DOMAIN y : g[k] \in SafeAt(x) /\ g[k] \in DOMAIN x
  BY <1>13 DEF Bijection, Injection, SafeAt
<1>16. Len(y) \in Nat /\ DOMAIN y = 1..Len(y)
  BY <1>12, SeqIsSeq DEF IsSeq
\* A request keeps its endpoint's key.
<1>17. ASSUME NEW r, NEW e, MadeOf(r, e, base, tag) PROVE CallOf(r, base) = KeyedCall(e, base)
  BY <1>17 DEF MadeOf, CallOf, KeyedCall, ConcatDedupKey
<1>18. ASSUME NEW k \in DOMAIN y PROVE FromJS(y[k]) /\ Stands(y[k], ToSet(src), base)
  <2> DEFINE r == y[k]
             e == x[g[k]]
  <2>1. e \in ToSet(eps) /\ MadeOf(r, e, base, tag)
    BY <1>9, <1>13, <1>15 DEF ToSet
  <2> HIDE DEF r, e
  <2>2. CallOf(r, base) = KeyedCall(e, base)
    BY <1>17, <2>1
  <2>3. FromJS(r)
    BY <2>1 DEF MadeOf, FromJS, IsJSStaticSource
  <2>4. CASE IsConcat(e)
    <3>1. r.source = "static:js-concat" /\ r.host = base
      BY <1>1, <2>1, <2>4 DEF MadeOf, Explained
    <3> QED BY <1>1, <2>1, <2>2, <2>3, <2>4, <3>1 DEF Explained, Stands, r
  <2>5. CASE ~IsConcat(e)
    <3>1. r.source # "static:js-concat"
      BY <1>11, <2>1, <2>5 DEF MadeOf
    <3> QED BY <1>1, <2>1, <2>2, <2>3, <2>5, <3>1 DEF Explained, Stands, r
  <2> QED BY <2>4, <2>5
<1>19. Len(y) <= room
  <2>1. Len(x) <= room
    BY <1>3, <1>7 DEF KeptOf
  <2> QED BY <1>7, <1>14, <2>1
<1>20. Share(y, src, base, room)
  <2>1. \A r \in ToSet(y) : FromJS(r) /\ Stands(r, ToSet(src), base)
    BY <1>18 DEF ToSet
  <2> QED BY <1>12, <1>16, <1>19, <2>1 DEF Share
\* No more unsafe ones are kept than there are.
<1>21. /\ Cardinality(UnsafeAt(eps)) \in Nat
       /\ Cardinality(UnsafeAt(x)) <= Cardinality(UnsafeAt(eps))
  <2>1. UnsafeAt(eps) \in SUBSET (DOMAIN eps) /\ UnsafeAt(x) \in SUBSET (DOMAIN x)
    BY DEF UnsafeAt
  <2>2. \A i \in UnsafeAt(x) : p[i] \in UnsafeAt(eps)
    BY <1>8 DEF UnsafeAt
  <2> QED BY <1>2, <1>5, <1>6, <2>1, <2>2, CountPlaced
<1>22. /\ Cardinality(ConcatAt(eps) \cap UnsafeAt(eps)) \in Nat
       /\ Cardinality(ConcatAt(x) \cap UnsafeAt(x)) <= Cardinality(ConcatAt(eps) \cap UnsafeAt(eps))
  <2> DEFINE U == ConcatAt(eps) \cap UnsafeAt(eps)
             V == ConcatAt(x) \cap UnsafeAt(x)
  <2>1. U \in SUBSET (DOMAIN eps) /\ V \in SUBSET (DOMAIN x)
    BY DEF UnsafeAt
  <2>2. \A i \in V : p[i] \in U
    BY <1>8 DEF UnsafeAt, ConcatAt
  <2> HIDE DEF U, V
  <2>3. Cardinality(U) \in Nat /\ Cardinality(V) <= Cardinality(U)
    BY <1>2, <1>5, <1>6, <2>1, <2>2, CountPlaced
  <2> QED BY <2>3 DEF U, V
<1>23. Cardinality(Tagged(y, TRUE)) >= floor - Cardinality(ConcatAt(eps) \cap UnsafeAt(eps))
  <2>1. floor \in Nat
    BY <1>7, FloorIs
  <2>2. Cardinality(ConcatAt(x)) \in Nat /\ Cardinality(ConcatAt(x)) >= floor
    BY <1>3 DEF KeptOf
  <2> DEFINE t == Cardinality(Tagged(y, TRUE))
             c == Cardinality(ConcatAt(x))
             ux == Cardinality(ConcatAt(x) \cap UnsafeAt(x))
             ue == Cardinality(ConcatAt(eps) \cap UnsafeAt(eps))
  <2>3. t = c - ux /\ c \in Nat /\ c >= floor /\ ux \in Nat /\ ue \in Nat /\ ux <= ue
    BY <1>14, <1>22, <2>2
  <2> HIDE DEF floor, t, c, ux, ue
  <2>4. t >= floor - ue
    BY <2>1, <2>3
  <2> QED BY <2>4 DEF t, ue
<1>24. ASSUME Len(eps) <= room, NEW c \in Calls(ToSet(src) \ TakenForRepeats(src), base)
       PROVE  (\E q \in ToSet(y) : CallOf(q, base) = c) \/ UnsafeAt(eps) # {}
  <2>1. x = eps
    BY <1>3, <1>24 DEF KeptOf
  <2>2. PICK e \in ToSet(eps) : KeyedCall(e, base) = c
    BY <1>1, <1>24 DEF Explained
  <2>3. PICK i \in DOMAIN eps : eps[i] = e
    BY <2>2 DEF ToSet
  <2>4. CASE i \in UnsafeAt(eps)
    BY <2>4
  <2>5. CASE i \notin UnsafeAt(eps)
    <3>1. i \in SafeAt(x)
      BY <2>1, <2>3, <2>5 DEF SafeAt, UnsafeAt
    <3>2. PICK k \in DOMAIN y : g[k] = i
      BY <1>13, <3>1 DEF Bijection, Surjection
    <3>3. CallOf(y[k], base) = KeyedCall(e, base)
      BY <1>13, <1>17, <2>1, <2>3, <3>2
    <3>4. y[k] \in ToSet(y)
      BY <3>2 DEF ToSet
    <3> QED BY <2>2, <3>3, <3>4
  <2> QED BY <2>4, <2>5
<1>25. Len(eps) > room => Len(y) >= room - Cardinality(UnsafeAt(eps))
  <2>1. ~(Len(eps) <= room) => Len(x) = room
    BY <1>3 DEF KeptOf
  <2> DEFINE n == Len(eps)
             ux == Cardinality(UnsafeAt(x))
             ue == Cardinality(UnsafeAt(eps))
  <2>2. n \in Nat /\ ux \in Nat /\ ue \in Nat /\ ux <= ue /\ Len(y) = Len(x) - ux
    BY <1>7, <1>14, <1>21
  <2>3. n > room => Len(x) = room
    <3>1. n > room => ~(n <= room)
      BY <1>7
    <3> QED BY <2>1, <3>1
  <2> HIDE DEF n, ux, ue
  <2>4. n > room => Len(y) >= room - ue
    BY <2>2, <2>3
  <2> QED BY <2>4 DEF n, ue
<1>26. FairShare(y, src, base, room)
  BY <1>23, <1>24, <1>25 DEF FairShare, eps, floor
<1> QED BY <1>20, <1>26

-----------------------------------------------------------------------------
(* What the pool can find in a bundle.                                     *)

SitesOf(b, k) == IF k = 0 THEN Bundles[b].sites ELSE Bundles[b].map.sources[k].sites
SourceNumbers(b) == {0} \cup DOMAIN Bundles[b].map.sources
SitesIn(b) == {b.sites} \cup {b.map.sources[k].sites : k \in DOMAIN b.map.sources}

Contributions ==
    UNION {UNION {{Contribution[b][k][room] : room \in 1..MaxEndpointsPerBundle} :
                     k \in SourceNumbers(b)} : b \in DOMAIN Bundles}
JSRequests == UNION {ToSet(y) : y \in Contributions}

LEMMA SitesAre ==
  ASSUME NEW b \in DOMAIN Bundles, NEW k \in SourceNumbers(b)
  PROVE  AreSites(SitesOf(b, k)) /\ SitesOf(b, k) \in SitesIn(Bundles[b])
<1>1. Bundles[b] \in ToSet(Bundles)
  BY DEF ToSet
<1>2. CASE k = 0
  BY <1>1, <1>2, BundleShapes DEF SitesOf, SitesIn
<1>3. CASE k # 0
  <2>1. k \in DOMAIN Bundles[b].map.sources
    BY <1>3 DEF SourceNumbers
  <2>2. Bundles[b].map.sources[k] \in ToSet(Bundles[b].map.sources)
    BY <2>1 DEF ToSet
  <2> QED BY <1>1, <1>3, <2>1, <2>2, BundleShapes DEF SitesOf, SitesIn
<1> QED BY <1>2, <1>3

LEMMA ContributionIs ==
  ASSUME NEW b \in DOMAIN Bundles, NEW k \in SourceNumbers(b),
         NEW room \in 1..MaxEndpointsPerBundle
  PROVE  /\ Len(Endpoints[b][k]) \in Nat
         /\ Contribution[b][k][room] \in Seq(JSRequests)
         /\ Share(Contribution[b][k][room], SitesOf(b, k), Bundles[b].host, room)
         /\ k = 0 => FairShare(Contribution[b][k][room], Bundles[b].sites, Bundles[b].host, room)
<1> DEFINE y == Contribution[b][k][room]
           tag == IF k = 0 THEN "static:js" ELSE "static:js-sourcemap"
           host == Bundles[b].host
           src == SitesOf(b, k)
<1>1. Endpoints[b][k] = ExtractFromBundle(src, host)
  BY DEF Endpoints, SitesOf, SourceNumbers
<1>2. y = ToRequests(Retag(Capped(Endpoints[b][k], room), tag), host)
  BY DEF Contribution, SourceNumbers
<1>3. AreSites(src) /\ room \in Nat /\ tag \in {"static:js", "static:js-sourcemap"}
  BY SitesAre
<1> HIDE DEF tag, y, src, host
<1>4. Share(y, src, host, room) /\ FairShare(y, src, host, room)
  BY <1>1, <1>2, <1>3, SharesAre
<1>5. Len(Endpoints[b][k]) \in Nat
  <2>1. Explained(ExtractFromBundle(src, host), src, host)
    BY <1>3, ExtractedAre
  <2>2. IsSeq(Endpoints[b][k])
    BY <1>1, <2>1 DEF Explained
  <2> QED BY <2>2, SeqIsSeq DEF IsSeq
<1>6. y \in Seq(JSRequests)
  <2>1. y \in Contributions
    BY DEF Contributions, y
  <2>2. ToSet(y) \subseteq JSRequests
    BY <2>1 DEF JSRequests
  <2>3. y \in Seq(ToSet(y))
    BY <1>4 DEF Share, IsSeq
  <2> QED BY <2>2, <2>3, SeqMonotonic
<1>7. k = 0 => src = Bundles[b].sites
  BY DEF SitesOf, src
<1> QED BY <1>4, <1>5, <1>6, <1>7 DEF y, src, host

LEMMA JSRequestsAre ==
  ASSUME NEW q \in JSRequests
  PROVE  FromJS(q)
<1>1. PICK b \in DOMAIN Bundles :
         \E k \in SourceNumbers(b) : \E room \in 1..MaxEndpointsPerBundle :
            q \in ToSet(Contribution[b][k][room])
  BY DEF JSRequests, Contributions
<1>2. PICK k \in SourceNumbers(b) :
         \E room \in 1..MaxEndpointsPerBundle : q \in ToSet(Contribution[b][k][room])
  BY <1>1
<1>3. PICK room \in 1..MaxEndpointsPerBundle : q \in ToSet(Contribution[b][k][room])
  BY <1>2
<1>4. Share(Contribution[b][k][room], SitesOf(b, k), Bundles[b].host, room)
  BY ContributionIs
<1> QED BY <1>3, <1>4 DEF Share

\* Appending requests takes nothing from what the cap left.
LEMMA FairShareGrows ==
  ASSUME NEW y, IsSeq(y), NEW z, IsSeq(z), NEW src, AreSites(src), NEW base, NEW room \in Nat,
         FairShare(y, src, base, room)
  PROVE  FairShare(y \o z, src, base, room)
<1> DEFINE eps == ExtractFromBundle(src, base)
           floor == Least({Cardinality(ConcatAt(eps)), ConcatMinReserve, room \div 2})
           u == Cardinality(ConcatAt(eps) \cap UnsafeAt(eps))
           t == Cardinality(Tagged(y, TRUE))
           tt == Cardinality(Tagged(y \o z, TRUE))
           n == Cardinality(UnsafeAt(eps))
<1>1. /\ IsSeq(y \o z) /\ ToSet(y \o z) = ToSet(y) \cup ToSet(z)
      /\ Len(y \o z) = Len(y) + Len(z)
  BY ConcatIsSeq
<1>2. /\ Len(y) \in Nat /\ DOMAIN y = 1..Len(y) /\ Len(z) \in Nat
      /\ Len(y \o z) \in Nat /\ DOMAIN (y \o z) = 1..Len(y \o z)
  BY <1>1, SeqIsSeq DEF IsSeq
<1>3. \A i \in DOMAIN y : i \in DOMAIN (y \o z) /\ (y \o z)[i] = y[i]
  <2>1. y \in Seq(ToSet(y) \cup ToSet(z)) /\ z \in Seq(ToSet(y) \cup ToSet(z))
    BY SeqMonotonic DEF IsSeq
  <2> QED BY <1>1, <1>2, <2>1, ConcatProperties
<1>4. t \in Nat /\ tt \in Nat /\ t <= tt
  <2>1. Tagged(y, TRUE) \in SUBSET Tagged(y \o z, TRUE)
    BY <1>3 DEF Tagged
  <2>2. IsFiniteSet(DOMAIN (y \o z))
    BY <1>2, UptoIs
  <2>3. Tagged(y \o z, TRUE) \in SUBSET DOMAIN (y \o z)
    BY DEF Tagged
  <2>4. IsFiniteSet(Tagged(y \o z, TRUE))
    BY <2>2, <2>3, FS_Subset
  <2> QED BY <2>1, <2>4, FS_Subset, FS_CardinalityType
<1>5. t >= floor - u /\ (Len(eps) > room => Len(y) >= room - n)
  BY DEF FairShare
<1>6. floor \in Nat /\ u \in Nat /\ n \in Nat
  <2> DEFINE C == ConcatAt(eps)
             U == UnsafeAt(eps)
             D == DOMAIN eps
  <2>1. IsSeq(eps)
    <3>1. Explained(ExtractFromBundle(src, base), src, base)
      BY ExtractedAre
    <3> QED BY <3>1 DEF Explained
  <2> HIDE DEF eps
  <2>2. Len(eps) \in Nat /\ D = 1..Len(eps) /\ Cardinality(C) \in Nat
    BY <2>1, KindsPartition
  <2>3. C \in SUBSET D /\ U \in SUBSET D /\ C \cap U \in SUBSET D
    BY DEF ConcatAt, UnsafeAt
  <2>4. IsFiniteSet(D)
    BY <2>2, UptoIs
  <2>5. floor \in Nat
    BY <2>2, FloorIs
  <2> HIDE DEF C, U, D
  <2>6. IsFiniteSet(C \cap U) /\ IsFiniteSet(U)
    BY <2>3, <2>4, FS_Subset
  <2>7. Cardinality(C \cap U) \in Nat /\ Cardinality(U) \in Nat
    BY <2>6, FS_CardinalityType
  <2> QED BY <2>5, <2>7 DEF C, U
<1> HIDE DEF t, tt, floor, u, n
<1>7. tt >= floor - u
  BY <1>4, <1>5, <1>6
<1>8. Len(eps) > room => Len(y \o z) >= room - n
  BY <1>1, <1>2, <1>5, <1>6
<1>9. Len(eps) <= room =>
              \A c \in Calls(ToSet(src) \ TakenForRepeats(src), base) :
                  (\E q \in ToSet(y \o z) : CallOf(q, base) = c) \/ UnsafeAt(eps) # {}
  BY <1>1 DEF FairShare
<1> QED BY <1>7, <1>8, <1>9 DEF FairShare, t, tt, floor, u, n

-----------------------------------------------------------------------------
(* The invariant: where requests come from, and what a worker has in hand. *)

BundlesIn(s) == {i \in DOMAIN s : IsBundle(s[i])}
AnalyzableIn(s) == {i \in BundlesIn(s) : ~(Bundles[s[i].resp.body].size > MaxBundleSize)}
PagesIn(s) == {i \in DOMAIN s : s[i].resp.ctype = "html"}

Captured(r) == \E c \in Captures : r \in ToSet(c)
FromForm(r, s) ==
    /\ r.source = "static:html" /\ r.resp = NoResponse
    /\ \E q \in ToSet(s) : Captured(q) /\ \E tok \in FormTokens : Submits(r, q, tok.action)

\* What a capture may grow to: nothing but forms of its pages and calls of its
\* bundles, which bring no response to analyse.
IsCapture(s) == IsSeq(s) /\ \A r \in ToSet(s) : Captured(r) \/ FromForm(r, s) \/ FromJS(r)

LEMMA CapturedIs ==
  ASSUME NEW r, Captured(r)
  PROVE  /\ r.source # "static:html" /\ ~IsJSStaticSource(r.source) /\ IsQuery(r.query)
         /\ IsBundle(r) => r.resp.body \in DOMAIN Bundles
BY RawCaptures DEF Captured

LEMMA NoResponseIs ==
  ASSUME NEW r, r.resp = NoResponse
  PROVE  ~IsBundle(r) /\ r.resp.ctype # "html"
<1>1. NoResponse.ctype = ""
  BY DEF NoResponse
<1> QED BY <1>1 DEF IsBundle

LEMMA BundlesAre ==
  ASSUME NEW s, IsCapture(s), NEW i \in BundlesIn(s)
  PROVE  i \in Nat /\ s[i].resp.body \in DOMAIN Bundles
<1>1. Len(s) \in Nat /\ DOMAIN s = 1..Len(s) /\ s[i] \in ToSet(s) /\ IsBundle(s[i])
  BY SeqIsSeq DEF IsCapture, IsSeq, BundlesIn
<1>2. s[i].resp # NoResponse
  BY <1>1, NoResponseIs
<1>3. Captured(s[i])
  BY <1>1, <1>2 DEF IsCapture, FromForm, FromJS
<1> QED BY <1>1, <1>3, CapturedIs DEF BundlesIn

\* A bundle's index means the same in both.
Extends(s, u) ==
    /\ \A i \in DOMAIN s : i \in DOMAIN u /\ u[i] = s[i]
    /\ BundlesIn(u) = BundlesIn(s) /\ AnalyzableIn(u) = AnalyzableIn(s) /\ PagesIn(u) = PagesIn(s)

LEMMA GrownIs ==
  ASSUME NEW s, IsCapture(s), NEW t, IsSeq(t), \A r \in ToSet(t) : FromForm(r, s) \/ FromJS(r)
  PROVE  IsCapture(s \o t) /\ Extends(s, s \o t)
<1> DEFINE u == s \o t
<1>1. /\ Len(s) \in Nat /\ DOMAIN s = 1..Len(s) /\ Len(t) \in Nat /\ DOMAIN t = 1..Len(t)
      /\ \A i \in DOMAIN t : t[i] \in ToSet(t)
  BY SeqIsSeq DEF IsCapture, IsSeq
<1>2. /\ IsSeq(u) /\ ToSet(u) = ToSet(s) \cup ToSet(t) /\ Len(u) = Len(s) + Len(t)
      /\ DOMAIN u = 1..(Len(s) + Len(t))
  <2>1. IsSeq(u) /\ ToSet(u) = ToSet(s) \cup ToSet(t) /\ Len(u) = Len(s) + Len(t)
    BY ConcatIsSeq DEF IsCapture
  <2> HIDE DEF u
  <2> QED BY <2>1, SeqIsSeq DEF IsSeq
<1>3. \A i \in DOMAIN u : u[i] = IF i <= Len(s) THEN s[i] ELSE t[i - Len(s)]
  <2>1. s \in Seq(ToSet(s) \cup ToSet(t)) /\ t \in Seq(ToSet(s) \cup ToSet(t))
    BY SeqMonotonic DEF IsCapture, IsSeq
  <2> QED BY <1>2, <2>1, ConcatProperties
<1> HIDE DEF u
<1>4. \A i \in DOMAIN s : i \in DOMAIN u /\ u[i] = s[i]
  BY <1>1, <1>2, <1>3
<1>5. ASSUME NEW i \in DOMAIN u, i \notin DOMAIN s
      PROVE  u[i].resp = NoResponse
  <2>1. ~(i <= Len(s)) /\ i - Len(s) \in DOMAIN t
    BY <1>1, <1>2, <1>5
  <2>2. u[i] \in ToSet(t)
    BY <1>1, <1>3, <2>1
  <2> QED BY <2>2 DEF FromForm, FromJS
<1>6. BundlesIn(u) = BundlesIn(s) /\ PagesIn(u) = PagesIn(s)
  BY <1>4, <1>5, NoResponseIs DEF BundlesIn, PagesIn
<1>7. AnalyzableIn(u) = AnalyzableIn(s)
  <2>1. \A i \in BundlesIn(s) : u[i] = s[i]
    BY <1>4 DEF BundlesIn
  <2> QED BY <1>6, <2>1 DEF AnalyzableIn
<1>8. \A r \in ToSet(u) : Captured(r) \/ FromForm(r, u) \/ FromJS(r)
  BY <1>2 DEF IsCapture, FromForm
<1> QED BY <1>2, <1>4, <1>6, <1>7, <1>8 DEF IsCapture, Extends, u

PCs == {"idle", "check", "map", "await", "source", "send", "exit"}
AtWork == {"check", "map", "await", "source", "send"}
Results == [bundle : Nat, requests : Seq(JSRequests), stats : [Counters -> Nat]]
Sources == UNION {ToSet(Bundles[b].map.sources) : b \in DOMAIN Bundles}
WorkerStates ==
    [pc : PCs, bundle : Nat, source : Nat, sources : Seq(Sources), res : Results]

Outcomes(st) == st.analyzed + st.skipped + st.panics

\* A result within the cap, of calls of its bundle.
Sound(r, b) ==
    /\ Len(r.requests) = r.stats.kept /\ r.stats.kept <= MaxEndpointsPerBundle
    /\ r.stats.abandoned = 0
    /\ \A q \in ToSet(r.requests) : \E src \in SitesIn(b) : Stands(q, ToSet(src), b.host)
    /\ r.stats.analyzed = 1 => FairShare(r.requests, b.sites, b.host, MaxEndpointsPerBundle)

Finds(r, s) == r.bundle \in AnalyzableIn(s) /\ Sound(r, Bundles[s[r.bundle].resp.body])

\* A result that may be sent: its bundle has come to one end.
Reports(s) == {r \in Results : Finds(r, s) /\ Outcomes(r.stats) = 1}

\* A worker waits for a parse only where there is room for what it may find.
Awaiting(rec) ==
    /\ rec.source \in {0} \cup DOMAIN rec.sources
    /\ rec.res.stats.kept < MaxEndpointsPerBundle
    /\ rec.source = 0 => rec.res.requests = <<>> /\ rec.res.stats.kept = 0
    /\ rec.res.stats.analyzed = IF rec.source = 0 THEN 0 ELSE 1

Sane(rec, s) ==
    /\ rec.pc \in AtWork => rec.bundle \in AnalyzableIn(s)
    /\ rec.pc \in {"await", "source", "send"} => Finds(rec.res, s) /\ rec.res.bundle = rec.bundle
    /\ rec.pc \in {"await", "source"} =>
          /\ rec.sources \in {<<>>, Bundles[s[rec.bundle].resp.body].map.sources}
          /\ rec.res.stats.skipped = 0 /\ rec.res.stats.panics = 0
    /\ rec.pc = "await" => Awaiting(rec)
    /\ rec.pc = "source" => rec.source >= 1 /\ rec.res.stats.analyzed = 1
    /\ rec.pc = "send" => Outcomes(rec.res.stats) = 1

Sanes(s) == {rec \in WorkerStates : Sane(rec, s)}

LEMMA ExtendsKeeps ==
  ASSUME NEW s, NEW u, Extends(s, u)
  PROVE  Reports(u) = Reports(s) /\ Sanes(u) = Sanes(s)
<1>1. AnalyzableIn(u) = AnalyzableIn(s) /\ \A i \in AnalyzableIn(s) : u[i] = s[i]
  BY DEF Extends, AnalyzableIn, BundlesIn
<1>2. \A r : Finds(r, u) <=> Finds(r, s)
  BY <1>1 DEF Finds
<1>3. Reports(u) = Reports(s)
  BY <1>2 DEF Reports
<1>4. \A rec : Sane(rec, u) <=> Sane(rec, s)
  <2> TAKE rec
  <2>1. rec.pc \in {"await", "source"} => (Sane(rec, u) \/ Sane(rec, s) => u[rec.bundle] = s[rec.bundle])
    BY <1>1 DEF Sane, AtWork
  <2> QED BY <1>1, <1>2, <2>1 DEF Sane
<1> QED BY <1>3, <1>4 DEF Sanes

SInv ==
    /\ IsCapture(requests)
    /\ parser \in Parsers /\ phase \in {"idle", "forms", "pool", "done"}
    /\ phase = "forms" => page \in PagesIn(requests)
    /\ worker \in [Workers -> Sanes(requests)]
    /\ \A w \in Workers : worker[w].pc \in AtWork => phase = "pool"
    /\ workCh \in Seq(Nat)
    /\ phase = "pool" => workCh \in Seq(AnalyzableIn(requests))
    /\ resultCh \in Seq(Reports(requests)) /\ collected \in Seq(Reports(requests))
    /\ stats \in [Counters -> Int]

\* The static requests of a capture.
StaticIn(s) == {i \in DOMAIN s : IsJSStaticSource(s[i].source)}
Static == Pick(requests, StaticIn(requests))

WorkersAtWork == {w \in Workers : worker[w].pc \in AtWork}
Skipped == Cardinality(BundleIndices) - Cardinality(ToAnalyze)

\* During an analysis every bundle that came to an end was collected, and
\* without a cancellation none is lost on the way.
Pooling ==
    /\ Outcomes(stats) = Skipped + Len(collected) /\ stats.abandoned = 0
    /\ stats.kept = Len(Synthesized) /\ StaticIn(requests) = {}
    /\ ~ctxDone =>
         /\ Cardinality(WorkersAtWork) + Len(workCh) + Len(resultCh) + Len(collected)
              = Cardinality(ToAnalyze)
         /\ (\E w \in Workers : worker[w].pc = "exit") => workCh = <<>>

\* Outside of one the counts are settled.
Settled ==
    /\ resultCh = <<>>
    /\ Outcomes(stats) + stats.abandoned \in {0, Cardinality(BundleIndices)}
    /\ stats.abandoned > 0 => failed
    /\ ~failed => Len(Static) = stats.kept

AInv ==
    /\ phase = "pool" => Pooling
    /\ phase # "pool" => Settled
    /\ failed => StaticIn(requests) = {}
    /\ StaticIn(requests) # {} => Static = Synthesized

-----------------------------------------------------------------------------
(* Workers keep it.                                                        *)

LEMMA EmptyIsSound ==
  ASSUME NEW r, r.requests = <<>>, r.stats.kept = 0, r.stats.abandoned = 0, r.stats.analyzed = 0, NEW b
  PROVE  Sound(r, b)
<1>1. Len(<<>>) = 0 /\ ToSet(<<>>) = {}
  BY EmptySeq DEF ToSet
<1>2. 0 <= MaxEndpointsPerBundle
  BY ExtractConstants
<1> QED BY <1>1, <1>2 DEF Sound

LEMMA NoResultIs ==
  /\ NoResult \in Results /\ NoResult.bundle = 0 /\ NoResult.requests = <<>>
  /\ NoResult.stats = NoStats /\ NoStats \in [Counters -> Nat] /\ \A c \in Counters : NoStats[c] = 0
<1>1. <<>> \in Seq(JSRequests)
  BY EmptySeq
<1>2. NoStats \in [Counters -> Nat] /\ \A c \in Counters : NoStats[c] = 0
  BY DEF NoStats
<1> HIDE DEF NoStats
<1> QED BY <1>1, <1>2 DEF NoResult, Results

LEMMA IdleIs ==
  ASSUME NEW s
  PROVE  Idle \in Sanes(s) /\ Idle.pc = "idle"
<1>1. Idle.pc = "idle" /\ Idle.pc \notin AtWork
  BY DEF Idle, AtWork
<1>2. Idle \in WorkerStates
  <2>1. <<>> \in Seq(Sources)
    BY EmptySeq
  <2> QED BY <2>1, NoResultIs DEF Idle, WorkerStates, PCs
<1>3. Sane(Idle, s)
  BY <1>1 DEF Sane, AtWork
<1> QED BY <1>1, <1>2, <1>3 DEF Sanes

LEMMA WorkerSteps ==
  ASSUME SInv, NEW w \in Workers, NEW rec \in Sanes(requests),
         rec.pc \in AtWork => phase = "pool",
         worker' = [worker EXCEPT ![w] = rec], UNCHANGED <<requests, phase>>
  PROVE  /\ worker' \in [Workers -> Sanes(requests')]
         /\ \A v \in Workers : worker'[v].pc \in AtWork => phase' = "pool"
<1>1. worker \in [Workers -> Sanes(requests)] /\ \A v \in Workers : worker[v].pc \in AtWork => phase = "pool"
  BY DEF SInv
<1> QED BY <1>1

\* What a worker at work has in hand.
LEMMA HandIs ==
  ASSUME SInv, NEW w \in Workers
  PROVE  /\ worker[w] \in WorkerStates /\ Sane(worker[w], requests)
         /\ worker[w].res \in Results /\ worker[w].res.stats \in [Counters -> Nat]
         /\ worker[w].pc \in AtWork =>
               /\ phase = "pool" /\ worker[w].bundle \in AnalyzableIn(requests)
               /\ requests[worker[w].bundle].resp.body \in DOMAIN Bundles
<1>1. worker[w] \in WorkerStates /\ Sane(worker[w], requests)
  BY DEF SInv, Sanes
<1>2. worker[w].res \in Results /\ worker[w].res.stats \in [Counters -> Nat]
  BY <1>1 DEF WorkerStates, Results
<1>3. worker[w].pc \in AtWork => worker[w].bundle \in AnalyzableIn(requests)
  BY <1>1 DEF Sane
<1>4. worker[w].pc \in AtWork => requests[worker[w].bundle].resp.body \in DOMAIN Bundles
  BY <1>3, BundlesAre DEF SInv, AnalyzableIn
<1> QED BY <1>1, <1>2, <1>3, <1>4 DEF SInv

LEMMA TakeKeeps ==
  ASSUME SInv, NEW w \in Workers, Take(w)
  PROVE  SInv'
<1>1. worker[w] \in WorkerStates /\ phase = "pool"
  BY HandIs DEF Take
<1>2. workCh \in Seq(AnalyzableIn(requests)) /\ workCh \in Seq(Nat)
  BY <1>1 DEF SInv
<1>3. CASE workCh = <<>>
  <2> DEFINE rec == [worker[w] EXCEPT !.pc = "exit"]
  <2>1. worker' = [worker EXCEPT ![w] = rec]
    BY <1>3 DEF Take, Step
  <2>2. rec \in WorkerStates /\ rec.pc = "exit"
    BY <1>1 DEF WorkerStates, PCs
  <2> HIDE DEF rec
  <2>3. rec \in Sanes(requests) /\ rec.pc \notin AtWork
    BY <2>2 DEF Sanes, Sane, AtWork
  <2>4. /\ worker' \in [Workers -> Sanes(requests')]
        /\ \A v \in Workers : worker'[v].pc \in AtWork => phase' = "pool"
    BY <2>1, <2>3, WorkerSteps DEF Take
  <2> QED BY <1>3, <2>4 DEF SInv, Take, formVars
<1>4. CASE workCh # <<>>
  <2> DEFINE rec == [[worker[w] EXCEPT !.bundle = Head(workCh)] EXCEPT !.pc = "check"]
  <2>1. worker' = [worker EXCEPT ![w] = rec] /\ workCh' = Tail(workCh)
    BY <1>4 DEF Take, Step
  <2>2. Head(workCh) \in AnalyzableIn(requests) /\ Head(workCh) \in Nat
    BY <1>2, <1>4, HeadTailProperties
  <2>3. Tail(workCh) \in Seq(AnalyzableIn(requests)) /\ Tail(workCh) \in Seq(Nat)
    BY <1>2, <1>4, HeadTailProperties
  <2>4. rec \in WorkerStates /\ rec.pc = "check" /\ rec.bundle = Head(workCh)
    BY <1>1, <2>2 DEF WorkerStates, PCs
  <2> HIDE DEF rec
  <2>5. rec \in Sanes(requests)
    BY <2>2, <2>4 DEF Sanes, Sane, AtWork
  <2>6. /\ worker' \in [Workers -> Sanes(requests')]
        /\ \A v \in Workers : worker'[v].pc \in AtWork => phase' = "pool"
    BY <1>1, <2>1, <2>5, WorkerSteps DEF Take
  <2> QED BY <2>1, <2>3, <2>6 DEF SInv, Take, formVars
<1> QED BY <1>3, <1>4

LEMMA CheckKeeps ==
  ASSUME SInv, NEW w \in Workers, Check(w)
  PROVE  SInv'
<1> DEFINE rec == [worker[w] EXCEPT !.pc = IF ctxDone THEN "exit" ELSE "map"]
<1>1. worker[w] \in WorkerStates /\ phase = "pool" /\ worker[w].bundle \in AnalyzableIn(requests)
  BY HandIs DEF Check, AtWork
<1>2. worker' = [worker EXCEPT ![w] = rec]
  BY DEF Check, Step
<1>3. rec \in WorkerStates /\ rec.pc \in {"exit", "map"} /\ rec.bundle = worker[w].bundle
  BY <1>1 DEF WorkerStates, PCs
<1> HIDE DEF rec
<1>4. rec \in Sanes(requests)
  BY <1>1, <1>3 DEF Sanes, Sane, AtWork
<1>5. /\ worker' \in [Workers -> Sanes(requests')]
      /\ \A v \in Workers : worker'[v].pc \in AtWork => phase' = "pool"
  BY <1>1, <1>2, <1>4, WorkerSteps DEF Check
<1> QED BY <1>5 DEF SInv, Check, formVars

LEMMA RecoveredMapIs ==
  ASSUME NEW b, NEW done, NEW map \in RecoverSourcemap(b, done)
  PROVE  /\ map.sources \in {<<>>, b.map.sources}
         /\ map.failed \in Nat /\ map.recovered \in Nat
<1> DEFINE read == IF b.map.valid THEN MapRead(b.map.sources) ELSE MapFailed
<1>1. map \in {NoMap, MapFailed, read}
  BY DEF RecoverSourcemap
<1>2. /\ NoMap.sources = <<>> /\ NoMap.failed = 0 /\ NoMap.recovered = 0
      /\ MapFailed.sources = <<>> /\ MapFailed.failed = 1 /\ MapFailed.recovered = 0
  BY DEF NoMap, MapFailed
<1>3. \A ss : /\ MapRead(ss).sources = ss /\ MapRead(ss).failed = 0
              /\ MapRead(ss).recovered \in {0, 1}
  BY DEF MapRead
<1> QED BY <1>1, <1>2, <1>3

LEMMA RecoverKeeps ==
  ASSUME SInv, NEW w \in Workers, Recover(w)
  PROVE  SInv'
<1> DEFINE b == worker[w].bundle
<1>1. /\ worker[w] \in WorkerStates /\ phase = "pool" /\ b \in AnalyzableIn(requests)
      /\ requests[b].resp.body \in DOMAIN Bundles
  BY HandIs DEF Recover, AtWork
<1>2. PICK map \in RecoverSourcemap(BundleOf(b), ctxDone) :
          worker' = [worker EXCEPT ![w] =
              [[worker[w] EXCEPT !.source = 0, !.sources = map.sources,
                                 !.res = [NoResult EXCEPT
                                    !.bundle = b,
                                    !.stats.fetchFails = map.failed,
                                    !.stats.recovered = map.recovered]] EXCEPT !.pc = "await"]]
  BY DEF Recover, Step
<1> DEFINE res == [NoResult EXCEPT !.bundle = b, !.stats.fetchFails = map.failed,
                                   !.stats.recovered = map.recovered]
           rec == [[worker[w] EXCEPT !.source = 0, !.sources = map.sources, !.res = res] EXCEPT
                      !.pc = "await"]
<1>3. /\ map.sources \in {<<>>, Bundles[requests[b].resp.body].map.sources}
      /\ map.failed \in Nat /\ map.recovered \in Nat
  BY RecoveredMapIs DEF BundleOf
<1>4. b \in Nat
  BY <1>1 DEF WorkerStates
<1>5. /\ res.bundle = b /\ res.requests = <<>>
      /\ res.stats = [NoStats EXCEPT !.fetchFails = map.failed, !.recovered = map.recovered]
      /\ DOMAIN res = {"bundle", "requests", "stats"}
  BY NoResultIs DEF NoResult
<1> DEFINE st == [NoStats EXCEPT !.fetchFails = map.failed, !.recovered = map.recovered]
<1>6. /\ st \in [Counters -> Nat] /\ st["kept"] = 0 /\ st["abandoned"] = 0 /\ st["analyzed"] = 0
      /\ st["skipped"] = 0 /\ st["panics"] = 0
  <2>1. {"fetchFails", "recovered", "kept", "abandoned", "analyzed", "skipped", "panics"} \subseteq Counters
    BY DEF Counters
  <2> HIDE DEF Counters
  <2> QED BY <1>3, <2>1, NoResultIs
<1>7. res \in Results
  <2>1. res = [NoResult EXCEPT !.bundle = b, !.stats = st]
    BY NoResultIs DEF NoResult
  <2> HIDE DEF st, res
  <2> QED BY <1>4, <1>6, <2>1, NoResultIs DEF Results
<1>8. map.sources \in Seq(Sources)
  <2>1. Bundles[requests[b].resp.body] \in ToSet(Bundles)
    BY <1>1 DEF ToSet
  <2>2. LET ss == Bundles[requests[b].resp.body].map.sources
        IN  ss \in Seq(ToSet(ss)) /\ ToSet(ss) \subseteq Sources
    BY <1>1, <2>1, BundleShapes DEF Sources
  <2>3. <<>> \in Seq(Sources)
    BY EmptySeq
  <2> QED BY <1>3, <2>2, <2>3, SeqMonotonic
<1>9. res.stats = st
  BY <1>5
<1> HIDE DEF res, st
<1>10. /\ rec \in WorkerStates /\ rec.pc = "await" /\ rec.bundle = b /\ rec.source = 0
       /\ rec.sources = map.sources /\ rec.res = res
  BY <1>1, <1>7, <1>8 DEF WorkerStates, PCs
<1>11. worker' = [worker EXCEPT ![w] = rec]
  BY <1>2 DEF res
<1> HIDE DEF rec
<1>12. Finds(res, requests)
  BY <1>1, <1>5, <1>6, <1>9, EmptyIsSound DEF Finds
<1>13. Awaiting(rec)
  BY <1>5, <1>6, <1>9, <1>10, ExtractConstants DEF Awaiting
<1>14. rec \in Sanes(requests)
  BY <1>1, <1>3, <1>5, <1>6, <1>9, <1>10, <1>12, <1>13 DEF Sanes, Sane, AtWork
<1>15. /\ worker' \in [Workers -> Sanes(requests')]
       /\ \A v \in Workers : worker'[v].pc \in AtWork => phase' = "pool"
  BY <1>1, <1>11, <1>14, WorkerSteps DEF Recover
<1> QED BY <1>15 DEF SInv, Recover, formVars

\* A count that tells nothing of the requests leaves a result sound.
LEMMA Recounted ==
  ASSUME NEW r, NEW q, NEW s, Finds(r, s), q.bundle = r.bundle, q.requests = r.requests,
         q.stats.kept = r.stats.kept, q.stats.abandoned = r.stats.abandoned,
         q.stats.analyzed = r.stats.analyzed
  PROVE  Finds(q, s)
BY DEF Finds, Sound

LEMMA OneCountIs ==
  ASSUME NEW r \in Results, NEW c \in Counters, NEW n \in Nat
  PROVE  LET q == [r EXCEPT !.stats[c] = n]
         IN  /\ q \in Results /\ q.bundle = r.bundle /\ q.requests = r.requests
             /\ q.stats[c] = n /\ \A d \in Counters : d # c => q.stats[d] = r.stats[d]
<1> DEFINE q == [r EXCEPT !.stats[c] = n]
           st == [r.stats EXCEPT ![c] = n]
<1>1. r.stats \in [Counters -> Nat] /\ r.bundle \in Nat /\ r.requests \in Seq(JSRequests)
  BY DEF Results
<1>2. st \in [Counters -> Nat] /\ st[c] = n /\ \A d \in Counters : d # c => st[d] = r.stats[d]
  BY <1>1
<1>3. q = [r EXCEPT !.stats = st]
  BY DEF Results
<1> HIDE DEF st, q
<1>4. q \in Results /\ q.bundle = r.bundle /\ q.requests = r.requests /\ q.stats = st
  BY <1>1, <1>2, <1>3 DEF Results
<1> QED BY <1>2, <1>4 DEF q

LEMMA CountersAre ==
  {"analyzed", "skipped", "panics", "abandoned", "found", "kept", "srcPanics", "srcTimeouts",
   "srcOversized"} \subseteq Counters
BY DEF Counters

\* The bundle is given up: its parse panicked or took too long.
LEMMA GivenUp ==
  ASSUME SInv, NEW w \in Workers, worker[w].pc = "await", worker[w].source = 0
  PROVE  [[worker[w] EXCEPT !.res.stats.skipped = 1] EXCEPT !.pc = "send"] \in Sanes(requests)
<1>0. PICK c : c = "skipped"
  OBVIOUS
<1> DEFINE r == worker[w].res
           q == [r EXCEPT !.stats[c] = 1]
           rec == [[worker[w] EXCEPT !.res.stats.skipped = 1] EXCEPT !.pc = "send"]
<1>1. /\ worker[w] \in WorkerStates /\ Sane(worker[w], requests) /\ r \in Results
      /\ worker[w].bundle \in AnalyzableIn(requests)
  BY HandIs DEF AtWork
<1>2. /\ q \in Results /\ q.bundle = r.bundle /\ q.requests = r.requests
      /\ q.stats[c] = 1 /\ \A d \in Counters : d # c => q.stats[d] = r.stats[d]
  <2>1. c \in Counters
    BY <1>0, CountersAre
  <2> QED BY <1>1, <2>1, OneCountIs
<1>3. rec = [worker[w] EXCEPT !.res = q, !.pc = "send"]
  BY <1>0, <1>1 DEF WorkerStates
<1>4. Finds(r, requests) /\ r.bundle = worker[w].bundle
  BY <1>1 DEF Sane
<1>5. r.stats.analyzed = 0 /\ r.stats.panics = 0
  BY <1>1 DEF Sane, Awaiting
<1> HIDE DEF q, r, rec
<1>6. /\ q.stats.kept = r.stats.kept /\ q.stats.abandoned = r.stats.abandoned
      /\ q.stats.analyzed = r.stats.analyzed /\ q.stats.panics = r.stats.panics
  BY <1>0, <1>2, CountersAre
<1>7. Finds(q, requests)
  BY <1>2, <1>4, <1>6, Recounted
<1>8. rec \in WorkerStates /\ rec.pc = "send" /\ rec.bundle = worker[w].bundle /\ rec.res = q
  BY <1>1, <1>2, <1>3 DEF WorkerStates, PCs
<1>9. Outcomes(q.stats) = 1
  BY <1>0, <1>2, <1>5, <1>6 DEF Outcomes
<1>10. Sane(rec, requests)
  BY <1>1, <1>2, <1>4, <1>7, <1>8, <1>9 DEF Sane
<1> QED BY <1>8, <1>10 DEF Sanes, rec

\* A source of the map is passed over: a panic, a timeout, or its size.
LEMMA PassedOver ==
  ASSUME SInv, NEW w \in Workers, NEW c \in {"srcPanics", "srcTimeouts", "srcOversized"},
         worker[w].pc = "source" \/ (worker[w].pc = "await" /\ worker[w].source # 0)
  PROVE  [[worker[w] EXCEPT !.source = @ + 1, !.res.stats[c] = @ + 1] EXCEPT !.pc = "source"]
            \in Sanes(requests)
<1> DEFINE r == worker[w].res
           q == [r EXCEPT !.stats[c] = r.stats[c] + 1]
           rec == [[worker[w] EXCEPT !.source = @ + 1, !.res.stats[c] = @ + 1] EXCEPT !.pc = "source"]
<1>1. /\ worker[w] \in WorkerStates /\ Sane(worker[w], requests) /\ r \in Results
      /\ r.stats \in [Counters -> Nat] /\ worker[w].bundle \in AnalyzableIn(requests)
  BY HandIs DEF AtWork
<1>2. c \in Counters /\ c \notin {"analyzed", "skipped", "panics", "abandoned", "kept"}
  BY CountersAre
<1>3. r.stats[c] + 1 \in Nat
  BY <1>1, <1>2
<1>4. /\ q \in Results /\ q.bundle = r.bundle /\ q.requests = r.requests
      /\ \A d \in Counters : d # c => q.stats[d] = r.stats[d]
  BY <1>1, <1>2, <1>3, OneCountIs
<1>5. rec = [worker[w] EXCEPT !.source = worker[w].source + 1, !.res = q, !.pc = "source"]
  BY <1>1 DEF WorkerStates
<1>6. Finds(r, requests) /\ r.bundle = worker[w].bundle
  BY <1>1 DEF Sane
<1>7. /\ r.stats.analyzed = 1 /\ r.stats.skipped = 0 /\ r.stats.panics = 0
      /\ worker[w].source \in Nat
      /\ worker[w].sources \in {<<>>, Bundles[requests[worker[w].bundle].resp.body].map.sources}
  BY <1>1 DEF Sane, Awaiting, WorkerStates
<1> HIDE DEF q, r, rec
<1>8. /\ q.stats.kept = r.stats.kept /\ q.stats.abandoned = r.stats.abandoned
      /\ q.stats.analyzed = r.stats.analyzed /\ q.stats.panics = r.stats.panics
      /\ q.stats.skipped = r.stats.skipped
  BY <1>2, <1>4, CountersAre
<1>9. Finds(q, requests)
  BY <1>4, <1>6, <1>8, Recounted
<1>10. worker[w].source + 1 \in Nat /\ worker[w].source + 1 >= 1
  BY <1>7
<1>11. /\ rec \in WorkerStates /\ rec.pc = "source" /\ rec.bundle = worker[w].bundle /\ rec.res = q
       /\ rec.source = worker[w].source + 1 /\ rec.sources = worker[w].sources
  BY <1>1, <1>4, <1>5, <1>10 DEF WorkerStates, PCs
<1>12. Sane(rec, requests)
  BY <1>1, <1>4, <1>6, <1>7, <1>8, <1>9, <1>10, <1>11 DEF Sane
<1> QED BY <1>11, <1>12 DEF Sanes, rec

\* A finished parse adds its endpoints within what is left of the cap.
LEMMA KeepIs ==
  ASSUME SInv, NEW w \in Workers, worker[w].pc = "await"
  PROVE  /\ Keep(w) \in Results /\ Finds(Keep(w), requests) /\ Keep(w).bundle = worker[w].bundle
         /\ Keep(w).stats.analyzed = 1 /\ Keep(w).stats.skipped = 0 /\ Keep(w).stats.panics = 0
<1> DEFINE rec == worker[w]
           r == rec.res
           body == requests[r.bundle].resp.body
           k == rec.source
           room == MaxEndpointsPerBundle - r.stats.kept
           y == Contribution[body][k][room]
           host == Bundles[body].host
           found == r.stats.found + Len(Endpoints[body][k])
           kept == r.stats.kept + Len(y)
           analyzed == IF k = 0 THEN 1 ELSE r.stats.analyzed
           st == [r.stats EXCEPT !["found"] = found, !["kept"] = kept, !["analyzed"] = analyzed]
           q == [r EXCEPT !.requests = r.requests \o y, !.stats = st]
<1>1. /\ rec \in WorkerStates /\ Sane(rec, requests) /\ r \in Results
      /\ r.stats \in [Counters -> Nat] /\ r.requests \in Seq(JSRequests)
      /\ rec.bundle \in AnalyzableIn(requests) /\ requests[rec.bundle].resp.body \in DOMAIN Bundles
  BY HandIs DEF AtWork, Results
<1>2. /\ Finds(r, requests) /\ r.bundle = rec.bundle /\ Awaiting(rec)
      /\ rec.sources \in {<<>>, Bundles[requests[rec.bundle].resp.body].map.sources}
      /\ r.stats.skipped = 0 /\ r.stats.panics = 0
  BY <1>1 DEF Sane
<1>3. Sound(r, Bundles[body])
  BY <1>2 DEF Finds
<1>4. body \in DOMAIN Bundles /\ k \in SourceNumbers(body)
  <2>1. DOMAIN <<>> = {}
    OBVIOUS
  <2> QED BY <1>1, <1>2, <2>1 DEF SourceNumbers, Awaiting
<1>5. room \in 1..MaxEndpointsPerBundle /\ r.stats.kept \in Nat /\ MaxEndpointsPerBundle \in Nat
  <2>1. r.stats.kept \in Nat
    BY <1>1, CountersAre
  <2> QED BY <1>2, <2>1, ExtractConstants DEF Awaiting
<1>6. /\ Len(Endpoints[body][k]) \in Nat
      /\ y \in Seq(JSRequests)
      /\ Share(y, SitesOf(body, k), host, room)
      /\ k = 0 => FairShare(y, Bundles[body].sites, host, room)
  BY <1>4, <1>5, ContributionIs
<1>7. Keep(w) = q
  <2>1. Keep(w) = [r EXCEPT !.requests = @ \o y, !.stats.found = @ + Len(Endpoints[body][k]),
                            !.stats.kept = @ + Len(y), !.stats.analyzed = IF k = 0 THEN 1 ELSE @]
    BY DEF Keep
  <2> HIDE DEF y, body, k
  <2> QED BY <1>1, <2>1, CountersAre DEF Results
<1>8. IsSeq(y) /\ Len(y) \in Nat /\ Len(y) <= room
  BY <1>6 DEF Share
<1>9. IsSeq(r.requests) /\ Len(r.requests) = r.stats.kept
  BY <1>1, <1>3, SeqIsSeq DEF Sound
<1> HIDE DEF y, body, room, found, kept, analyzed
<1>10. /\ IsSeq(r.requests \o y) /\ ToSet(r.requests \o y) = ToSet(r.requests) \cup ToSet(y)
       /\ Len(r.requests \o y) = kept /\ r.requests \o y \in Seq(JSRequests)
  <2>1. /\ IsSeq(r.requests \o y) /\ ToSet(r.requests \o y) = ToSet(r.requests) \cup ToSet(y)
        /\ Len(r.requests \o y) = Len(r.requests) + Len(y)
    BY <1>8, <1>9, ConcatIsSeq
  <2> QED BY <1>1, <1>6, <1>9, <2>1, ConcatProperties DEF kept
<1>11. kept \in Nat /\ kept <= MaxEndpointsPerBundle /\ found \in Nat
  <2>1. r.stats.found \in Nat
    BY <1>1, CountersAre
  <2> DEFINE a == r.stats.kept
             n == Len(y)
             e == Len(Endpoints[body][k])
  <2>2. a \in Nat /\ n \in Nat /\ e \in Nat /\ n <= MaxEndpointsPerBundle - a
    BY <1>5, <1>6, <1>8 DEF room
  <2> HIDE DEF a, n, e
  <2>3. a + n \in Nat /\ a + n <= MaxEndpointsPerBundle
    BY <1>5, <2>2
  <2> QED BY <2>1, <2>2, <2>3 DEF kept, found, a, n, e
<1>12. analyzed = 1
  BY <1>2 DEF Awaiting, analyzed
<1>13. /\ st \in [Counters -> Nat] /\ st["kept"] = kept /\ st["analyzed"] = 1
       /\ st["abandoned"] = r.stats["abandoned"]
       /\ st["skipped"] = r.stats["skipped"] /\ st["panics"] = r.stats["panics"]
  BY <1>1, <1>11, <1>12, CountersAre
<1> HIDE DEF st
<1>14. q \in Results /\ q.requests = r.requests \o y /\ q.stats = st /\ q.bundle = r.bundle
  BY <1>1, <1>10, <1>13 DEF Results
<1>15. \A p \in ToSet(q.requests) : \E src \in SitesIn(Bundles[body]) : Stands(p, ToSet(src), Bundles[body].host)
  <2>1. SitesOf(body, k) \in SitesIn(Bundles[body])
    BY <1>4, SitesAre
  <2> QED BY <1>3, <1>6, <1>10, <1>14, <2>1 DEF Share, Sound
<1>16. FairShare(q.requests, Bundles[body].sites, Bundles[body].host, MaxEndpointsPerBundle)
  <2>1. CASE k = 0
    <3>1. r.requests = <<>> /\ room = MaxEndpointsPerBundle
      BY <1>2, <1>5, <2>1, ExtractConstants DEF Awaiting, room
    <3>2. q.requests = y
      BY <1>6, <1>14, <3>1, ConcatProperties
    <3> QED BY <1>6, <2>1, <3>1, <3>2
  <2>2. CASE k # 0
    <3>1. r.stats.analyzed = 1
      BY <1>2, <2>2 DEF Awaiting
    <3>2. FairShare(r.requests, Bundles[body].sites, Bundles[body].host, MaxEndpointsPerBundle)
      BY <1>3, <3>1 DEF Sound
    <3>3. AreSites(Bundles[body].sites)
      BY <1>4, BundleShapes DEF ToSet
    <3> QED BY <1>5, <1>8, <1>9, <1>14, <3>2, <3>3, FairShareGrows
  <2> QED BY <2>1, <2>2
<1>17. Sound(q, Bundles[body])
  BY <1>3, <1>10, <1>11, <1>13, <1>14, <1>15, <1>16 DEF Sound
<1>18. Finds(q, requests)
  BY <1>1, <1>2, <1>14, <1>17 DEF Finds, body
<1>19. q.stats.analyzed = 1 /\ q.stats.skipped = 0 /\ q.stats.panics = 0 /\ q.bundle = rec.bundle
  BY <1>2, <1>13, <1>14
<1> HIDE DEF q
<1> QED BY <1>7, <1>14, <1>18, <1>19 DEF q

LEMMA ParsedIs ==
  ASSUME SInv, NEW w \in Workers, worker[w].pc = "await"
  PROVE  [[worker[w] EXCEPT !.source = @ + 1, !.res = Keep(w)] EXCEPT !.pc = "source"]
            \in Sanes(requests)
<1> DEFINE q == Keep(w)
           rec == [[worker[w] EXCEPT !.source = @ + 1, !.res = q] EXCEPT !.pc = "source"]
<1>1. /\ worker[w] \in WorkerStates /\ Sane(worker[w], requests)
      /\ worker[w].bundle \in AnalyzableIn(requests)
  BY HandIs DEF AtWork
<1>2. /\ q \in Results /\ Finds(q, requests) /\ q.bundle = worker[w].bundle
      /\ q.stats.analyzed = 1 /\ q.stats.skipped = 0 /\ q.stats.panics = 0
  BY KeepIs
<1> HIDE DEF q
<1>3. worker[w].source \in Nat /\ worker[w].source + 1 \in Nat /\ worker[w].source + 1 >= 1
  BY <1>1 DEF WorkerStates
<1>4. /\ rec \in WorkerStates /\ rec.pc = "source" /\ rec.bundle = worker[w].bundle /\ rec.res = q
      /\ rec.source = worker[w].source + 1 /\ rec.source >= 1 /\ rec.sources = worker[w].sources
  <2>1. rec = [worker[w] EXCEPT !.source = worker[w].source + 1, !.res = q, !.pc = "source"]
    BY <1>1 DEF WorkerStates
  <2> HIDE DEF rec
  <2> QED BY <1>1, <1>2, <1>3, <2>1 DEF WorkerStates, PCs
<1> HIDE DEF rec
<1>5. Sane(rec, requests)
  BY <1>1, <1>2, <1>4 DEF Sane
<1> QED BY <1>4, <1>5 DEF Sanes, rec, q

LEMMA AnswerKeeps ==
  ASSUME SInv, NEW w \in Workers, Answer(w)
  PROVE  SInv'
<1>1. PICK a \in answers :
        /\ Awaits(w, a[1])
        /\ IF a[2] = "ok"
           THEN Step(w, "source", [worker[w] EXCEPT !.source = @ + 1, !.res = Keep(w)])
           ELSE IF worker[w].source = 0
           THEN Step(w, "send", [worker[w] EXCEPT !.res.stats.skipped = 1])
           ELSE Step(w, "source", [worker[w] EXCEPT !.source = @ + 1,
                                                    !.res.stats.srcPanics = @ + 1])
  BY DEF Answer
<1>2. worker[w].pc = "await" /\ phase = "pool"
  BY <1>1, HandIs DEF Awaits, AtWork
<1>3. PICK rec \in Sanes(requests) : worker' = [worker EXCEPT ![w] = rec]
  <2>1. CASE a[2] = "ok"
    BY <1>1, <1>2, <2>1, ParsedIs DEF Step
  <2>2. CASE a[2] # "ok" /\ worker[w].source = 0
    BY <1>1, <1>2, <2>2, GivenUp DEF Step
  <2>3. CASE a[2] # "ok" /\ worker[w].source # 0
    BY <1>1, <1>2, <2>3, PassedOver DEF Step
  <2> QED BY <2>1, <2>2, <2>3
<1>4. /\ worker' \in [Workers -> Sanes(requests')]
      /\ \A v \in Workers : worker'[v].pc \in AtWork => phase' = "pool"
  BY <1>2, <1>3, WorkerSteps DEF Answer
<1> QED BY <1>4 DEF SInv, Answer, formVars

LEMMA TimeoutKeeps ==
  ASSUME SInv, NEW w \in Workers, Timeout(w)
  PROVE  SInv'
<1>1. worker[w].pc = "await" /\ phase = "pool"
  BY HandIs DEF Timeout, AtWork
<1>2. PICK rec \in Sanes(requests) : worker' = [worker EXCEPT ![w] = rec]
  <2>1. CASE worker[w].source = 0
    BY <1>1, <2>1, GivenUp DEF Step, Timeout
  <2>2. CASE worker[w].source # 0
    BY <1>1, <2>2, PassedOver DEF Step, Timeout
  <2> QED BY <2>1, <2>2
<1>3. /\ worker' \in [Workers -> Sanes(requests')]
      /\ \A v \in Workers : worker'[v].pc \in AtWork => phase' = "pool"
  BY <1>1, <1>2, WorkerSteps DEF Timeout
<1> QED BY <1>3 DEF SInv, Timeout, formVars

LEMMA NextSourceKeeps ==
  ASSUME SInv, NEW w \in Workers, NextSource(w)
  PROVE  SInv'
<1> DEFINE old == worker[w]
<1>1. /\ old.pc = "source" /\ phase = "pool" /\ old \in WorkerStates /\ Sane(old, requests)
      /\ old.bundle \in AnalyzableIn(requests) /\ old.res.stats \in [Counters -> Nat]
  BY HandIs DEF NextSource, AtWork
<1>2. /\ Finds(old.res, requests) /\ old.res.bundle = old.bundle
      /\ old.sources \in {<<>>, Bundles[requests[old.bundle].resp.body].map.sources}
      /\ old.res.stats.analyzed = 1 /\ old.res.stats.skipped = 0 /\ old.res.stats.panics = 0
      /\ old.source >= 1 /\ old.source \in Nat
      /\ Len(old.sources) \in Nat /\ DOMAIN old.sources = 1..Len(old.sources)
  BY <1>1, LenProperties DEF Sane, WorkerStates
<1>3. PICK rec \in Sanes(requests) : worker' = [worker EXCEPT ![w] = rec]
  <2>1. CASE worker' = [worker EXCEPT ![w] = [old EXCEPT !.pc = "send"]]
    <3> DEFINE rec == [old EXCEPT !.pc = "send"]
    <3>1. /\ rec \in WorkerStates /\ rec.pc = "send" /\ rec.res = old.res /\ rec.bundle = old.bundle
      BY <1>1 DEF WorkerStates, PCs
    <3> HIDE DEF rec
    <3>2. Outcomes(rec.res.stats) = 1
      BY <1>2, <3>1 DEF Outcomes
    <3>3. Sane(rec, requests)
      BY <1>1, <1>2, <3>1, <3>2 DEF Sane
    <3> QED BY <2>1, <3>1, <3>3 DEF Sanes, rec
  <2>2. CASE worker' = [worker EXCEPT ![w] =
                [[old EXCEPT !.source = @ + 1, !.res.stats.srcOversized = @ + 1] EXCEPT !.pc = "source"]]
    BY <1>1, <2>2, PassedOver
  <2>3. CASE /\ worker' = [worker EXCEPT ![w] = [old EXCEPT !.pc = "await"]]
             /\ old.source <= Len(old.sources) /\ old.res.stats.kept < MaxEndpointsPerBundle
    <3> DEFINE rec == [old EXCEPT !.pc = "await"]
    <3>1. /\ rec \in WorkerStates /\ rec.pc = "await" /\ rec.res = old.res /\ rec.bundle = old.bundle
          /\ rec.source = old.source /\ rec.sources = old.sources
      BY <1>1 DEF WorkerStates, PCs
    <3> HIDE DEF rec
    <3>2. Awaiting(rec)
      BY <1>2, <2>3, <3>1 DEF Awaiting
    <3>3. Sane(rec, requests)
      BY <1>1, <1>2, <3>1, <3>2 DEF Sane
    <3> QED BY <2>3, <3>1, <3>3 DEF Sanes, rec
  <2> QED BY <2>1, <2>2, <2>3 DEF NextSource, Step
<1>4. /\ worker' \in [Workers -> Sanes(requests')]
      /\ \A v \in Workers : worker'[v].pc \in AtWork => phase' = "pool"
  BY <1>1, <1>3, WorkerSteps DEF NextSource
<1> QED BY <1>4 DEF SInv, NextSource, formVars

LEMMA AnalyzeOnePanicKeeps ==
  ASSUME SInv, NEW w \in Workers, AnalyzeOnePanic(w)
  PROVE  SInv'
<1> DEFINE b == worker[w].bundle
           q == [NoResult EXCEPT !.bundle = b, !.stats.panics = 1]
           st == [NoStats EXCEPT !["panics"] = 1]
           rec == [[worker[w] EXCEPT !.res = q] EXCEPT !.pc = "send"]
<1>1. /\ worker[w] \in WorkerStates /\ phase = "pool" /\ b \in AnalyzableIn(requests) /\ b \in Nat
  BY HandIs DEF AnalyzeOnePanic, AtWork, WorkerStates
<1>2. /\ st \in [Counters -> Nat] /\ st["panics"] = 1 /\ st["analyzed"] = 0 /\ st["skipped"] = 0
      /\ st["kept"] = 0 /\ st["abandoned"] = 0
  BY NoResultIs, CountersAre
<1>3. q \in Results /\ q.bundle = b /\ q.requests = <<>> /\ q.stats = st
  <2>1. q = [NoResult EXCEPT !.bundle = b, !.stats = st]
    BY NoResultIs DEF NoResult
  <2> HIDE DEF st, q
  <2> QED BY <1>1, <1>2, <2>1, NoResultIs DEF Results
<1> HIDE DEF st, q
<1>4. rec \in WorkerStates /\ rec.pc = "send" /\ rec.res = q /\ rec.bundle = b
  BY <1>1, <1>3 DEF WorkerStates, PCs
<1>5. worker' = [worker EXCEPT ![w] = rec]
  BY DEF AnalyzeOnePanic, Step, q
<1> HIDE DEF rec
<1>6. Finds(q, requests) /\ Outcomes(q.stats) = 1
  <2>1. /\ q.stats.kept = 0 /\ q.stats.abandoned = 0 /\ q.stats.analyzed = 0
        /\ q.stats.skipped = 0 /\ q.stats.panics = 1
    BY <1>2, <1>3
  <2>2. \A body : Sound(q, body)
    BY <1>3, <2>1, EmptyIsSound
  <2>3. Outcomes(q.stats) = 1
    BY <2>1 DEF Outcomes
  <2> QED BY <1>1, <1>3, <2>2, <2>3 DEF Finds
<1>7. rec \in Sanes(requests)
  BY <1>1, <1>3, <1>4, <1>6 DEF Sanes, Sane
<1>8. /\ worker' \in [Workers -> Sanes(requests')]
      /\ \A v \in Workers : worker'[v].pc \in AtWork => phase' = "pool"
  BY <1>1, <1>5, <1>7, WorkerSteps DEF AnalyzeOnePanic
<1> QED BY <1>8 DEF SInv, AnalyzeOnePanic, formVars

LEMMA SendKeeps ==
  ASSUME SInv, NEW w \in Workers, Send(w)
  PROVE  SInv'
<1>1. /\ worker[w].pc = "send" /\ Sane(worker[w], requests) /\ worker[w].res \in Results
  BY HandIs DEF Send
<1>2. worker[w].res \in Reports(requests)
  BY <1>1 DEF Sane, Reports
<1>3. resultCh' \in Seq(Reports(requests))
  BY <1>2, AppendProperties DEF SInv, Send
<1>4. worker' = [worker EXCEPT ![w] = Idle]
  BY DEF Send
<1>5. /\ worker' \in [Workers -> Sanes(requests')]
      /\ \A v \in Workers : worker'[v].pc \in AtWork => phase' = "pool"
  <2>1. Idle \in Sanes(requests) /\ Idle.pc \notin AtWork
    BY IdleIs DEF AtWork
  <2> QED BY <1>4, <2>1, WorkerSteps DEF Send
<1> QED BY <1>3, <1>5 DEF SInv, Send, formVars

LEMMA CollectKeeps ==
  ASSUME SInv, Collect
  PROVE  SInv'
<1>1. /\ Head(resultCh) \in Reports(requests) /\ Tail(resultCh) \in Seq(Reports(requests))
      /\ resultCh' = Tail(resultCh) /\ collected' = Append(collected, Head(resultCh))
  BY HeadTailProperties DEF SInv, Collect
<1>2. collected' \in Seq(Reports(requests))
  BY <1>1, AppendProperties DEF SInv
<1>3. stats' \in [Counters -> Int]
  <2>1. Head(resultCh).stats \in [Counters -> Nat]
    BY <1>1 DEF Reports, Results
  <2>2. stats' = [c \in Counters |-> stats[c] + Head(resultCh).stats[c]]
    BY DEF Collect, Add
  <2> HIDE DEF Counters
  <2> QED BY <2>1, <2>2 DEF SInv
<1> QED BY <1>1, <1>2, <1>3 DEF SInv, Collect, formVars

-----------------------------------------------------------------------------
(* The stages keep it.                                                     *)

LEMMA StateNames ==
  /\ HTMLPages = PagesIn(requests) /\ BundleIndices = BundlesIn(requests)
  /\ ToAnalyze = AnalyzableIn(requests)
  /\ HTMLPages' = PagesIn(requests') /\ BundleIndices' = BundlesIn(requests')
  /\ ToAnalyze' = AnalyzableIn(requests')
BY DEF HTMLPages, PagesIn, BundleIndices, BundlesIn, ToAnalyze, AnalyzableIn, Oversized, BundleOf

LEMMA FiniteIndices ==
  ASSUME SInv
  PROVE  /\ IsFiniteSet(BundleIndices) /\ IsFiniteSet(ToAnalyze)
         /\ Cardinality(BundleIndices) \in Nat /\ Cardinality(ToAnalyze) \in Nat
         /\ Len(requests) \in Nat /\ DOMAIN requests = 1..Len(requests)
         /\ ToAnalyze \in SUBSET (1..Len(requests))
<1>1. Len(requests) \in Nat /\ DOMAIN requests = 1..Len(requests)
  BY SeqIsSeq DEF SInv, IsCapture, IsSeq
<1>2. BundleIndices \in SUBSET (1..Len(requests)) /\ ToAnalyze \in SUBSET (1..Len(requests))
  BY <1>1 DEF BundleIndices, ToAnalyze
<1>3. IsFiniteSet(1..Len(requests))
  BY <1>1, UptoIs
<1>4. IsFiniteSet(BundleIndices) /\ IsFiniteSet(ToAnalyze)
  BY <1>2, <1>3, FS_Subset
<1> QED BY <1>1, <1>2, <1>4, FS_CardinalityType

\* Requests that bring nothing to analyse may be appended.
LEMMA GrowthKeeps ==
  ASSUME SInv, NEW t, IsSeq(t), \A r \in ToSet(t) : FromForm(r, requests) \/ FromJS(r),
         requests' = requests \o t
  PROVE  /\ IsCapture(requests') /\ Extends(requests, requests')
         /\ Reports(requests') = Reports(requests) /\ Sanes(requests') = Sanes(requests)
<1>1. IsCapture(requests') /\ Extends(requests, requests')
  BY GrownIs DEF SInv
<1> QED BY <1>1, ExtendsKeeps

LEMMA ParsePageIs ==
  ASSUME SInv, NEW from, ParsePage(from)
  PROVE  /\ phase' \in {"idle", "forms", "done"}
         /\ phase' = "forms" => page' \in PagesIn(requests)
<1> DEFINE later == {i \in HTMLPages : i > from}
<1>1. CASE later = {}
  BY <1>1 DEF ParsePage, NextStage
<1>2. CASE later # {}
  <2>1. page' = Least(later) /\ phase' = "forms"
    BY <1>2 DEF ParsePage
  <2>2. later \in SUBSET Nat
    BY FiniteIndices DEF HTMLPages
  <2>3. Least(later) \in later
    <3> HIDE DEF later
    <3> QED BY <1>2, <2>2, LeastIs
  <2> QED BY <2>1, <2>3, StateNames
<1> QED BY <1>1, <1>2

LEMMA StartFormsKeeps ==
  ASSUME SInv, StartForms
  PROVE  SInv'
<1>1. phase' \in {"idle", "forms", "done"} /\ (phase' = "forms" => page' \in PagesIn(requests))
  BY ParsePageIs DEF StartForms
<1>2. parser' \in Parsers
  BY NewParserIs DEF StartForms
<1>3. \A w \in Workers : worker[w].pc \notin AtWork
  BY DEF SInv, StartForms, Stage
<1> QED BY <1>1, <1>2, <1>3 DEF SInv, StartForms, poolVars

LEMMA ReadTokenKeeps ==
  ASSUME SInv, ReadToken
  PROVE  SInv'
<1>1. parser' \in Parsers
  BY TokenKeeps DEF SInv, ReadToken
<1> QED BY <1>1 DEF SInv, ReadToken, poolVars

\* What the forms of a page add comes from a captured page.
LEMMA PageFormsAre ==
  ASSUME SInv, phase = "forms"
  PROVE  LET t == FormRequests(FlushUnclosed(parser), requests[page])
         IN  IsSeq(t) /\ \A r \in ToSet(t) : FromForm(r, requests)
<1> DEFINE forms == FlushUnclosed(parser)
           url == requests[page]
           t == FormRequests(forms, url)
<1>1. url \in ToSet(requests) /\ url.resp.ctype = "html"
  BY DEF SInv, PagesIn, ToSet
<1>2. url.resp # NoResponse
  BY <1>1, NoResponseIs
<1>3. Captured(url)
  BY <1>1, <1>2 DEF SInv, IsCapture, FromForm, FromJS
<1>4. IsQuery(url.query)
  BY <1>3, CapturedIs
<1>5. forms \in Seq(Forms)
  BY FlushedForms DEF SInv
<1> HIDE DEF forms, url
<1>6. /\ t \in Seq(ToSet(t))
      /\ \A r \in ToSet(t) : \E tok \in FormTokens : Submits(r, url, tok.action)
  BY <1>4, <1>5, FormRequestsAre
<1> HIDE DEF t
<1>7. \A r \in ToSet(t) : FromForm(r, requests)
  BY <1>1, <1>3, <1>6 DEF FromForm, Submits
<1> QED BY <1>6, <1>7 DEF IsSeq, t, forms, url

LEMMA EndPageKeeps ==
  ASSUME SInv, EndPage
  PROVE  /\ SInv'
         /\ \E t : /\ IsSeq(t) /\ requests' = requests \o t
                   /\ \A r \in ToSet(t) : FromForm(r, requests)
<1> DEFINE t == FormRequests(FlushUnclosed(parser), requests[page])
<1>1. IsSeq(t) /\ \A r \in ToSet(t) : FromForm(r, requests)
  BY PageFormsAre DEF EndPage
<1>2. requests' = requests \o t
  BY DEF EndPage
<1> HIDE DEF t
<1>3. /\ IsCapture(requests') /\ Extends(requests, requests')
      /\ Reports(requests') = Reports(requests) /\ Sanes(requests') = Sanes(requests)
  BY <1>1, <1>2, GrowthKeeps
<1>4. phase' \in {"idle", "forms", "done"} /\ (phase' = "forms" => page' \in PagesIn(requests))
  BY ParsePageIs DEF EndPage
<1>5. PagesIn(requests') = PagesIn(requests)
  BY <1>3 DEF Extends
<1>6. parser' \in Parsers
  BY NewParserIs DEF EndPage
<1>7. \A w \in Workers : worker[w].pc \notin AtWork
  BY DEF SInv, EndPage
<1>8. SInv'
  BY <1>3, <1>4, <1>5, <1>6, <1>7 DEF SInv, EndPage, poolVars
<1> QED BY <1>1, <1>2, <1>8

\* What the results have found, in one sequence.
LEMMA SynthesizedIs ==
  ASSUME SInv
  PROVE  /\ [i \in DOMAIN collected |-> collected[i].requests] \in Seq(Seq(JSRequests))
         /\ Len([i \in DOMAIN collected |-> collected[i].requests]) = Len(collected)
         /\ Synthesized \in Seq(JSRequests) /\ IsSeq(Synthesized)
         /\ \A r \in ToSet(Synthesized) : FromJS(r)
<1> DEFINE ss == [i \in DOMAIN collected |-> collected[i].requests]
<1>1. /\ Len(collected) \in Nat /\ DOMAIN collected = 1..Len(collected)
      /\ \A i \in 1..Len(collected) : collected[i] \in Reports(requests)
  BY LenProperties, ElementOfSeq DEF SInv
<1>2. ss \in [1..Len(collected) -> Seq(JSRequests)]
  BY <1>1 DEF Reports, Results
<1> HIDE DEF ss
<1>3. ss \in Seq(Seq(JSRequests)) /\ Len(ss) = Len(collected)
  <2>1. ss \in Seq(Seq(JSRequests))
    BY <1>1, <1>2, SeqDef
  <2>2. DOMAIN ss = 1..Len(ss) /\ Len(ss) \in Nat
    BY <2>1, LenProperties
  <2>3. 1..Len(ss) = 1..Len(collected)
    BY <1>2, <2>2
  <2>4. Len(ss) = Len(collected)
    <3>1. /\ Cardinality(1..Len(ss)) = Len(ss)
          /\ Cardinality(1..Len(collected)) = Len(collected)
      BY <1>1, <2>2, UptoIs
    <3> QED BY <2>3, <3>1
  <2> QED BY <2>1, <2>4
<1>4. FlattenSeq(ss) \in Seq(JSRequests)
  BY <1>3, FlattenElements
<1>5. Synthesized = FlattenSeq(ss)
  BY DEF Synthesized, ss
<1>6. IsSeq(Synthesized) /\ ToSet(Synthesized) \subseteq JSRequests
  BY <1>4, <1>5, SeqIsSeq
<1>7. \A r \in ToSet(Synthesized) : FromJS(r)
  BY <1>6, JSRequestsAre
<1> QED BY <1>3, <1>4, <1>5, <1>6, <1>7 DEF ss

LEMMA ReturnKeeps ==
  ASSUME SInv, Return
  PROVE  SInv'
<1>1. IsSeq(Synthesized) /\ \A r \in ToSet(Synthesized) : FromJS(r)
  BY SynthesizedIs
<1>2. /\ IsCapture(requests')
      /\ Reports(requests') = Reports(requests) /\ Sanes(requests') = Sanes(requests)
  <2>1. CASE ctxDone
    BY <2>1 DEF Return, SInv
  <2>2. CASE ~ctxDone
    <3>1. requests' = requests \o Synthesized
      BY <2>2 DEF Return
    <3> QED BY <1>1, <3>1, GrowthKeeps
  <2> QED BY <2>1, <2>2
<1>3. phase' \in {"idle", "done"}
  BY DEF Return, NextStage
<1>4. \A w \in Workers : worker[w].pc \notin AtWork
  BY DEF Return, AtWork
<1>5. stats' \in [Counters -> Int]
  <2>1. stats.analyzed \in Int /\ stats.skipped \in Int /\ stats.panics \in Int
    BY CountersAre DEF SInv
  <2> DEFINE seen == stats.analyzed + stats.skipped + stats.panics
                       - (Cardinality(BundleIndices) - Cardinality(ToAnalyze))
             n == Cardinality(ToAnalyze) - seen
  <2>2. n \in Int
    BY <2>1, FiniteIndices
  <2>3. stats' = [stats EXCEPT !.abandoned = n]
    BY DEF Return
  <2> HIDE DEF n
  <2> QED BY <2>2, <2>3 DEF SInv
<1> QED BY <1>2, <1>3, <1>4, <1>5 DEF SInv, Return, formVars

LEMMA SkippedIs ==
  ASSUME NEW n \in Int
  PROVE  /\ Count(NoStats, "skipped", n) \in [Counters -> Int]
         /\ Count(NoStats, "skipped", n).skipped = n
         /\ \A c \in Counters : c # "skipped" => Count(NoStats, "skipped", n)[c] = 0
<1>1. NoStats \in [Counters -> Int] /\ \A c \in Counters : NoStats[c] = 0
  BY NoResultIs
<1>2. "skipped" \in Counters
  BY CountersAre
<1> QED BY <1>1, <1>2 DEF Count

LEMMA SkipJSKeeps ==
  ASSUME SInv, SkipJS
  PROVE  SInv'
<1>1. phase' \in {"idle", "done"} /\ \A w \in Workers : worker[w].pc \notin AtWork
  BY DEF SInv, SkipJS, Stage, NextStage
<1>2. stats' \in [Counters -> Int]
  <2>1. CASE UNCHANGED stats
    BY <2>1 DEF SInv
  <2>2. CASE stats' = Count(NoStats, "skipped", Cardinality(BundleIndices))
    BY <2>2, FiniteIndices, SkippedIs
  <2> QED BY <2>1, <2>2 DEF SkipJS
<1> QED BY <1>1, <1>2 DEF SInv, SkipJS, formVars

LEMMA StartPoolKeeps ==
  ASSUME SInv, StartPool
  PROVE  SInv'
<1>1. workCh' \in Seq(AnalyzableIn(requests)) /\ workCh' \in Seq(Nat)
  <2> DEFINE index == [i \in DOMAIN requests |-> i]
             I == ToAnalyze
             n == Len(requests)
  <2>1. n \in Nat /\ DOMAIN requests = 1..n /\ I \in SUBSET (1..n) /\ workCh' = Pick(index, I)
    BY FiniteIndices DEF StartPool
  <2>2. \A i \in I : index[i] = i
    BY <2>1
  <2> HIDE DEF index, I, n
  <2>3. Pick(index, I) \in Seq({index[i] : i \in I})
    BY <2>1, PickElements
  <2>4. {index[i] : i \in I} = I
    BY <2>2
  <2>5. I \subseteq Nat /\ I = AnalyzableIn(requests)
    BY <2>1, StateNames DEF I
  <2> QED BY <2>1, <2>3, <2>4, <2>5, SeqMonotonic
<1>2. worker' \in [Workers -> Sanes(requests')]
  BY IdleIs DEF StartPool
<1>3. stats' \in [Counters -> Int]
  <2>1. Cardinality(BundleIndices) - Cardinality(ToAnalyze) \in Int
    BY FiniteIndices
  <2> QED BY <2>1, SkippedIs DEF StartPool
<1>4. collected' \in Seq(Reports(requests'))
  BY EmptySeq DEF StartPool
<1> QED BY <1>1, <1>2, <1>3, <1>4 DEF SInv, StartPool, formVars

LEMMA SInit ==
  ASSUME Init
  PROVE  SInv
<1>1. requests \in Seq(ToSet(requests)) /\ \A r \in ToSet(requests) : Captured(r)
  BY RawCaptures DEF Init, Captured
<1>2. IsCapture(requests)
  BY <1>1 DEF IsCapture, IsSeq
<1>3. worker \in [Workers -> Sanes(requests)] /\ \A w \in Workers : worker[w].pc \notin AtWork
  BY IdleIs DEF Init, AtWork
<1>4. <<>> \in Seq(Nat) /\ <<>> \in Seq(Reports(requests))
  BY EmptySeq
<1>5. stats \in [Counters -> Int]
  BY NoResultIs DEF Init
<1> QED BY <1>2, <1>3, <1>4, <1>5, NewParserIs DEF Init, SInv

LEMMA SNext ==
  ASSUME SInv, [Next]_vars
  PROVE  SInv'
<1>1. CASE UNCHANGED vars
  BY <1>1 DEF SInv, vars, poolVars, formVars
<1>2. CASE StartForms \/ ReadToken \/ EndPage
  BY <1>2, StartFormsKeeps, ReadTokenKeeps, EndPageKeeps
<1>3. CASE SkipJS \/ StartPool \/ Collect \/ Return
  BY <1>3, SkipJSKeeps, StartPoolKeeps, CollectKeeps, ReturnKeeps
<1>4. ASSUME NEW w \in Workers, Work(w) \/ AnalyzeOnePanic(w) PROVE SInv'
  BY <1>4, TakeKeeps, CheckKeeps, RecoverKeeps, AnswerKeeps, TimeoutKeeps, NextSourceKeeps,
     SendKeeps, AnalyzeOnePanicKeeps DEF Work
<1>5. ASSUME NEW g \in running, FinishParse(g) PROVE SInv'
  BY <1>5 DEF SInv, FinishParse, formVars
<1>6. CASE Cancel
  BY <1>6 DEF SInv, Cancel, formVars, poolVars
<1>7. CASE NextCommand
  <2>1. phase' \in {"idle", "done"} /\ \A w \in Workers : worker[w].pc \notin AtWork
    BY <1>7 DEF SInv, NextCommand, Stage, NextStage
  <2> QED BY <1>7, <2>1 DEF SInv, NextCommand, formVars
<1>8. CASE Finished
  BY <1>1, <1>8 DEF Finished
<1> QED BY <1>1, <1>2, <1>3, <1>4, <1>5, <1>6, <1>7, <1>8 DEF Next

-----------------------------------------------------------------------------
(* Nothing is counted twice or lost.                                       *)

LEMMA StaticIs ==
  /\ AnyStaticSource(requests) <=> StaticIn(requests) # {}
  /\ StaticIn(requests) = {} => Static = <<>>
BY PickOfNothing DEF AnyStaticSource, StaticIn, Static

\* Forms add no static request, and an analysis adds nothing else.
LEMMA StaticGrows ==
  ASSUME NEW s, IsSeq(s), NEW t, IsSeq(t)
  PROVE  /\ (\A r \in ToSet(t) : ~IsJSStaticSource(r.source)) =>
               /\ StaticIn(s \o t) = StaticIn(s)
               /\ Pick(s \o t, StaticIn(s \o t)) = Pick(s, StaticIn(s))
         /\ StaticIn(s) = {} /\ (\A r \in ToSet(t) : IsJSStaticSource(r.source)) =>
               Pick(s \o t, StaticIn(s \o t)) = t
<1> DEFINE u == s \o t
<1>1. /\ Len(s) \in Nat /\ DOMAIN s = 1..Len(s) /\ Len(t) \in Nat /\ DOMAIN t = 1..Len(t)
      /\ \A i \in DOMAIN t : t[i] \in ToSet(t)
  BY SeqIsSeq DEF IsSeq
<1>2. DOMAIN u = 1..(Len(s) + Len(t)) /\ \A i \in DOMAIN u : u[i] = IF i <= Len(s) THEN s[i] ELSE t[i - Len(s)]
  <2>1. s \in Seq(ToSet(s) \cup ToSet(t)) /\ t \in Seq(ToSet(s) \cup ToSet(t))
    BY SeqMonotonic DEF IsSeq
  <2> QED BY <1>1, <2>1, ConcatProperties
<1> HIDE DEF u
<1>3. ASSUME NEW i \in DOMAIN u
      PROVE  IF i <= Len(s) THEN i \in DOMAIN s /\ u[i] = s[i]
                            ELSE i - Len(s) \in DOMAIN t /\ u[i] \in ToSet(t)
  BY <1>1, <1>2
<1>4. ASSUME \A r \in ToSet(t) : ~IsJSStaticSource(r.source)
      PROVE  StaticIn(u) = StaticIn(s)
  <2>1. ASSUME NEW i \in StaticIn(u) PROVE i \in StaticIn(s)
    BY <1>3, <1>4, <2>1 DEF StaticIn
  <2>2. ASSUME NEW i \in StaticIn(s) PROVE i \in StaticIn(u)
    <3>1. i \in DOMAIN u /\ i <= Len(s)
      BY <1>1, <1>2 DEF StaticIn
    <3> QED BY <1>3, <3>1 DEF StaticIn
  <2> QED BY <2>1, <2>2
<1>5. Pick(s \o t, StaticIn(s)) = Pick(s, StaticIn(s))
  <2>1. StaticIn(s) \in SUBSET (DOMAIN s)
    BY DEF StaticIn
  <2> QED BY <2>1, PickOfPrefix DEF IsSeq
<1>6. ASSUME StaticIn(s) = {}, \A r \in ToSet(t) : IsJSStaticSource(r.source)
      PROVE  StaticIn(u) = (Len(s) + 1)..(Len(s) + Len(t))
  <2>1. ASSUME NEW i \in StaticIn(u) PROVE i \in (Len(s) + 1)..(Len(s) + Len(t))
    <3>1. i \in DOMAIN u /\ ~(i <= Len(s))
      BY <1>3, <1>6, <2>1 DEF StaticIn
    <3> QED BY <1>1, <1>2, <3>1
  <2>2. ASSUME NEW i \in (Len(s) + 1)..(Len(s) + Len(t)) PROVE i \in StaticIn(u)
    <3>1. i \in DOMAIN u /\ ~(i <= Len(s))
      BY <1>1, <1>2
    <3>2. u[i] \in ToSet(t)
      BY <1>3, <3>1
    <3> QED BY <1>6, <3>1, <3>2 DEF StaticIn
  <2> QED BY <2>1, <2>2
<1>7. Pick(s \o t, (Len(s) + 1)..(Len(s) + Len(t))) = t
  BY PickOfSuffix DEF IsSeq
<1> QED BY <1>4, <1>5, <1>6, <1>7 DEF u

LEMMA LengthsAre ==
  ASSUME SInv
  PROVE  /\ Len(workCh) \in Nat /\ Len(resultCh) \in Nat /\ Len(collected) \in Nat
         /\ IsFiniteSet(WorkersAtWork) /\ Cardinality(WorkersAtWork) \in Nat
         /\ stats \in [Counters -> Int] /\ Outcomes(stats) \in Int
         /\ stats.kept \in Int /\ stats.abandoned \in Int
         /\ Cardinality(BundleIndices) \in Nat /\ Cardinality(ToAnalyze) \in Nat
<1>1. Len(workCh) \in Nat /\ Len(resultCh) \in Nat /\ Len(collected) \in Nat
  BY LenProperties DEF SInv
<1>2. IsFiniteSet(WorkersAtWork)
  <2>1. WorkersAtWork \in SUBSET Workers
    BY DEF WorkersAtWork
  <2> QED BY <2>1, PoolConstants, FS_Subset
<1>3. Cardinality(WorkersAtWork) \in Nat
  BY <1>2, FS_CardinalityType
<1>4. stats \in [Counters -> Int] /\ Outcomes(stats) \in Int /\ stats.kept \in Int /\ stats.abandoned \in Int
  BY CountersAre DEF SInv, Outcomes
<1> QED BY <1>1, <1>2, <1>3, <1>4, FiniteIndices

\* What the counts are made of, unchanged.
CountsStay ==
    UNCHANGED <<requests, phase, collected, stats, failed, ctxDone>>

LEMMA CountsStaying ==
  ASSUME CountsStay
  PROVE  /\ BundleIndices' = BundleIndices /\ ToAnalyze' = ToAnalyze /\ Skipped' = Skipped
         /\ Synthesized' = Synthesized /\ Static' = Static
         /\ Outcomes(stats)' = Outcomes(stats)
<1>1. BundleIndices' = BundleIndices /\ ToAnalyze' = ToAnalyze
  BY StateNames DEF CountsStay
<1>2. Skipped' = Skipped
  BY <1>1 DEF Skipped
<1>3. Synthesized' = Synthesized /\ Static' = Static /\ Outcomes(stats)' = Outcomes(stats)
  BY DEF CountsStay, Synthesized, Static, Outcomes
<1> QED BY <1>1, <1>2, <1>3

\* A bundle that leaves one place arrives at another.
MovedOn ==
    ~ctxDone => /\ Cardinality(WorkersAtWork') + Len(workCh') + Len(resultCh')
                     = Cardinality(WorkersAtWork) + Len(workCh) + Len(resultCh)
                /\ (\E w \in Workers : worker'[w].pc = "exit") => workCh' = <<>>

Numbers ==
    {Cardinality(WorkersAtWork), Cardinality(WorkersAtWork'), Len(workCh), Len(workCh'),
     Len(resultCh), Len(resultCh'), Len(collected), Cardinality(ToAnalyze)}

\* In the pool, a step that only moves a bundle on keeps the counts.
LEMMA PoolingStays ==
  ASSUME AInv, CountsStay, phase = "pool", MovedOn, Numbers \subseteq Nat
  PROVE  AInv'
<1>1. /\ BundleIndices' = BundleIndices /\ ToAnalyze' = ToAnalyze /\ Skipped' = Skipped
      /\ Synthesized' = Synthesized /\ Static' = Static /\ Outcomes(stats)' = Outcomes(stats)
  BY CountsStaying
<1>2. Pooling
  BY DEF AInv
<1>3. ~ctxDone => Cardinality(WorkersAtWork') + Len(workCh') + Len(resultCh') + Len(collected')
                    = Cardinality(ToAnalyze')
  <2>1. collected' = collected
    BY DEF CountsStay
  <2> DEFINE a == Cardinality(WorkersAtWork)
             b == Cardinality(WorkersAtWork')
             c == Len(workCh)
             d == Len(workCh')
             e == Len(resultCh)
             f == Len(resultCh')
             g == Len(collected)
             m == Cardinality(ToAnalyze)
  <2>2. {a, b, c, d, e, f, g, m} \subseteq Nat
    BY DEF Numbers
  <2>3. ~ctxDone => a + c + e + g = m /\ b + d + f = a + c + e
    BY <1>2 DEF Pooling, MovedOn
  <2> HIDE DEF a, b, c, d, e, f, g, m
  <2>4. ~ctxDone => b + d + f + g = m
    BY <2>2, <2>3
  <2> QED BY <1>1, <2>1, <2>4 DEF b, d, f, g, m
<1>4. Pooling'
  BY <1>1, <1>2, <1>3 DEF Pooling, CountsStay, MovedOn
<1> QED BY <1>1, <1>4 DEF AInv, CountsStay

LEMMA StepIs ==
  ASSUME NEW w \in Workers, DOMAIN worker = Workers, NEW pc, NEW rec, "pc" \in DOMAIN rec,
         Step(w, pc, rec)
  PROVE  worker'[w].pc = pc /\ \A v \in Workers \ {w} : worker'[v] = worker[v]
BY DEF Step

\* One worker moves.
LEMMA MoveCounts ==
  ASSUME SInv, NEW w \in Workers, \A v \in Workers \ {w} : worker'[v] = worker[v]
  PROVE  LET was == worker[w].pc \in AtWork
             is  == worker'[w].pc \in AtWork
         IN  /\ was /\ is => WorkersAtWork' = WorkersAtWork
             /\ ~was /\ ~is => WorkersAtWork' = WorkersAtWork
             /\ was /\ ~is => Cardinality(WorkersAtWork') = Cardinality(WorkersAtWork) - 1
             /\ ~was /\ is => Cardinality(WorkersAtWork') = Cardinality(WorkersAtWork) + 1
<1> DEFINE was == worker[w].pc \in AtWork
           is  == worker'[w].pc \in AtWork
<1>1. IsFiniteSet(WorkersAtWork)
  BY LengthsAre
<1>2. \A v \in Workers \ {w} : v \in WorkersAtWork' <=> v \in WorkersAtWork
  BY DEF WorkersAtWork
<1>3. (w \in WorkersAtWork <=> was) /\ (w \in WorkersAtWork' <=> is)
  BY DEF WorkersAtWork
<1>4. WorkersAtWork \in SUBSET Workers /\ WorkersAtWork' \in SUBSET Workers
  BY DEF WorkersAtWork
<1> HIDE DEF was, is
<1>5. (was <=> is) => WorkersAtWork' = WorkersAtWork
  BY <1>2, <1>3, <1>4
<1>6. ASSUME was, ~is PROVE Cardinality(WorkersAtWork') = Cardinality(WorkersAtWork) - 1
  <2>1. WorkersAtWork' = WorkersAtWork \ {w} /\ w \in WorkersAtWork
    BY <1>2, <1>3, <1>4, <1>6
  <2> QED BY <1>1, <2>1, FS_RemoveElement
<1>7. ASSUME ~was, is PROVE Cardinality(WorkersAtWork') = Cardinality(WorkersAtWork) + 1
  <2>1. WorkersAtWork' = WorkersAtWork \cup {w} /\ w \notin WorkersAtWork
    BY <1>2, <1>3, <1>4, <1>7
  <2> QED BY <1>1, <2>1, FS_AddElement
<1> QED BY <1>5, <1>6, <1>7 DEF was, is

\* A bundle in a worker's hands stays there.
LEMMA BusyStays ==
  ASSUME SInv, SInv', AInv, CountsStay, phase = "pool", UNCHANGED <<workCh, resultCh>>,
         NEW w \in Workers, \A v \in Workers \ {w} : worker'[v] = worker[v],
         worker[w].pc \in AtWork, worker'[w].pc \in AtWork
  PROVE  AInv'
<1>1. WorkersAtWork' = WorkersAtWork
  BY MoveCounts
<1>2. worker'[w].pc # "exit"
  BY DEF AtWork
<1>3. ASSUME ~ctxDone, NEW v \in Workers, worker'[v].pc = "exit" PROVE workCh' = <<>>
  <2>1. worker[v].pc = "exit"
    BY <1>2, <1>3
  <2> QED BY <1>3, <2>1 DEF AInv, Pooling
<1>4. Numbers \subseteq Nat
  BY <1>1, LengthsAre DEF Numbers
<1>5. MovedOn
  BY <1>1, <1>3 DEF MovedOn
<1> QED BY <1>4, <1>5, PoolingStays

LEMMA TakeCounts ==
  ASSUME SInv, SInv', AInv, NEW w \in Workers, Take(w)
  PROVE  AInv'
<1>1. /\ worker[w] \in WorkerStates /\ DOMAIN worker = Workers /\ worker[w].pc = "idle"
      /\ phase = "pool" /\ CountsStay
  BY HandIs DEF SInv, Take, CountsStay
<1>2. /\ Cardinality(WorkersAtWork) \in Nat /\ Len(workCh) \in Nat /\ Len(workCh') \in Nat
      /\ Len(resultCh) \in Nat /\ resultCh' = resultCh
      /\ Len(collected) \in Nat /\ Cardinality(ToAnalyze) \in Nat
  <2>1. Len(workCh') \in Nat
    BY LenProperties DEF SInv
  <2> QED BY <2>1, LengthsAre DEF Take
<1>3. worker[w].pc \notin AtWork
  BY <1>1 DEF AtWork
<1>4. Pooling
  BY <1>1 DEF AInv
<1>5. CASE workCh = <<>>
  <2>1. workCh' = <<>> /\ Step(w, "exit", worker[w])
    BY <1>5 DEF Take
  <2>2. worker'[w].pc = "exit" /\ \A v \in Workers \ {w} : worker'[v] = worker[v]
    BY <1>1, <2>1, StepIs DEF WorkerStates
  <2>3. WorkersAtWork' = WorkersAtWork
    BY <1>3, <2>2, MoveCounts DEF AtWork
  <2>4. Numbers \subseteq Nat
    BY <1>2, <2>3 DEF Numbers
  <2>5. MovedOn
    BY <1>2, <1>5, <2>1, <2>3 DEF MovedOn
  <2> QED BY <1>1, <2>4, <2>5, PoolingStays
<1>6. CASE workCh # <<>>
  <2> DEFINE rec == [worker[w] EXCEPT !.bundle = Head(workCh)]
  <2>1. workCh' = Tail(workCh) /\ Step(w, "check", rec)
    BY <1>6 DEF Take
  <2>2. "pc" \in DOMAIN rec
    BY <1>1 DEF WorkerStates
  <2> HIDE DEF rec
  <2>3. worker'[w].pc = "check" /\ \A v \in Workers \ {w} : worker'[v] = worker[v]
    BY <1>1, <2>1, <2>2, StepIs
  <2>4. Cardinality(WorkersAtWork') = Cardinality(WorkersAtWork) + 1
    BY <1>3, <2>3, MoveCounts DEF AtWork
  <2>5. Len(workCh') = Len(workCh) - 1
    BY <1>6, <2>1, HeadTailProperties DEF SInv
  <2>6. ASSUME ~ctxDone, NEW v \in Workers PROVE worker'[v].pc # "exit"
    <3>1. worker[v].pc # "exit"
      BY <1>4, <1>6, <2>6 DEF Pooling
    <3> QED BY <2>3, <3>1
  <2> DEFINE a == Cardinality(WorkersAtWork)
             b == Cardinality(WorkersAtWork')
             c == Len(workCh)
             d == Len(workCh')
             e == Len(resultCh)
  <2>7. a \in Nat /\ c \in Nat /\ d \in Nat /\ e \in Nat /\ b = a + 1 /\ d = c - 1
    BY <1>2, <2>4, <2>5
  <2> HIDE DEF a, b, c, d, e
  <2>8. b \in Nat /\ b + d + e = a + c + e
    BY <2>7
  <2>9. MovedOn
    BY <1>2, <2>6, <2>8 DEF MovedOn, a, b, c, d, e
  <2>10. Numbers \subseteq Nat
    BY <1>2, <2>8 DEF Numbers, a, b
  <2> QED BY <1>1, <2>9, <2>10, PoolingStays
<1> QED BY <1>5, <1>6

\* A worker that gives its bundle up does so under a cancelled context.
LEMMA CheckCounts ==
  ASSUME SInv, SInv', AInv, NEW w \in Workers, Check(w)
  PROVE  AInv'
<1>1. /\ worker[w] \in WorkerStates /\ DOMAIN worker = Workers /\ worker[w].pc = "check"
      /\ phase = "pool" /\ CountsStay /\ UNCHANGED <<workCh, resultCh>>
      /\ Step(w, IF ctxDone THEN "exit" ELSE "map", worker[w])
  BY HandIs DEF SInv, Check, CountsStay, AtWork
<1>2. /\ worker'[w].pc = IF ctxDone THEN "exit" ELSE "map"
      /\ \A v \in Workers \ {w} : worker'[v] = worker[v]
  BY <1>1, StepIs DEF WorkerStates
<1>3. CASE ctxDone
  <2>1. Cardinality(WorkersAtWork') \in Nat
    <3>1. WorkersAtWork' \in SUBSET Workers
      BY DEF WorkersAtWork
    <3> QED BY <3>1, PoolConstants, FS_Subset, FS_CardinalityType
  <2>2. Numbers \subseteq Nat
    BY <1>1, <2>1, LengthsAre DEF Numbers
  <2>3. MovedOn
    BY <1>3 DEF MovedOn
  <2> QED BY <1>1, <2>2, <2>3, PoolingStays
<1>4. CASE ~ctxDone
  BY <1>1, <1>2, <1>4, BusyStays DEF AtWork
<1> QED BY <1>3, <1>4

LEMMA AnalyzeCounts ==
  ASSUME SInv, SInv', AInv, NEW w \in Workers,
         Recover(w) \/ Answer(w) \/ Timeout(w) \/ NextSource(w) \/ AnalyzeOnePanic(w)
  PROVE  AInv'
<1>1. /\ worker[w].pc \in AtWork /\ CountsStay /\ UNCHANGED <<workCh, resultCh>>
  BY DEF Recover, Answer, Awaits, Timeout, NextSource, AnalyzeOnePanic, AtWork, CountsStay
<1>2. worker[w] \in WorkerStates /\ DOMAIN worker = Workers /\ phase = "pool"
  BY <1>1, HandIs DEF SInv
<1>3. \E pc \in AtWork : \E rec : "pc" \in DOMAIN rec /\ Step(w, pc, rec)
  <2>1. CASE Recover(w)
    BY <1>2, <2>1 DEF Recover, AtWork, WorkerStates
  <2>2. CASE Answer(w)
    BY <1>2, <2>2 DEF Answer, AtWork, WorkerStates
  <2>3. CASE Timeout(w)
    BY <1>2, <2>3 DEF Timeout, AtWork, WorkerStates
  <2>4. CASE NextSource(w)
    BY <1>2, <2>4 DEF NextSource, AtWork, WorkerStates
  <2>5. CASE AnalyzeOnePanic(w)
    BY <1>2, <2>5 DEF AnalyzeOnePanic, AtWork, WorkerStates
  <2> QED BY <2>1, <2>2, <2>3, <2>4, <2>5
<1>4. worker'[w].pc \in AtWork /\ \A v \in Workers \ {w} : worker'[v] = worker[v]
  BY <1>2, <1>3, StepIs
<1> QED BY <1>1, <1>2, <1>4, BusyStays

LEMMA SendCounts ==
  ASSUME SInv, SInv', AInv, NEW w \in Workers, Send(w)
  PROVE  AInv'
<1>1. /\ worker[w].pc = "send" /\ worker[w].pc \in AtWork /\ phase = "pool" /\ CountsStay
      /\ workCh' = workCh /\ resultCh' = Append(resultCh, worker[w].res)
  BY HandIs DEF Send, CountsStay, AtWork
<1>2. worker'[w].pc = "idle" /\ \A v \in Workers \ {w} : worker'[v] = worker[v]
  BY IdleIs DEF Send, SInv
<1>3. Cardinality(WorkersAtWork') = Cardinality(WorkersAtWork) - 1
  BY <1>1, <1>2, MoveCounts DEF AtWork
<1>4. Len(resultCh') = Len(resultCh) + 1
  <2>1. worker[w].res \in Reports(requests)
    BY <1>1, HandIs DEF Sane, Reports
  <2> QED BY <1>1, <2>1, AppendProperties DEF SInv
<1>5. Cardinality(WorkersAtWork') \in Nat
  <2>1. WorkersAtWork' \in SUBSET Workers
    BY DEF WorkersAtWork
  <2> QED BY <2>1, PoolConstants, FS_Subset, FS_CardinalityType
<1>6. ASSUME ~ctxDone, NEW v \in Workers, worker'[v].pc = "exit" PROVE workCh' = <<>>
  <2>1. worker[v].pc = "exit"
    BY <1>2, <1>6
  <2> QED BY <1>1, <1>6, <2>1 DEF AInv, Pooling
<1> DEFINE a == Cardinality(WorkersAtWork)
           b == Cardinality(WorkersAtWork')
           c == Len(workCh)
           d == Len(workCh')
           e == Len(resultCh)
           f == Len(resultCh')
<1>7. a \in Nat /\ b \in Nat /\ c \in Nat /\ e \in Nat /\ b = a - 1 /\ d = c /\ f = e + 1
  BY <1>1, <1>3, <1>4, <1>5, LengthsAre
<1>8. Len(collected) \in Nat /\ Cardinality(ToAnalyze) \in Nat
  BY LengthsAre
<1> HIDE DEF a, b, c, d, e, f
<1>9. {a, b, c, d, e, f} \subseteq Nat /\ b + d + f = a + c + e
  BY <1>7
<1>10. Numbers \subseteq Nat
  BY <1>8, <1>9 DEF a, b, c, d, e, f, Numbers
<1>11. MovedOn
  BY <1>6, <1>9 DEF a, b, c, d, e, f, MovedOn
<1> QED BY <1>1, <1>10, <1>11, PoolingStays

\* A result is counted as it is collected.
LEMMA CollectCounts ==
  ASSUME SInv, SInv', AInv, Collect
  PROVE  AInv'
<1> DEFINE h == Head(resultCh)
           ss == [i \in DOMAIN collected |-> collected[i].requests]
           more == [i \in DOMAIN collected' |-> collected'[i].requests]
<1>1. /\ phase = "pool" /\ Pooling /\ StaticIn(requests) = {}
      /\ UNCHANGED <<requests, phase, ctxDone, failed, worker, workCh>>
      /\ resultCh # <<>> /\ resultCh' = Tail(resultCh) /\ collected' = Append(collected, h)
      /\ stats' = [c \in Counters |-> stats[c] + h.stats[c]]
  BY DEF AInv, Settled, Pooling, Collect, Add
<1>2. h \in Reports(requests) /\ Len(Tail(resultCh)) = Len(resultCh) - 1
  BY <1>1, HeadTailProperties DEF SInv
<1>3. /\ h.stats \in [Counters -> Nat] /\ h.requests \in Seq(JSRequests)
      /\ Outcomes(h.stats) = 1 /\ h.stats.abandoned = 0 /\ Len(h.requests) = h.stats.kept
  BY <1>2 DEF Reports, Results, Finds, Sound
<1>4. /\ collected \in Seq(Reports(requests)) /\ Len(collected) \in Nat
      /\ DOMAIN collected = 1..Len(collected) /\ Len(collected') = Len(collected) + 1
      /\ DOMAIN collected' = 1..(Len(collected) + 1)
      /\ \A i \in 1..Len(collected) : collected'[i] = collected[i]
      /\ collected'[Len(collected) + 1] = h
  <2>1. collected \in Seq(Reports(requests))
    BY DEF SInv
  <2>2. Append(collected, h) \in Seq(Reports(requests))
    BY <1>2, <2>1, AppendProperties
  <2> HIDE DEF h
  <2> QED BY <1>1, <1>2, <2>1, <2>2, AppendProperties, LenProperties
<1> HIDE DEF h
<1>5. Synthesized' = Synthesized \o h.requests
  <2>1. ss \in Seq(Seq(JSRequests)) /\ Len(ss) = Len(collected)
    BY SynthesizedIs
  <2>2. more = Append(ss, h.requests)
    <3>1. DOMAIN ss = 1..Len(collected) /\ \A i \in 1..Len(collected) : ss[i] = collected[i].requests
      BY <1>4
    <3>2. /\ DOMAIN more = 1..(Len(collected) + 1)
          /\ \A i \in 1..(Len(collected) + 1) : more[i] = collected'[i].requests
      BY <1>4
    <3>3. /\ Append(ss, h.requests) \in Seq(Seq(JSRequests))
          /\ Len(Append(ss, h.requests)) = Len(collected) + 1
          /\ \A i \in 1..Len(collected) : Append(ss, h.requests)[i] = ss[i]
          /\ Append(ss, h.requests)[Len(collected) + 1] = h.requests
      <4> HIDE DEF ss
      <4> QED BY <1>3, <2>1, AppendProperties
    <3>4. DOMAIN Append(ss, h.requests) = 1..(Len(collected) + 1)
      BY <3>3, LenProperties
    <3>5. \A i \in 1..(Len(collected) + 1) : more[i] = Append(ss, h.requests)[i]
      <4> TAKE i \in 1..(Len(collected) + 1)
      <4> HIDE DEF ss, more
      <4>1. CASE i = Len(collected) + 1
        BY <1>4, <3>2, <3>3, <4>1
      <4>2. CASE i # Len(collected) + 1
        <5>1. i \in 1..Len(collected)
          BY <1>4, <4>2
        <5> QED BY <1>4, <3>1, <3>2, <3>3, <5>1
      <4> QED BY <4>1, <4>2
    <3>6. more = [i \in DOMAIN more |-> more[i]]
      OBVIOUS
    <3>7. Append(ss, h.requests) = [i \in DOMAIN Append(ss, h.requests) |-> Append(ss, h.requests)[i]]
      <4> HIDE DEF ss
      <4> QED BY <3>3, LenProperties
    <3> HIDE DEF more, ss
    <3> QED BY <3>2, <3>4, <3>5, <3>6, <3>7
  <2>3. Synthesized = FlattenSeq(ss) /\ Synthesized' = FlattenSeq(more)
    BY DEF Synthesized
  <2> HIDE DEF ss, more
  <2> QED BY <1>3, <2>1, <2>2, <2>3, FlattenAppend
<1>6. Len(Synthesized') = Len(Synthesized) + Len(h.requests)
  BY <1>3, <1>5, SynthesizedIs, SeqIsSeq, ConcatIsSeq
<1>7. /\ Outcomes(stats') = Outcomes(stats) + 1 /\ stats'.abandoned = stats.abandoned
      /\ stats'.kept = stats.kept + h.stats.kept
  <2>1. \A c \in Counters : stats[c] \in Int /\ h.stats[c] \in Nat /\ stats'[c] = stats[c] + h.stats[c]
    BY <1>1, <1>3 DEF SInv
  <2>2. \A c \in {"analyzed", "skipped", "panics", "abandoned", "kept"} :
           stats[c] \in Int /\ h.stats[c] \in Nat /\ stats'[c] = stats[c] + h.stats[c]
    BY <2>1, CountersAre
  <2>3. h.stats.analyzed + h.stats.skipped + h.stats.panics = 1
    BY <1>3 DEF Outcomes
  <2>4. Outcomes(stats') = Outcomes(stats) + 1
    <3> DEFINE a == stats.analyzed
               b == stats.skipped
               c == stats.panics
               x == h.stats.analyzed
               y == h.stats.skipped
               z == h.stats.panics
    <3>1. {a, b, c} \subseteq Int /\ {x, y, z} \subseteq Nat
      BY <2>2
    <3>2. stats'.analyzed = a + x /\ stats'.skipped = b + y /\ stats'.panics = c + z
      BY <2>2
    <3>3. x + y + z = 1
      BY <2>3
    <3> HIDE DEF a, b, c, x, y, z
    <3>4. (a + x) + (b + y) + (c + z) = a + b + c + 1
      BY <3>1, <3>3
    <3> QED BY <3>2, <3>4 DEF Outcomes, a, b, c
  <2> QED BY <1>3, <2>2, <2>4
<1>8. BundleIndices' = BundleIndices /\ ToAnalyze' = ToAnalyze /\ Skipped' = Skipped
  <2>1. BundleIndices' = BundleIndices /\ ToAnalyze' = ToAnalyze
    BY <1>1, StateNames
  <2> QED BY <2>1 DEF Skipped
<1>9. WorkersAtWork' = WorkersAtWork
  BY <1>1 DEF WorkersAtWork
<1>10. /\ Outcomes(stats') = Skipped' + Len(collected') /\ stats'.abandoned = 0
       /\ stats'.kept = Len(Synthesized')
  <2>1. Skipped \in Int
    BY LengthsAre DEF Skipped
  <2>2. Len(Synthesized) \in Nat
    BY SynthesizedIs, SeqIsSeq
  <2>3. Outcomes(stats) = Skipped + Len(collected) /\ stats.abandoned = 0 /\ stats.kept = Len(Synthesized)
    BY <1>1 DEF Pooling
  <2> QED BY <1>3, <1>4, <1>6, <1>7, <1>8, <2>1, <2>2, <2>3
<1>11. ~ctxDone =>
         /\ Cardinality(WorkersAtWork') + Len(workCh') + Len(resultCh') + Len(collected')
              = Cardinality(ToAnalyze')
         /\ (\E w \in Workers : worker'[w].pc = "exit") => workCh' = <<>>
  <2> DEFINE a == Cardinality(WorkersAtWork)
             c == Len(workCh)
             e == Len(resultCh)
             g == Len(collected)
             m == Cardinality(ToAnalyze)
  <2>1. a \in Nat /\ c \in Nat /\ e \in Nat /\ g \in Nat /\ m \in Nat
    BY LengthsAre
  <2>2. Cardinality(WorkersAtWork') = a /\ Len(workCh') = c /\ Len(resultCh') = e - 1
        /\ Len(collected') = g + 1 /\ Cardinality(ToAnalyze') = m
    BY <1>1, <1>2, <1>4, <1>8, <1>9
  <2>3. ~ctxDone => a + c + e + g = m
    BY <1>1 DEF Pooling
  <2>4. ~ctxDone => ((\E w \in Workers : worker'[w].pc = "exit") => workCh' = <<>>)
    BY <1>1 DEF Pooling
  <2> HIDE DEF a, c, e, g, m
  <2>5. a + c + (e - 1) + (g + 1) = a + c + e + g
    BY <2>1
  <2> QED BY <2>2, <2>3, <2>4, <2>5
<1>12. Pooling'
  BY <1>1, <1>10, <1>11 DEF Pooling, Outcomes
<1> QED BY <1>1, <1>12 DEF AInv

-----------------------------------------------------------------------------
(* The stages settle the counts.                                           *)

\* Outside the pool, a step that changes none of the counted keeps them.
LEMMA SettledStays ==
  ASSUME AInv, phase # "pool", phase' # "pool",
         UNCHANGED <<requests, collected, stats, failed, resultCh>>
  PROVE  AInv'
<1>1. /\ BundleIndices' = BundleIndices /\ Synthesized' = Synthesized /\ Static' = Static
      /\ Outcomes(stats)' = Outcomes(stats)
  BY StateNames DEF Synthesized, Static, Outcomes
<1>2. Settled'
  BY <1>1 DEF AInv, Settled
<1> QED BY <1>1, <1>2 DEF AInv

\* Forms add requests, none of them to be analysed and none of them static.
LEMMA EndPageCounts ==
  ASSUME SInv, SInv', AInv, EndPage
  PROVE  AInv'
<1>1. PICK t : /\ IsSeq(t) /\ requests' = requests \o t
               /\ \A r \in ToSet(t) : FromForm(r, requests)
  BY EndPageKeeps
<1>2. /\ phase # "pool" /\ phase' # "pool"
      /\ UNCHANGED <<collected, stats, failed, resultCh>>
  <2>1. phase' \in {"idle", "forms", "done"}
    BY ParsePageIs DEF EndPage
  <2> QED BY <2>1 DEF EndPage, poolVars
<1>3. Extends(requests, requests')
  BY <1>1, GrowthKeeps
<1>4. BundleIndices' = BundleIndices
  BY <1>3, StateNames DEF Extends
<1>5. StaticIn(requests') = StaticIn(requests) /\ Static' = Static
  <2>1. IsSeq(requests)
    BY DEF SInv, IsCapture
  <2>2. \A r \in ToSet(t) : ~IsJSStaticSource(r.source)
    BY <1>1 DEF FromForm, IsJSStaticSource
  <2> QED BY <1>1, <2>1, <2>2, StaticGrows DEF Static
<1>6. Synthesized' = Synthesized /\ Outcomes(stats)' = Outcomes(stats)
  BY <1>2 DEF Synthesized, Outcomes
<1>7. Settled'
  BY <1>2, <1>4, <1>5, <1>6 DEF AInv, Settled
<1> QED BY <1>2, <1>5, <1>6, <1>7 DEF AInv

LEMMA SkipJSCounts ==
  ASSUME SInv, SInv', AInv, SkipJS
  PROVE  AInv'
<1>1. /\ phase = "idle" /\ phase' \in {"idle", "done"} /\ Settled
      /\ UNCHANGED <<requests, collected, resultCh>> /\ resultCh = <<>>
  BY DEF SkipJS, Stage, NextStage, AInv, Settled
<1>2. /\ BundleIndices' = BundleIndices /\ Synthesized' = Synthesized /\ Static' = Static
  BY <1>1, StateNames DEF Synthesized, Static
<1>3. CASE AnyStaticSource(requests) /\ UNCHANGED <<failed, stats>>
  BY <1>1, <1>3, SettledStays
<1>4. CASE ~AnyStaticSource(requests) /\ failed' = TRUE /\ UNCHANGED stats
  <2>1. StaticIn(requests) = {}
    BY <1>4, StaticIs
  <2>2. Settled'
    BY <1>1, <1>2, <1>4 DEF Settled, Outcomes
  <2> QED BY <1>1, <2>1, <2>2 DEF AInv
<1>5. CASE /\ ~AnyStaticSource(requests) /\ failed' = FALSE
           /\ stats' = Count(NoStats, "skipped", Cardinality(BundleIndices))
  <2>1. StaticIn(requests) = {} /\ Static = <<>>
    BY <1>5, StaticIs
  <2>2. Cardinality(BundleIndices) \in Nat
    BY FiniteIndices
  <2>3. /\ stats'.skipped = Cardinality(BundleIndices)
        /\ \A c \in {"analyzed", "panics", "abandoned", "kept"} : stats'[c] = 0
    <3> HIDE DEF BundleIndices
    <3> DEFINE n == Cardinality(BundleIndices)
    <3>1. n \in Int /\ stats' = Count(NoStats, "skipped", n)
      BY <1>5, <2>2
    <3> HIDE DEF n
    <3>2. stats'.skipped = n /\ \A c \in Counters : c # "skipped" => stats'[c] = 0
      BY <3>1, SkippedIs
    <3> QED BY <3>2, CountersAre DEF n
  <2>4. Outcomes(stats') = Cardinality(BundleIndices) /\ stats'.abandoned = 0 /\ stats'.kept = 0
    <3>1. stats'.analyzed = 0 /\ stats'.panics = 0 /\ stats'.abandoned = 0 /\ stats'.kept = 0
      BY <2>3
    <3> QED BY <2>2, <2>3, <3>1 DEF Outcomes
  <2>5. Len(Static') = 0
    BY <1>2, <2>1, EmptySeq
  <2>6. Settled'
    BY <1>1, <1>2, <1>5, <2>2, <2>4, <2>5 DEF Settled, Outcomes
  <2> QED BY <1>1, <1>5, <2>1, <2>6 DEF AInv
<1> QED BY <1>3, <1>4, <1>5 DEF SkipJS

LEMMA StartPoolCounts ==
  ASSUME SInv, SInv', AInv, StartPool
  PROVE  AInv'
<1>1. /\ phase' = "pool" /\ ~ctxDone' /\ ~AnyStaticSource(requests)
      /\ collected' = <<>> /\ UNCHANGED <<requests, resultCh, failed>> /\ resultCh = <<>>
      /\ worker' = [w \in Workers |-> Idle]
      /\ stats' = Count(NoStats, "skipped", Skipped)
  BY DEF StartPool, Stage, AInv, Settled, Skipped
<1>2. StaticIn(requests') = {}
  BY <1>1, StaticIs
<1>3. /\ BundleIndices' = BundleIndices /\ ToAnalyze' = ToAnalyze /\ Skipped' = Skipped
  <2>1. BundleIndices' = BundleIndices /\ ToAnalyze' = ToAnalyze
    BY <1>1, StateNames
  <2> QED BY <2>1 DEF Skipped
<1>4. Skipped \in Int
  BY LengthsAre DEF Skipped
<1>5. /\ stats'.skipped = Skipped
      /\ \A c \in {"analyzed", "panics", "abandoned", "kept"} : stats'[c] = 0
  <2>1. stats'.skipped = Skipped /\ \A c \in Counters : c # "skipped" => stats'[c] = 0
    BY <1>1, <1>4, SkippedIs
  <2> QED BY <2>1, CountersAre
<1>6. Outcomes(stats') = Skipped /\ stats'.abandoned = 0 /\ stats'.kept = 0
  <2>1. stats'.analyzed = 0 /\ stats'.panics = 0 /\ stats'.abandoned = 0 /\ stats'.kept = 0
    BY <1>5
  <2> QED BY <1>4, <1>5, <2>1 DEF Outcomes
<1>7. Synthesized' = <<>> /\ Len(Synthesized') = 0 /\ Len(collected') = 0
  <2>1. [i \in DOMAIN collected' |-> collected'[i].requests] = <<>>
    BY <1>1
  <2> QED BY <1>1, <2>1, EmptySeq DEF Synthesized, FlattenSeq
<1>8. Len(workCh') = Cardinality(ToAnalyze)
  <2> DEFINE index == [i \in DOMAIN requests |-> i]
             I == ToAnalyze
             n == Len(requests)
  <2>1. n \in Nat /\ I \in SUBSET (1..n) /\ workCh' = Pick(index, I)
    BY FiniteIndices DEF StartPool
  <2> HIDE DEF index, I, n
  <2>2. Len(workCh') = Cardinality(I)
    BY <2>1, PickIsSeq
  <2> QED BY <2>2 DEF I
<1>9. WorkersAtWork' = {} /\ \A w \in Workers : worker'[w].pc # "exit"
  <2>1. \A w \in Workers : worker'[w].pc = "idle"
    BY <1>1, IdleIs
  <2> QED BY <2>1 DEF WorkersAtWork, AtWork
<1>10. Cardinality(WorkersAtWork') = 0 /\ Len(resultCh') = 0
  BY <1>1, <1>9, FS_EmptySet, EmptySeq
<1>11. Cardinality(ToAnalyze) \in Nat
  BY FiniteIndices
<1>12. Cardinality(WorkersAtWork') + Len(workCh') + Len(resultCh') + Len(collected')
          = Cardinality(ToAnalyze')
  BY <1>3, <1>7, <1>8, <1>10, <1>11
<1>13. Outcomes(stats') = Skipped' + Len(collected')
  BY <1>3, <1>4, <1>6, <1>7
<1>14. Pooling'
  BY <1>2, <1>6, <1>7, <1>9, <1>12, <1>13 DEF Pooling, Outcomes
<1> QED BY <1>1, <1>2, <1>14 DEF AInv

\* What no worker reported was abandoned, and that is nothing unless the
\* context is cancelled.
LEMMA ReturnCounts ==
  ASSUME SInv, SInv', AInv, Return
  PROVE  AInv'
<1> DEFINE n == Cardinality(BundleIndices)
           m == Cardinality(ToAnalyze)
           seen == Outcomes(stats) - (n - m)
<1>1. /\ phase = "pool" /\ phase' \in {"idle", "done"} /\ Pooling /\ resultCh = <<>> /\ resultCh' = <<>>
      /\ \A w \in Workers : worker[w].pc = "exit"
      /\ failed' = ctxDone /\ UNCHANGED <<collected>>
      /\ requests' = IF ctxDone THEN requests ELSE requests \o Synthesized
  BY DEF Return, NextStage, AInv
<1>2. n \in Nat /\ m \in Nat /\ Len(collected) \in Nat /\ Outcomes(stats) \in Int
      /\ Len(Synthesized) \in Nat
  BY LengthsAre, SynthesizedIs, SeqIsSeq
<1>3. Outcomes(stats) = n - m + Len(collected)
  BY <1>1 DEF Pooling, Skipped
<1>4. stats' = [stats EXCEPT !.abandoned = m - seen]
  <2> DEFINE a == stats.analyzed
             b == stats.skipped
             c == stats.panics
  <2>1. a \in Int /\ b \in Int /\ c \in Int
    BY CountersAre DEF SInv
  <2>2. stats' = [stats EXCEPT !.abandoned = m - (a + b + c - (n - m))]
    BY DEF Return
  <2>3. a + b + c - (n - m) = seen
    <3>1. Outcomes(stats) = a + b + c
      BY DEF Outcomes
    <3> HIDE DEF a, b, c, n, m
    <3> QED BY <1>2, <2>1, <3>1
  <2> HIDE DEF a, b, c, n, m, seen
  <2> QED BY <2>2, <2>3
<1>5. stats'.abandoned = m - Len(collected) /\ Outcomes(stats') = Outcomes(stats) /\ stats'.kept = stats.kept
  <2>1. m - seen = m - Len(collected)
    <3> HIDE DEF n, m
    <3>1. seen = Len(collected)
      BY <1>2, <1>3
    <3> QED BY <3>1
  <2>2. stats \in [Counters -> Int]
    BY DEF SInv
  <2>3. {"analyzed", "skipped", "panics", "abandoned", "kept"} \subseteq Counters
    BY CountersAre
  <2> DEFINE a == m - seen
  <2>4. a = m - Len(collected) /\ stats' = [stats EXCEPT !.abandoned = a]
    BY <1>4, <2>1
  <2> HIDE DEF a
  <2>5. /\ stats'.abandoned = a /\ stats'.analyzed = stats.analyzed /\ stats'.skipped = stats.skipped
        /\ stats'.panics = stats.panics /\ stats'.kept = stats.kept
    BY <2>2, <2>3, <2>4
  <2> QED BY <2>4, <2>5 DEF Outcomes
<1>6. StaticIn(requests) = {} /\ stats.kept = Len(Synthesized)
  BY <1>1 DEF Pooling
<1>7. BundleIndices' = BundleIndices /\ Synthesized' = Synthesized
  <2>1. Synthesized' = Synthesized
    BY <1>1 DEF Synthesized
  <2>2. IsSeq(Synthesized) /\ \A r \in ToSet(Synthesized) : FromJS(r)
    BY SynthesizedIs
  <2>3. BundleIndices' = BundleIndices
    <3>1. CASE ctxDone
      BY <1>1, <3>1, StateNames
    <3>2. CASE ~ctxDone
      <4>1. requests' = requests \o Synthesized
        BY <1>1, <3>2
      <4>2. Extends(requests, requests')
        BY <2>2, <4>1, GrowthKeeps
      <4> QED BY <4>2, StateNames DEF Extends
    <3> QED BY <3>1, <3>2
  <2> QED BY <2>1, <2>3
<1>8. Outcomes(stats') + stats'.abandoned = Cardinality(BundleIndices')
  <2>1. Cardinality(BundleIndices') = n
    BY <1>7
  <2> HIDE DEF n, m
  <2> QED BY <1>2, <1>3, <1>5, <2>1
\* Every worker is gone, so nothing is in anybody's hands.
<1>9. ~ctxDone => stats'.abandoned = 0
  <2>1. ASSUME ~ctxDone PROVE m = Len(collected)
    <3>1. WorkersAtWork = {}
      BY <1>1 DEF WorkersAtWork, AtWork
    <3>2. Cardinality(WorkersAtWork) = 0 /\ Len(resultCh) = 0
      BY <1>1, <3>1, FS_EmptySet, EmptySeq
    <3>3. workCh = <<>>
      BY <1>1, <2>1, PoolConstants DEF Pooling
    <3>4. Len(workCh) = 0
      BY <3>3, EmptySeq
    <3>5. Cardinality(WorkersAtWork) + Len(workCh) + Len(resultCh) + Len(collected) = m
      BY <1>1, <2>1 DEF Pooling
    <3> QED BY <1>2, <3>2, <3>4, <3>5
  <2> HIDE DEF m
  <2> QED BY <1>2, <1>5, <2>1
<1>10. ~ctxDone => Static' = Synthesized
  <2>1. ASSUME ~ctxDone PROVE Static' = Synthesized
    <3>1. requests' = requests \o Synthesized
      BY <1>1, <2>1
    <3>2. IsSeq(requests) /\ IsSeq(Synthesized) /\ \A r \in ToSet(Synthesized) : FromJS(r)
      BY SynthesizedIs DEF SInv, IsCapture
    <3>3. \A r \in ToSet(Synthesized) : IsJSStaticSource(r.source)
      BY <3>2 DEF FromJS
    <3> QED BY <1>6, <3>1, <3>2, <3>3, StaticGrows DEF Static
  <2> QED BY <2>1
<1>11. ctxDone => StaticIn(requests') = {}
  BY <1>1, <1>6
<1>12. stats'.abandoned > 0 => failed'
  <2>1. CASE ctxDone
    BY <1>1, <2>1
  <2>2. CASE ~ctxDone
    BY <1>9, <2>2
  <2> QED BY <2>1, <2>2
<1>13. Settled'
  <2>1. ~failed' => Len(Static') = stats'.kept
    BY <1>1, <1>5, <1>6, <1>10
  <2>2. Outcomes(stats)' = Outcomes(stats')
    BY DEF Outcomes
  <2> QED BY <1>1, <1>8, <1>12, <2>1, <2>2 DEF Settled
<1>14. StaticIn(requests') # {} => Static' = Synthesized'
  BY <1>7, <1>10, <1>11
<1> QED BY <1>1, <1>11, <1>13, <1>14 DEF AInv

LEMMA AInit ==
  ASSUME Init
  PROVE  AInv
<1>1. StaticIn(requests) = {} /\ Static = <<>>
  <2>1. ASSUME NEW i \in DOMAIN requests PROVE ~IsJSStaticSource(requests[i].source)
    <3>1. requests[i] \in ToSet(requests)
      BY DEF ToSet
    <3> QED BY <3>1, RawCaptures DEF Init
  <2>2. StaticIn(requests) = {}
    BY <2>1 DEF StaticIn
  <2> QED BY <2>2, StaticIs
<1>2. /\ stats.analyzed = 0 /\ stats.skipped = 0 /\ stats.panics = 0 /\ stats.abandoned = 0
      /\ stats.kept = 0
  BY NoResultIs, CountersAre DEF Init
<1>3. Outcomes(stats) + stats.abandoned = 0
  BY <1>2 DEF Outcomes
<1>4. Len(Static) = 0
  BY <1>1, EmptySeq
<1>5. Settled
  BY <1>2, <1>3, <1>4 DEF Settled, Init
<1> QED BY <1>1, <1>5 DEF AInv, Init

LEMMA ANext ==
  ASSUME SInv, SInv', AInv, [Next]_vars
  PROVE  AInv'
<1>1. ASSUME UNCHANGED <<phase, requests, collected, stats, failed, resultCh, workCh, worker>>,
             ctxDone => ctxDone'
      PROVE  AInv'
  <2>1. CASE phase # "pool"
    BY <1>1, <2>1, SettledStays
  <2>2. CASE phase = "pool"
    <3>1. WorkersAtWork' = WorkersAtWork /\ Synthesized' = Synthesized /\ Static' = Static
      BY <1>1 DEF WorkersAtWork, Synthesized, Static
    <3>2. BundleIndices' = BundleIndices /\ ToAnalyze' = ToAnalyze /\ Skipped' = Skipped
      <4>1. BundleIndices' = BundleIndices /\ ToAnalyze' = ToAnalyze
        BY <1>1, StateNames
      <4> QED BY <4>1 DEF Skipped
    <3>3. Pooling'
      BY <1>1, <2>2, <3>1, <3>2 DEF AInv, Pooling, Outcomes
    <3> QED BY <1>1, <2>2, <3>1, <3>3 DEF AInv
  <2> QED BY <2>1, <2>2
<1>2. CASE UNCHANGED vars
  BY <1>1, <1>2 DEF vars, poolVars
<1>3. CASE StartForms
  <2>1. phase' \in {"idle", "forms", "done"} /\ phase = "idle"
    BY <1>3, ParsePageIs DEF StartForms, Stage
  <2> QED BY <1>3, <2>1, SettledStays DEF StartForms, poolVars
<1>4. CASE ReadToken
  BY <1>4, <1>1 DEF ReadToken, poolVars
<1>5. CASE EndPage \/ SkipJS \/ StartPool \/ Collect \/ Return
  BY <1>5, EndPageCounts, SkipJSCounts, StartPoolCounts, CollectCounts, ReturnCounts
<1>6. ASSUME NEW w \in Workers, Work(w) \/ AnalyzeOnePanic(w) PROVE AInv'
  BY <1>6, TakeCounts, CheckCounts, AnalyzeCounts, SendCounts DEF Work
<1>7. ASSUME NEW g \in running, FinishParse(g) PROVE AInv'
  BY <1>7, <1>1 DEF FinishParse
<1>8. CASE Cancel
  BY <1>8, <1>1 DEF Cancel, poolVars
<1>9. CASE NextCommand
  <2>1. phase' \in {"idle", "done"} /\ phase = "idle"
    BY <1>9 DEF NextCommand, Stage, NextStage
  <2> QED BY <1>9, <2>1, SettledStays DEF NextCommand
<1>10. CASE Finished
  BY <1>10, <1>2 DEF Finished
<1> QED BY <1>2, <1>3, <1>4, <1>5, <1>6, <1>7, <1>8, <1>9, <1>10 DEF Next

-----------------------------------------------------------------------------
(* The promises.                                                           *)

\* Every request comes from where it says, every worker has at most what its
\* bundle gives it, and every bundle is in exactly one place: the inductive
\* invariant the promises below follow from.
THEOREM AnalysisInvariant == Spec => [](SInv /\ AInv)
<1>1. Init => SInv /\ AInv
  BY SInit, AInit
<1>2. SInv /\ AInv /\ [Next]_vars => (SInv /\ AInv)'
  BY SNext, ANext
<1> QED BY <1>1, <1>2, PTL DEF Spec

LEMMA AccountedWhenSettled ==
  ASSUME AInv
  PROVE  BundlesAccounted
BY DEF AInv, Settled, Outcomes, BundlesAccounted

\* The counters of jsstatic.Analyze add up to the JavaScript bodies of the
\* capture once it has returned, and only a cancelled analysis abandons any.
THEOREM BundlesCountedOnce == Spec => []BundlesAccounted
<1>1. SInv /\ AInv => BundlesAccounted
  BY AccountedWhenSettled
<1> QED BY <1>1, AnalysisInvariant, PTL

LEMMA OnceWhenSettled ==
  ASSUME SInv, AInv
  PROVE  AnalysedOnce
<1>1. Static = Pick(requests, {i \in DOMAIN requests : IsJSStaticSource(requests[i].source)})
  BY DEF Static, StaticIn
<1>2. ASSUME Static # <<>> PROVE Static = Synthesized /\ Len(Static) = stats.kept
  <2>1. StaticIn(requests) # {}
    BY <1>2, StaticIs
  <2>2. phase # "pool" /\ ~failed
    BY <2>1 DEF AInv, Pooling
  <2> QED BY <2>1, <2>2 DEF AInv, Settled
<1>3. phase = "done" /\ ~failed => Len(Static) = stats.kept
  BY DEF AInv, Settled
<1> HIDE DEF Static
<1> QED BY <1>1, <1>2, <1>3 DEF AnalysedOnce

\* AnalyzeJS adds the requests of one whole analysis or none, whichever way and
\* however often a capture comes to it.
THEOREM StaticRequestsAddedOnce == Spec => []AnalysedOnce
<1>1. SInv /\ AInv => AnalysedOnce
  BY OnceWhenSettled
<1> QED BY <1>1, AnalysisInvariant, PTL

LEMMA FormsAreBlank ==
  ASSUME SInv
  PROVE  FormSecretsBlank
<1> SUFFICES ASSUME NEW r \in ToSet(requests), r.source = "static:html"
             PROVE  /\ \A k \in DOMAIN r.body : \A v \in ToSet(r.body[k]) : Blank(k, v)
                    /\ \A k \in DOMAIN r.query : \A v \in ToSet(r.query[k]) :
                          Blank(k, v) \/ v \in URLValues(k)
  BY DEF FormSecretsBlank
<1>1. FromForm(r, requests)
  BY CapturedIs DEF SInv, IsCapture, FromJS, IsJSStaticSource
<1>2. PICK origin \in ToSet(requests) : Captured(origin) /\ \E tok \in FormTokens : Submits(r, origin, tok.action)
  BY <1>1 DEF FromForm
<1>3. PICK tok \in FormTokens : Submits(r, origin, tok.action)
  BY <1>2
<1>4. origin.source # "static:html"
  BY <1>2, CapturedIs
<1>5. ASSUME NEW k, NEW v, NEW q \in {origin.query, tok.action.query}, k \in DOMAIN q, v \in ToSet(q[k])
      PROVE  v \in URLValues(k)
  <2> DEFINE captured == {s.query : s \in {p \in ToSet(requests) : p.source # "static:html"}}
             actions  == {t.action.query : t \in {u \in Tokens : u.t = "form"}}
  <2>1. q \in captured \cup actions
    BY <1>4 DEF FormTokens
  <2>2. URLValues(k) = UNION {ToSet(p[k]) : p \in {p \in captured \cup actions : k \in DOMAIN p}}
    BY DEF URLValues
  <2> HIDE DEF captured, actions
  <2> QED BY <1>5, <2>1, <2>2
<1> QED BY <1>3, <1>5 DEF Submits

\* fieldValue and handleInputTag let nothing out of a hidden, a password or a
\* sensitively named field: the synthesised requests of a page are blank there.
THEOREM SecretsStayInTheirForms == Spec => []FormSecretsBlank
<1>1. SInv /\ AInv => FormSecretsBlank
  BY FormsAreBlank
<1> QED BY <1>1, AnalysisInvariant, PTL

LEMMA ReportsAreExplained ==
  ASSUME SInv
  PROVE  EndpointsExplained
<1> SUFFICES ASSUME NEW i \in DOMAIN collected
             PROVE  LET r       == collected[i]
                        b       == BundleOf(r.bundle)
                        sources == {b.sites} \cup {b.map.sources[k].sites : k \in DOMAIN b.map.sources}
                        made    == UNION {Calls(ToSet(src), b.host) : src \in sources}
                        body    == Endpoints[requests[r.bundle].resp.body][0]
                        concat  == {k \in DOMAIN body : IsConcat(body[k])}
                        unsafe  == {k \in DOMAIN body : body[k].url.kind = "unsafe"}
                        cap     == MaxEndpointsPerBundle
                    IN  /\ Len(r.requests) = r.stats.kept /\ r.stats.kept <= cap
                        /\ \A k \in Tagged(r.requests, FALSE) : CallOf(r.requests[k], b.host) \in made
                        /\ \A k \in Tagged(r.requests, TRUE) :
                                /\ r.requests[k].host = b.host
                                /\ \E src \in sources :
                                     CallOf(r.requests[k], b.host)[2]
                                        \notin {c[2] : c \in Calls(ToSet(src), b.host)}
                        /\ r.stats.analyzed = 1 =>
                             /\ Cardinality(Tagged(r.requests, TRUE)) >=
                                    Least({Cardinality(concat), ConcatMinReserve, cap \div 2})
                                        - Cardinality(concat \cap unsafe)
                             /\ Len(body) <= cap =>
                                    \A c \in Calls(ToSet(b.sites) \ TakenForRepeats(b.sites), b.host) :
                                        \/ \E q \in ToSet(r.requests) : CallOf(q, b.host) = c
                                        \/ unsafe # {}
                             /\ Len(body) > cap => r.stats.kept >= cap - Cardinality(unsafe)
  BY DEF EndpointsExplained
<1> DEFINE r == collected[i]
           b == BundleOf(r.bundle)
           body == Endpoints[requests[r.bundle].resp.body][0]
           eps == ExtractFromBundle(b.sites, b.host)
           sources == {b.sites} \cup {b.map.sources[k].sites : k \in DOMAIN b.map.sources}
           made == UNION {Calls(ToSet(src), b.host) : src \in sources}
<1>1. r \in Reports(requests)
  BY LenProperties, ElementOfSeq DEF SInv
<1>2. Finds(r, requests) /\ requests[r.bundle].resp.body \in DOMAIN Bundles
  <2>1. Finds(r, requests) /\ r.bundle \in AnalyzableIn(requests)
    BY <1>1 DEF Reports, Finds
  <2> QED BY <2>1, BundlesAre DEF SInv, AnalyzableIn
<1>3. b = Bundles[requests[r.bundle].resp.body]
  BY DEF BundleOf
<1>4. Sound(r, b) /\ sources = SitesIn(b)
  BY <1>2, <1>3 DEF Finds, SitesIn
<1>5. body = eps
  BY <1>2, <1>3 DEF Endpoints
<1> HIDE DEF r, b, eps
<1>6. ASSUME NEW k \in DOMAIN r.requests
      PROVE  \E src \in sources : Stands(r.requests[k], ToSet(src), b.host)
  BY <1>4 DEF Sound, ToSet
<1>7. ASSUME NEW k \in Tagged(r.requests, FALSE) PROVE CallOf(r.requests[k], b.host) \in made
  <2>1. k \in DOMAIN r.requests /\ r.requests[k].source # "static:js-concat"
    BY DEF Tagged
  <2>2. PICK src \in sources : Stands(r.requests[k], ToSet(src), b.host)
    BY <1>6, <2>1
  <2>3. CallOf(r.requests[k], b.host) \in Calls(ToSet(src), b.host)
    BY <2>1, <2>2 DEF Stands
  <2> HIDE DEF sources
  <2> QED BY <2>3
<1>8. ASSUME NEW k \in Tagged(r.requests, TRUE)
      PROVE  /\ r.requests[k].host = b.host
             /\ \E src \in sources :
                  CallOf(r.requests[k], b.host)[2] \notin {c[2] : c \in Calls(ToSet(src), b.host)}
  <2>1. k \in DOMAIN r.requests /\ r.requests[k].source = "static:js-concat"
    BY DEF Tagged
  <2>2. PICK src \in sources : Stands(r.requests[k], ToSet(src), b.host)
    BY <1>6, <2>1
  <2>3. /\ r.requests[k].host = b.host
        /\ \A c \in Calls(ToSet(src), b.host) : CallOf(r.requests[k], b.host)[2] # c[2]
    BY <2>1, <2>2 DEF Stands
  <2> HIDE DEF sources
  <2> QED BY <2>3
<1>9. Len(r.requests) = r.stats.kept /\ r.stats.kept <= MaxEndpointsPerBundle
  BY <1>4 DEF Sound
<1>10. ASSUME r.stats.analyzed = 1
       PROVE  /\ Cardinality(Tagged(r.requests, TRUE)) >=
                    Least({Cardinality(ConcatAt(body)), ConcatMinReserve, MaxEndpointsPerBundle \div 2})
                       - Cardinality(ConcatAt(body) \cap UnsafeAt(body))
              /\ Len(body) <= MaxEndpointsPerBundle =>
                    \A c \in Calls(ToSet(b.sites) \ TakenForRepeats(b.sites), b.host) :
                        \/ \E q \in ToSet(r.requests) : CallOf(q, b.host) = c
                        \/ UnsafeAt(body) # {}
              /\ Len(body) > MaxEndpointsPerBundle =>
                    r.stats.kept >= MaxEndpointsPerBundle - Cardinality(UnsafeAt(body))
  <2>1. FairShare(r.requests, b.sites, b.host, MaxEndpointsPerBundle)
    BY <1>4, <1>10 DEF Sound
  <2> QED BY <1>5, <1>9, <2>1 DEF FairShare, eps
<1> HIDE DEF made, sources, body
<1> QED BY <1>7, <1>8, <1>9, <1>10 DEF r, b, body, made, sources, ConcatAt, UnsafeAt

\* What capBundleEndpoints, extractConcatEndpoints and the budget of the
\* sourcemap loop leave of a bundle: its calls and no other, reconstructed paths
\* only where no call is known, neither kind starved by the cap.
THEOREM RequestsAreExplained == Spec => []EndpointsExplained
<1>1. SInv /\ AInv => EndpointsExplained
  BY ReportsAreExplained
<1> QED BY <1>1, AnalysisInvariant, PTL

=============================================================================
