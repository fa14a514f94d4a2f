----------------------------- MODULE FormParser -----------------------------
(***************************************************************************)
(* Static form analysis (pkg/analyze/forms.go): the token machine that     *)
(* finds the forms of an HTML body, and the request synthesised from each. *)
(*                                                                         *)
(* A token is a record.  `t' is the tag; a text is a sequence of fragments *)
(* (<<>> is the empty string), so that the byte caps become caps on the    *)
(* number of fragments and trimming, which only removes blanks, is         *)
(* invisible.  The parser record holds what parseForms keeps in locals:    *)
(* the stack of open forms, the finished forms, and `pending', the state   *)
(* while a <textarea> or <select> is open.  A pending element always       *)
(* belongs to the last field of the innermost open form: nothing is pushed *)
(* or popped while it is pending.                                          *)
(***************************************************************************)
EXTENDS Capture

CONSTANTS MaxForms,        \* maxFormsPerBody
          MaxFields,       \* maxFieldsPerForm
          MaxValue,        \* maxFieldValueBytes, in fragments
          SensitiveNames   \* the field names isSensitiveName matches

ASSUME FormCaps == {MaxForms, MaxFields, MaxValue} \subseteq Nat \ {0}

\* The NUL-prefixed marker of a select whose selected option is being read.
Sentinel == <<"<selected>">>

NoName == 0    \* no name, or one with a control byte

NotPending == [in |-> "none", option |-> FALSE, value |-> <<>>, text |-> <<>>,
               first |-> <<>>, hasFirst |-> FALSE]

NewParser == [stack |-> <<>>, results |-> <<>>, pending |-> NotPending]

-----------------------------------------------------------------------------
(* Pending elements: a value that spans several tokens.                    *)

PendingField(p) == Last(Last(p.stack).fields)

SetPendingValue(p, v) ==
    LET n == Len(p.stack)
        m == Len(p.stack[n].fields)
    IN  [p EXCEPT !.stack[n].fields[m].value = v]

AppendCapped(prefix, suffix) ==
    LET both == prefix \o suffix
    IN  IF Len(both) <= MaxValue THEN both ELSE SubSeq(both, 1, MaxValue)

\* A start tag inside a pending element: only an <option> of a <select> counts,
\* and it replaces an option that was left open.
PendingStart(p, tok) ==
    IF p.pending.in # "select" \/ tok.t # "option" THEN p
    ELSE LET q == [p EXCEPT !.pending.option = TRUE,
                            !.pending.value = tok.value,
                            !.pending.text = <<>>]
         IN  IF tok.selected /\ PendingField(p).value = <<>>
             THEN SetPendingValue(q, Sentinel) ELSE q

PendingText(p, tok) ==
    CASE p.pending.in = "textarea" ->
            SetPendingValue(p, AppendCapped(PendingField(p).value, tok.value))
      [] p.pending.in = "select" /\ p.pending.option ->
            [p EXCEPT !.pending.text = AppendCapped(@, tok.value)]
      [] OTHER -> p

CommitOption(p) ==
    LET v == IF p.pending.value = <<>> THEN p.pending.text ELSE p.pending.value
        q == IF PendingField(p).value = Sentinel THEN SetPendingValue(p, v) ELSE p
    IN  [q EXCEPT !.pending.first = IF p.pending.hasFirst THEN @ ELSE v,
                  !.pending.hasFirst = TRUE,
                  !.pending.option = FALSE,
                  !.pending.value = <<>>,
                  !.pending.text = <<>>]

ResolveSelect(p) ==
    LET v == PendingField(p).value
        w == IF v = Sentinel THEN <<>> ELSE v
    IN  SetPendingValue(p, IF w = <<>> /\ p.pending.hasFirst
                           THEN p.pending.first ELSE w)

\* While an element is pending every end tag but its own and </option> is
\* ignored, </form> included.
PendingEnd(p, tok) ==
    CASE tok.t = "/option" /\ p.pending.in = "select" /\ p.pending.option ->
            CommitOption(p)
      [] tok.t = "/select" -> [ResolveSelect(p) EXCEPT !.pending = NotPending]
      [] tok.t = "/textarea" -> [p EXCEPT !.pending = NotPending]
      [] OTHER -> p

-----------------------------------------------------------------------------
(* Tokens outside a pending element.                                       *)

OpenForm(p, tok) ==
    IF Len(p.results) + Len(p.stack) >= MaxForms THEN p
    ELSE [p EXCEPT !.stack = Append(@, [action |-> tok.action, method |-> tok.method,
                                        enctype |-> tok.enctype, fields |-> <<>>])]

CloseForm(p) ==
    IF p.stack = <<>> THEN p
    ELSE [p EXCEPT !.results = Append(@, Last(p.stack)), !.stack = Front(@)]

\* A field is taken by the innermost open form unless it names a form itself,
\* has no usable name, or the form is full.
TakesField(p, tok) ==
    /\ p.stack # <<>>
    /\ ~tok.foreign
    /\ tok.name # NoName
    /\ Len(Last(p.stack).fields) < MaxFields

AddField(p, tok, type, value) ==
    [p EXCEPT !.stack[Len(p.stack)].fields =
        Append(@, [name |-> tok.name, value |-> value, placeholder |-> tok.placeholder,
                   hidden |-> type = "hidden",
                   sensitive |-> tok.name \in SensitiveNames \/ type = "password"])]

Input(p, tok) ==
    IF ~TakesField(p, tok) \/ tok.type = "submit" THEN p
    ELSE AddField(p, tok, tok.type,
                  IF tok.type \in {"hidden", "password"} THEN <<>> ELSE tok.value)

OpenPending(p, tok) ==
    IF ~TakesField(p, tok) THEN p
    ELSE [AddField(p, tok, tok.t, <<>>) EXCEPT !.pending = [NotPending EXCEPT !.in = tok.t]]

StartTag(p, tok) ==
    IF p.pending.in # "none" THEN PendingStart(p, tok)
    ELSE CASE tok.t = "form"                    -> OpenForm(p, tok)
           [] tok.t = "input"                   -> Input(p, tok)
           [] tok.t \in {"textarea", "select"}  -> OpenPending(p, tok)
           [] OTHER                             -> p

EndTag(p, tok) ==
    IF p.pending.in # "none" THEN PendingEnd(p, tok)
    ELSE IF tok.t = "/form" THEN CloseForm(p) ELSE p

Token(p, tok) ==
    CASE tok.t = "text"    -> PendingText(p, tok)
      [] tok.t \in {"/form", "/option", "/select", "/textarea"} -> EndTag(p, tok)
      [] OTHER             -> StartTag(p, tok)

\* The end of the body: an open select is resolved and the forms still open
\* are taken innermost first.
FlushUnclosed(p) ==
    LET q == IF p.pending.in = "select" THEN ResolveSelect(p) ELSE p
    IN  q.results \o Reverse(q.stack)

-----------------------------------------------------------------------------
(* The request of a form.                                                  *)

\* Mutant: the placeholder stands in for any field without a value.
FieldValueOrHint(f) ==
    IF (f.sensitive \/ f.hidden) /\ f.value # <<>> THEN <<>>
    ELSE IF f.value # <<>> THEN f.value ELSE f.placeholder

FieldValue(f) ==
    IF f.sensitive \/ f.hidden THEN <<>>
    ELSE IF f.value # <<>> THEN f.value ELSE f.placeholder

FieldsToValues(fields) ==
    [k \in {fields[i].name : i \in DOMAIN fields} |->
        Pick([i \in DOMAIN fields |-> FieldValue(fields[i])],
             {i \in DOMAIN fields : fields[i].name = k})]

\* An action is the page itself, a URL, or something that is no http(s) URL.
\* Only a URL of the page's own origin is followed.
ResolvesAction(page, action) ==
    action.kind = "self" \/ (action.kind = "url" /\ action.host = page.host)

FormRequest(form, page) ==
    LET target  == IF form.action.kind = "self" THEN page ELSE form.action
        method  == IF form.method = "POST" THEN "POST" ELSE "GET"
        enctype == IF form.enctype = "" THEN "urlencoded" ELSE form.enctype
        values  == FieldsToValues(form.fields)
        \* Form fields replace the action's own values of the same key.
        query   == [k \in DOMAIN values \cup DOMAIN target.query |->
                        IF k \in DOMAIN values THEN values[k] ELSE target.query[k]]
    IN  IF method = "GET"
        THEN Observed("GET", target.host, target.path, CapQueryValues(query), "", NoBody,
                      "static:html", NoResponse)
        ELSE Observed("POST", target.host, target.path, CapQueryValues(target.query),
                      enctype, values, "static:html", NoResponse)

FormRequests(forms, page) ==
    Pick([i \in DOMAIN forms |-> FormRequest(forms[i], page)],
         {i \in DOMAIN forms : ResolvesAction(page, forms[i].action)})
=============================================================================
