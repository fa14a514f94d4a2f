------------------------------ MODULE MCReplay ------------------------------
(***************************************************************************)
(* Instances of JsReplay: a page, its bundle (empty, cut or whole) and the *)
(* requests the offline analysis made of it, on a site with two scripts    *)
(* more, one of them on another origin.                                    *)
(***************************************************************************)
EXTENDS JsReplay

MCWords == <<"app.js", "id", "orders", "svc", "users">>
Api == <<"/", "api", "/">>
Quoted(p) == <<"quote">> \o p \o <<"quote">>

\* Operands of a concatenation, each with the text it stands for.
Operand(src, text) == [src |-> src, text |-> text]
Operands ==
    {Operand(Quoted(<<"users">>), <<"users">>),
     Operand(Quoted(<<"/", "orders", "/">>), <<"/", "orders", "/">>),
     Operand(<<"tick", "users", "tick">>, <<"users">>),
     Operand(<<"id">>, <<"0">>),
     Operand(<<"id", "(", "quote", ",", ")", "quote", ",", "id", ")">>, <<"0">>),
     Operand(<<"id", "[", "id", "+", "id", "]">>, <<"0">>),
     Operand(<<"tick", "users", "${", "id", "}", "tick">>, <<"0">>),
     Operand(<<"tick", "${", "tick", "}", "tick", "}", "tick">>, <<"0">>)}

Concatenations == {<<a>> : a \in Operands} \cup {<<a, b>> : a, b \in Operands}

\* "/api/" + a + b;  and  "/api/".concat(a, b);
Chain(ops) == Quoted(Api) \o FlattenSeq([i \in DOMAIN ops |-> <<" ", "+", "nl">> \o ops[i].src])
                \o <<";", "id">>
Call(ops) == Quoted(Api) \o <<".concat(">>
                \o FlattenSeq([i \in DOMAIN ops |-> ops[i].src \o
                                    (IF i = Len(ops) THEN <<>> ELSE <<",", " ">>)])
                \o <<")", ";", "id">>

Generated == {Chain(ops) : ops \in Concatenations} \cup {Call(ops) : ops \in Concatenations}

\* A concatenation is read back as its operands: a literal as its text, any
\* other expression, with whatever commas, signs and brackets it holds, as the
\* sentinel (parseConcatArgs, parsePlusChain and their scanners).
ReadsBack ==
    \A ops \in Concatenations :
        source \in {Chain(ops), Call(ops)} =>
            ExtractConcatPaths(source) =
                {CleanConcatPath(Api \o FlattenSeq([i \in DOMAIN ops |-> ops[i].text]))}

App == <<"/", "app.js">>
Late == [host |-> "site", path |-> <<"/", "users", "/", "app.js">>]
Foreign == [host |-> "cdn", path |-> App]
Inside == [host |-> "internal", path |-> App]

Page(ctype, body) == [status |-> 200, ctype |-> ctype, body |-> body]
Captured(host, path, resp) == Observed("GET", host, path, NoQuery, "", NoBody, "dynamic", resp)
Index == Captured("site", <<"/">>, Page("html", <<"index">>))
Mirror(host, source_) == Observed("GET", host, Api \o <<"0">>, NoQuery, "", NoBody, source_,
                                  NoResponse)

Capture(body) ==
    <<Captured("cdn", App, Page("js", body)), Index, Captured("site", App, Page("js", body)),
      Mirror("cdn", "static:js-concat"), Mirror("site", "static:js")>>

Config(target, cross, private) == [target |-> target, cross |-> cross, private |-> private]
Input(cfg_, capture, source_) == [cfg |-> cfg_, capture |-> capture, source |-> source_]

\* Every configuration on one bundle, every bundle under one configuration.
Configurations ==
    {Input(Config(t, c, p), Capture(body), Chain(<<Operand(<<"id">>, <<"0">>)>>)) :
        t \in {"", "site", "bad"}, c \in BOOLEAN, p \in BOOLEAN,
        body \in {<<>>, <<"cut">>, <<"app">>}}

Scans ==
    {Input(Config("site", FALSE, FALSE), <<Captured("site", App, Page("js", <<"app">>))>>, src) :
        src \in Generated}

\* One bundle names an absolute URL, the other a path that needs a prefix.
MCServed == (Late :> (Quoted(<<"svc", "/">>) \o <<";">> \o Quoted(Api \o <<"orders">>)
                        \o <<"tick">> \o Api \o <<"${", "id", "}", "tick">>))
         @@ (Foreign :> Quoted(<<"internal">> \o Api \o <<"orders">>))

MCSources == Generated \cup {Chain(<<Operand(<<"id">>, <<"0">>)>>)} \cup {MCServed[url] : url \in DOMAIN MCServed}

MCInputs == Configurations \cup Scans

MCRedirects == {Late, Foreign, Inside}

MCScripts == <<"index">> :> <<Late, Foreign>>

=============================================================================
