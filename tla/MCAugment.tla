------------------------------ MODULE MCAugment ------------------------------
(***************************************************************************)
(* Instances of JsStatic: captures with up to two bundles for two workers, *)
(* and captures with an HTML page whose body is any short token string.    *)
(***************************************************************************)
EXTENDS JsStatic

Users == <<<<"lit", "users">>>>
User(seg) == <<<<"lit", "users">>, seg>>
Relative(segs, kind) == [host |-> "", segs |-> segs, kind |-> kind]
Site(by, method, url, tokens, fields) ==
    [by |-> by, method |-> method, url |-> url, tokens |-> tokens, fields |-> fields]

NoMapRef == [ref |-> "none", host |-> "", private |-> FALSE, valid |-> TRUE, sources |-> <<>>]
Orders == <<<<"lit", "orders">>>>

\* More endpoints than the cap: three calls, one of them a POST the parser also
\* reports without its method, and four reconstructed paths, of which one is
\* the user call under another spelling and one is another origin's.
Busy == <<Site("fetch", "POST", Relative(Users, "api"), <<>>, {1}),
          Site("template", "", Relative(User(Expr), "api"), <<"userId">>, {}),
          Site("axios", "DELETE", Relative(Users, "api"), <<>>, {}),
          Site("concat", "", Relative(User(ConcatSentinel), "api"), <<>>, {}),
          Site("concat", "", Relative(Orders, "api"), <<>>, {}),
          Site("concat", "", [Relative(Orders, "api") EXCEPT !.host = "other"], <<>>, {}),
          Site("concat", "", Relative(Orders \o Users, "api"), <<>>, {})>>

\* A call and an endpoint that must not be emitted.
Unsafe == <<Site("axios", "PUT", Relative(Users, "api"), <<>>, {1, 2}),
            Site("other", "GET", Relative(Orders, "unsafe"), <<>>, {}),
            Site("other", "GET", Relative(Orders, "filtered"), <<>>, {})>>

\* A call without a method that passes for a repeat of the other's report.
Repeats == <<Site("fetch", "", Relative(Orders, "api"), <<>>, {}),
             Site("fetch", "PUT", Relative(Orders, "api"), <<>>, {})>>

MCBundles ==
    (<<"busy">> :> [host |-> "site", size |-> 1, sites |-> Busy, map |-> NoMapRef])
 @@ (<<"mapped">> :> [host |-> "site", size |-> 1, sites |-> Unsafe,
        map |-> [NoMapRef EXCEPT !.ref = "remote", !.host = "site",
                    !.sources = <<[size |-> 9, sites |-> Busy], [size |-> 1, sites |-> Busy]>>]])
 @@ (<<"inline">> :> [host |-> "site", size |-> 1, sites |-> Repeats,
        map |-> [NoMapRef EXCEPT !.ref = "data",
                    !.sources = <<[size |-> 1, sites |-> Unsafe]>>]])
 @@ (<<"large">> :> [host |-> "site", size |-> 9, sites |-> Busy, map |-> NoMapRef])

Page(ctype, body) == [status |-> 200, ctype |-> ctype, body |-> body]
JS(body) == Observed("GET", "site", <<body>>, NoQuery, "", NoBody, "dynamic", Page("js", body))
HTML == Observed("GET", "site", <<<<"lit", "index">>>>, NoQuery, "", NoBody, "dynamic",
                 Page("html", <<"page">>))

MCCaptures == {<<HTML>>, <<JS(<<"busy">>), JS(<<"mapped">>)>>,
               <<JS(<<"large">>), JS(<<>>), JS(<<"inline">>)>>, <<JS(<<"large">>)>>}

Self == [kind |-> "self", host |-> "", path |-> <<>>, query |-> NoQuery]
Search == [kind |-> "url", host |-> "site", path |-> Orders, query |-> (3 :> <<<<"old">>>>)]
Offsite == [Search EXCEPT !.host = "other"]
Form(action, method) == [t |-> "form", action |-> action, method |-> method, enctype |-> ""]
Field(t, name, type, value, placeholder) ==
    [t |-> t, name |-> name, type |-> type, value |-> value, placeholder |-> placeholder,
     foreign |-> FALSE]
End(t) == [t |-> t]

\* Names 1 and 3 are harmless, 2 is sensitive.
MCSensitive == {2}
MCTokens ==
    {Form(Self, "POST"), Form(Search, "GET"), Form(Offsite, "GET"),
     Field("input", 3, "text", <<>>, <<"hint">>),
     Field("input", 1, "hidden", <<"secret">>, <<>>),
     Field("input", 2, "text", <<"secret">>, <<"secret">>),
     Field("textarea", 2, "", <<>>, <<"secret">>),
     Field("select", 3, "", <<>>, <<>>),
     [t |-> "option", value |-> <<>>, selected |-> TRUE],
     [t |-> "option", value |-> <<"b">>, selected |-> FALSE],
     [t |-> "text", value |-> <<"word">>],
     End("/form"), End("/option"), End("/select"), End("/textarea")}
=============================================================================
