----------------------------- MODULE MCScanSpec -----------------------------
(***************************************************************************)
(* Instances of ScanSpec: one job per question the stages ask of the       *)
(* traffic.                                                                *)
(***************************************************************************)
EXTENDS ScanSpec

MCWords == <<"", "42", "7", "a1b2c3", "api", "blue", "cart", "carts", "comment", "comments",
             "facade", "graphql", "login", "me", "order", "orders", "post", "posts", "red",
             "user", "users", "v2">>

MCTraits ==
    [w \in ToSet(MCWords) |->
        CASE w \in {"42", "7"} -> {"numeric", "digit"}
          [] w = "a1b2c3"      -> {"hex", "digit", "lower"}
          [] w = "facade"      -> {"hex", "lower"}
          [] w = "api"         -> {"api dir", "scaffold"}
          [] w = "v2"          -> {"version"}
          [] w = "graphql"     -> {"graphql"}
          [] w = "me"          -> {"known"}
          [] OTHER             -> {}]

MCSingular ==
    [w \in ToSet(MCWords) |->
        CASE w = "carts" -> "cart" [] w = "comments" -> "comment" [] w = "orders" -> "order"
          [] w = "posts" -> "post" [] w = "users" -> "user" [] OTHER -> w]

MCReads == [v \in {"1", "1.5", "true", "x"} |->
              CASE v = "1" -> {"int", "float"} [] v = "1.5" -> {"float"}
                [] v = "true" -> {"bool"} [] OTHER -> {}]

Value(t) == [t |-> t]
Props(f) == [t |-> "object", props |-> f]
Plain == [big |-> FALSE, first |-> "x", json |-> Invalid, form |-> <<>>, parts |-> <<>>, same |-> 0,
          marks |-> {}]
JSON(f) == [Plain EXCEPT !.first = "{", !.json = Props(f)]
Field(name, type) == [name |-> name, file |-> FALSE, type |-> type]

UserProps == [id |-> Value("integer"), name |-> Value("string")]
TagList == [t |-> "array", items |-> <<Props([tag |-> Value("string")])>>]

MCBodies ==
    <<JSON(UserProps),
      JSON([id |-> Value("string"), tags |-> TagList]),
      [Plain EXCEPT !.form = [a |-> "integer", b |-> "string"]],
      [Plain EXCEPT !.form = [a |-> "string"]],
      [Plain EXCEPT !.parts = <<Field("a", "integer"), [Field("b", "string") EXCEPT !.file = TRUE]>>,
                    !.same = 5],
      [Plain EXCEPT !.parts = <<Field("a", "integer"), [Field("b", "string") EXCEPT !.file = TRUE]>>,
                    !.same = 5],
      [JSON([query |-> Value("string")]) EXCEPT !.marks = {"query"}],
      JSON([data |-> Props(UserProps)]),
      [Plain EXCEPT !.first = "<", !.marks = {"envelope"}],
      [Plain EXCEPT !.first = "<", !.marks = {"feed"}],
      [Plain EXCEPT !.first = "["  , !.json = [t |-> "array", items |-> <<>>]],
      [Plain EXCEPT !.big = TRUE],
      [Plain EXCEPT !.first = "<", !.marks = {"html"}]>>

MCQueries == <<1 :> <<"1">>, (1 :> <<"1.5">>) @@ (2 :> <<"true">>), 1 :> <<"x", "1", "1.5">>>>

JSONType == "application/json"
OK(body) == [status |-> 200, ctype |-> JSONType, body |-> body]
Answer(status, ctype, body) == [status |-> status, ctype |-> ctype, body |-> body]

Request(method, origin, path, raw, ctype, body, resp) ==
    [method |-> method, web |-> TRUE, origin |-> origin, path |-> path, raw |-> raw,
     query |-> IF raw = 0 THEN <<>> ELSE MCQueries[raw], accept |-> {JSONType}, ctype |-> ctype,
     soap |-> 0, body |-> body, source |-> "browser", resp |-> resp]
Get(origin, path, raw, resp) == Request("GET", origin, path, raw, "", 0, resp)
Send(method, path, ctype, body, resp) == Request(method, 2, path, 0, ctype, body, resp)
Named(origin, path, source) ==
    [Get(origin, path, 0, Unanswered) EXCEPT !.source = source, !.accept = {}]

Options(target, merge) ==
    [pinned |-> target # 0, target |-> target, threshold |-> 50, deduplicate |-> TRUE, apiType |-> "rest",
     normalize |-> [merge |-> merge, threshold |-> 2]]
Job(page_, static, opts) == [page |-> page_, static |-> static, opts |-> opts]

\* Two spellings of one template on two origins, a query seen twice, and a
\* bundle that names the template on a third origin.
Origins3 ==
    Job(<<<<Get(2, <<"api", "users", "42">>, 1, OK(1))>>, <<Get(2, <<"api", "users", "42">>, 2, OK(2))>>,
          <<Get(3, <<"api", "users", "7">>, 3, OK(11))>>>>,
        <<Named(1, <<"api", "users", "a1b2c3">>, "static:js")>>, Options(2, FALSE))

\* A redirected form that is sent with two sets of fields.
Forms ==
    Job(<<<<Send("POST", <<"api", "carts">>, "application/x-www-form-urlencoded", 3,
                 Answer(302, "", 0)),
            Get(2, <<"api", "carts", "me">>, 0, OK(1))>>,
          <<Send("POST", <<"api", "carts">>, "application/x-www-form-urlencoded", 4,
                 Answer(201, JSONType, 1))>>>>,
        <<>>, Options(2, FALSE))

\* Deletions without a body, one of which fails, and a path only a bundle knows.
Deletions ==
    Job(<<<<Send("DELETE", <<"api", "carts", "7">>, "", 0, Answer(204, "", 0))>>,
          <<Send("DELETE", <<"api", "carts", "7">>, "", 0, Answer(404, "text/html", 10))>>>>,
        <<Named(0, <<"api", "carts", "7">>, "static:js"), Named(3, <<"api", "carts">>, "static:js-concat")>>,
        Options(2, FALSE))

\* Uploads equal up to their boundary, and one body too big to read.
Uploads ==
    Job(<<<<Send("PUT", <<"api", "carts">>, "multipart/form-data", 5, Answer(200, "", 0))>>,
          <<Send("PUT", <<"api", "carts">>, "multipart/form-data", 6, Answer(204, "", 0))>>,
          <<Send("PUT", <<"api", "carts">>, "", 12, OK(12))>>>>,
        <<Named(0, <<"api", "carts">>, "static:js-sourcemap")>>, Options(2, FALSE))

\* Slugs beside an identifier, two levels deep.
Slugs ==
    Job(<<<<Get(2, <<"v2", "posts", "red", "comments", "blue">>, 0, OK(1))>>,
          <<Get(2, <<"v2", "posts", "blue", "comments", "red">>, 0, OK(1))>>,
          <<Get(2, <<"v2", "posts", "red", "comments", "42">>, 0, OK(2))>>>>,
        <<Named(2, <<"v2", "posts", "facade", "comments", "blue">>, "static:js")>>, Options(2, TRUE))

\* Two resources of one name, an echo, and one shape under two statuses.
Components ==
    Job(<<<<Send("POST", <<"api", "users">>, JSONType, 1, Answer(201, JSONType, 1))>>,
          <<Send("POST", <<"v2", "users">>, JSONType, 2, OK(2))>>,
          <<Get(2, <<"api", "users">>, 0, OK(1))>>>>,
        <<>>, Options(0, FALSE))

\* A page with a bit of everything: the type is detected.
Mixed ==
    Job(<<<<Send("POST", <<"graphql">>, JSONType, 7, OK(8))>>,
          <<[Send("POST", <<"api", "orders">>, "text/xml", 9, Answer(200, "text/xml", 9)) EXCEPT !.soap = 1]>>,
          <<Get(2, <<"api", "orders">>, 0, Answer(200, "text/xml", 10))>>>>,
        <<>>, [Options(2, FALSE) EXCEPT !.apiType = "auto"])

\* One path, a literal of one bundle and a reconstruction of another.
Bundles ==
    Job(<<<<Get(2, <<"login">>, 0, Answer(200, "text/html", 10))>>>>,
        <<Named(2, <<"api", "orders">>, "static:js"), Named(2, <<"api", "orders">>, "static:js-concat"),
          Named(1, <<"api", "orders", "42">>, "static:js")>>, Options(2, FALSE))

\* No target and no deduplication: an untyped document on one origin, an API on another,
\* and a bundle that names both the first and a third for the API's template.
Strangers ==
    Job(<<<<Get(3, <<"login">>, 0, Answer(200, "", 13))>>,
          <<Get(2, <<"api", "users", "42">>, 0, Answer(404, "text/html", 10))>>,
          <<Get(2, <<"api", "users", "42">>, 0, OK(1))>>>>,
        <<Named(1, <<"api", "users", "7">>, "static:js"), Named(3, <<"api", "users", "a1b2c3">>, "static:js")>>,
        [Options(0, FALSE) EXCEPT !.deduplicate = FALSE])

\* The same with a target that is no origin.
Refused == [Strangers EXCEPT !.opts.pinned = TRUE]

MCJobs == {Origins3, Forms, Deletions, Uploads, Slugs, Components, Mixed, Strangers, Refused}
MCBundles == {Bundles}
=============================================================================
