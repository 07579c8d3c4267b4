----------------------------- MODULE MCScoring -----------------------------
(* A small catalog and the events of a run against it. *)
EXTENDS ScoreDocument

Flaw(app, route, param, default, signal, token, oob, family, cwe) ==
  [app |-> app, method |-> "POST", route |-> route, param |-> param[1], location |-> param[2],
   default |-> default, signal |-> signal, token |-> token, oob |-> oob, family |-> family,
   cwes |-> {cwe}]

Nothing == <<"none", "none">>

MCCatalog ==
  ("v1" :> Flaw("shop", <<"orders", "{}">>, <<"q", "query">>, "default", "s1", "t1", TRUE,
                "injection", 89))
  @@ ("v2" :> Flaw("shop", <<"files", "{**}">>, Nothing, "none", "s2", "none", FALSE, "files", 22))
  @@ ("v3" :> Flaw("blog", <<"{**}", "x">>, <<"q", "body">>, "none", "s3", "none", TRUE, "client", 79))
  @@ ("v4" :> Flaw("shop", <<"orders", "{}">>, <<"id", "json">>, "none", "s4", "none", FALSE,
                   "injection", 943))
  @@ ("v5" :> Flaw("blog", <<"debug">>, Nothing, "none", "s5", "none", FALSE, "files", 22))

MCOrder == <<"v3", "v5", "v1", "v2", "v4">>

MCTaxonomy ==
  {[family |-> "injection", cwes |-> {89, 564}], [family |-> "injection", cwes |-> {943}],
   [family |-> "client", cwes |-> {79}], [family |-> "files", cwes |-> {22}]}

Row(host, method, route, planted) ==
  [host |-> host, method |-> method, route |-> route, planted |-> planted]

MCInventories ==
  ("shop" :> <<Row("www", "POST", <<"orders", "{}">>, TRUE),
               Row("www", "POST", <<"files", "{**}">>, TRUE),
               Row("static", "POST", <<"files", "a">>, FALSE),
               Row("www", "POST", <<"cart">>, FALSE),
               Row("static", "POST", <<"{**}">>, FALSE)>>)
  @@ ("blog" :> <<Row("blog", "POST", <<"{**}", "x">>, TRUE), Row("blog", "GET", <<"x">>, FALSE),
                Row("blog", "POST", <<"debug">>, TRUE)>>)

MCPublished == <<"blog", "shop">>
MCVhosts == <<"blog", "static", "www">>
MCSameLabel == {"www", "www.shop"} \X {"www", "www.shop"}

Finding(tool, host, path, param, cwes) ==
  [tool |-> tool, app |-> "none", host |-> host, method |-> "POST", path |-> path,
   param |-> param, cwes |-> cwes]

(* Right ones; ones at a flaw but not quite; ones where nothing is, on     *)
(* every kind of route; and ones that do not say where they belong.        *)
MCReports ==
  {Finding(tool, "ip1", <<"orders", "7">>, "q", {89}) : tool \in {"t", "u"}}
  \cup {Finding("t", "ip1", <<"orders", "7">>, param, cwes) :
          param \in {"none", "id"}, cwes \in {{}, {943}, {564}, {89, 693}}}
  \cup {Finding("t", "ip1", <<"orders", "7">>, "none", cwes) : cwes \in {{693}, {22}}}
  \cup {Finding("t", host, <<"files", "a">>, "none", {22}) :
          host \in {"www.shop", "static", "localhost", "elsewhere"}}
  \cup {Finding("t", "ip1", path, "none", cwes) :
          path \in {<<"cart">>, <<"login">>}, cwes \in {{}, {89}}}
  \cup {[Finding("t", "none", <<"a", "x">>, "q", {79}) EXCEPT !.app = app] :
          app \in {"blog", "none"}}
  \cup {[Finding("t", "blog", <<"x">>, "q", {79}) EXCEPT !.method = method] :
          method \in {"none", "GET"}}
  \cup {Finding("t", "blog", <<"debug">>, "none", {22})}
  \cup {Finding("t", "static", <<"files", segment>>, "none", {89}) : segment \in {"{}", "{**}"}}

Request(app, route, params, method) ==
  [type |-> "request", app |-> app, host |-> "none", method |-> method, route |-> route,
   params |-> params, synthetic |-> FALSE]

Told(name, location, value) ==
  [name |-> name, location |-> location, value |-> value, told |-> "hash"]
Cut(p) == [p EXCEPT !.told = "cut"]

Hosted(host) ==
  [Request("shop", <<"orders", "{}">>, {Told("q", "query", "default")}, "POST") EXCEPT !.host = host]

(* At the endpoint of two flaws: the one's default, whole and cut off; the *)
(* other's parameter, empty; each with a value of the tool's own while the *)
(* other has none, is elsewhere or is cut off; and both names where they   *)
(* do not belong.                                                          *)
MCParams ==
  {{Told("q", "query", "default")}, {Cut(Told("q", "query", "default"))},
   {Told("id", "raw", "empty"), Told("q", "none", "other")},
   {Told("id", "multipart", "other"), Told("q", "query", "default"), Cut(Told("q", "json", "default"))},
   {Told("id", "query", "other"), Told("q", "json", "other"), Told("sort", "query", "other")}}

MCRequests ==
  {Request("shop", <<"orders", "{}">>, params, "POST") : params \in MCParams}
  \cup {[Request("blog", <<"files", "x">>, {Told("q", "raw", value)}, "POST")
           EXCEPT !.host = "elsewhere"] : value \in {"empty", "other"}}
  \cup {Request("shop", route, {Told("q", "query", "other")}, "POST") :
          route \in {<<"orders", "7">>, <<"files", "a", "{}">>, <<Unmatched>>}}
  \cup {Request("none", route, {Told("q", "json", "other")}, "POST") :
          route \in {<<"{**}">>, <<"x">>}}
  \cup {Request("shop", <<"files", "{**}">>, {}, "HEAD")}
  \cup {Hosted(host) : host \in {"www.shop", "static", "elsewhere"}}

Signal(signal, id, synthetic, request) ==
  [type |-> "signal", app |-> "shop", signal |-> signal, id |-> id, request |-> request,
   synthetic |-> synthetic]

MCSignals ==
  {Signal(key[1], "none", FALSE, key[2]) : key \in {<<"s1", "none">>, <<"s1", "q">>, <<"odd", "q">>}}
  \cup {Signal("none", id, FALSE, "none") : id \in {"v2", "odd"}}
  \cup {Signal("s1", "none", TRUE, "q")}

MCCorrelations ==
  {[type |-> "correlation", app |-> "shop", signal |-> signal, host |-> key[1], request |-> key[2],
    synthetic |-> FALSE] :
     <<signal, key>> \in {"s1"} \X {<<"h", "none">>, <<"none", "q">>, <<"sub", "none">>}
                          \cup {<<"s3", <<"h", "none">>>>}}

Callback(nested, app, token, signal, id, host, request, weak, said, source) ==
  [type |-> "oob", nested |-> nested, app |-> app, token |-> token, signal |-> signal, id |-> id,
   host |-> host, request |-> request, weak |-> weak, said |-> said, source |-> source,
   container |-> IF source = "ip2" THEN "blog" ELSE "none", synthetic |-> FALSE]

(* What the sinkhole sends: a match, a token, a source, and nothing at     *)
(* all; and what an export of another version may hold.                    *)
MCCallbacks ==
  {Callback(TRUE, "shop", key[1], "s1", "none", "h", key[2], FALSE, "shop", "ip1") :
     key \in {<<"none", "none">>, <<"none", "q">>, <<"t1", "none">>}}
  \cup {Callback(TRUE, "edge", "t1", "none", "none", "h", "none", TRUE, "none", "ip1")}
  \cup {Callback(TRUE, "edge", "none", "none", "none", "h", "none", FALSE, said, "ip1") :
          said \in {"none", "blog"}}
  \cup {Callback(TRUE, "blog", "none", "none", "none", "h", "none", TRUE, "blog", "ip1")}
  \cup {Callback(FALSE, "edge", "none", "none", "none", key[1], key[2], FALSE, "none", "ip2") :
          key \in {<<"sub", "none">>, <<"none", "q">>}}
  \cup {Callback(FALSE, "edge", "none", "s3", "none", "h", "none", FALSE, "none", "ip2"),
         Callback(FALSE, "edge", "none", "none", "v3", "h", "none", FALSE, "none", "ip2")}

MCInputs == MCRequests \cup MCSignals \cup MCCorrelations \cup MCCallbacks

(* The scope is one target or all; a host is known, shared or neither;     *)
(* what is reported was triggered or not.                                  *)
MCBeside ==
  LET blog == [Request("blog", <<"files", "x">>, {Told("q", "raw", "other")}, "POST")
                 EXCEPT !.host = "elsewhere"]
  IN {<<>>, <<Signal("s1", "none", FALSE, "none")>>, <<Hosted("elsewhere")>>,
      <<Hosted("www.shop")>>, <<blog>>, <<blog, Hosted("elsewhere")>>}

MCAddresses == "ip1" :> "shop" @@ "shop" :> "shop" @@ "blog" :> "blog"

MCBelow == {<<"sub", "h">>}
=============================================================================
