------------------------------- MODULE MCService -------------------------------
(* Instances of Service for TLC.                                           *)
EXTENDS Service, TLC

CONSTANTS c1, c2, outside

MCCallers == {c1, c2}

(* Rules with paths of both kinds, of which the first that matches decides: *)
(* a writer may do anything to the collection, but not delete an item.      *)
Rule(paths, methods) == [paths |-> paths, methods |-> methods]
MCSecurityConfig ==
     "no-auth"    :> <<Rule({"items"}, {"OPTIONS"})>>
  @@ "valid-auth" :> <<Rule({"items"}, {"GET"}), Rule({"items"}, {"ANY"})>>
  @@ "reader"     :> <<Rule({"item"}, {"GET"})>>
  @@ "writer"     :> <<Rule({"item"}, {"GET", "PUT"}), Rule({"items", "item"}, {"ANY"})>>

Keys == {"none", "unknown", "inherited", "valid-auth", "reader", "writer"}

(* What these rules grant, written out.                                     *)
MCPermitted ==
  (Keys \X {"items"} \X {"OPTIONS"})
  \cup ({"inherited", "reader", "writer"} \X {"items"} \X {"GET"})
  \cup ({"reader", "writer"} \X {"item"} \X {"GET"})
  \cup ({"writer"} \X {"items"} \X {"GET", "POST", "PUT", "DELETE"})
  \cup {<<"writer", "item", "PUT">>}

-----------------------------------------------------------------------------
Plain(method, kind, id) ==
  [method |-> method, kind |-> kind, id |-> id, body |-> "none", doc |-> "a",
   filter |-> "any", size |-> 0, order |-> "asc"]
WithBody(method, kind, id, doc) == [Plain(method, kind, id) EXCEPT !.body = "json", !.doc = doc]

Get(id) == Plain("GET", "item", id)
Delete(id) == Plain("DELETE", "item", id)
Put(id, doc) == WithBody("PUT", "item", id, doc)
Post(doc) == WithBody("POST", "items", 0, doc)
List(filter, size, order) ==
  [Plain("GET", "items", 0) EXCEPT !.filter = filter, !.size = size, !.order = order]

(* An unsecured service over DynamoDB with documents 1 to 3.                *)
Base(program1, program2) ==
  [backend |-> "DynamoDB", secured |-> FALSE, hook |-> FALSE,
   endpoint |-> [c \in MCCallers |-> ""], service |-> [c \in MCCallers |-> "none"],
   tracked |-> [c \in MCCallers |-> FALSE], key |-> c1 :> "writer" @@ c2 :> "reader",
   program |-> c1 :> program1 @@ c2 :> program2, documents |-> <<"a", "b", "a">>, sample |-> [of |-> "nothing"]]

WithAuth(d, type) == [d EXCEPT !.service = [c \in MCCallers |-> type]]
WithKeys(d, keys) == [WithAuth(d, "McmaApiKey") EXCEPT !.secured = TRUE, !.key = keys]

(* Writes followed by reads, with API keys, and with tokens.                *)
CreateThenRead == Base(<<Post("a"), Get(0)>>, <<List("any", 0, "asc")>>)
Secured1 == WithKeys(CreateThenRead, c1 :> "writer" @@ c2 :> "reader")
Tokens   == [Base(<<Get(1), Get(2)>>, <<Get(3), Get(1)>>) EXCEPT
               !.endpoint = [c \in MCCallers |-> "AccessToken"],
               !.tracked = c1 :> TRUE @@ c2 :> FALSE]
Hooked   == [Base(<<Post("b"), Delete(0)>>, <<>>) EXCEPT !.hook = TRUE]
Signed4  == WithAuth(Base(<<Put(1, "b"), Delete(1)>>, <<Get(1)>>), "AWS4")

(* A query page by page while documents come, change and go.                *)
PagesDynamo == Base(<<List("a", 1, "desc")>>, <<Delete(3), Post("a")>>)
PagesFirestore ==
  [Base(<<List("a", 2, "asc")>>, <<Delete(3), Post("a")>>) EXCEPT
     !.backend = "Firestore"]
PagesCosmos == [Base(<<List("a", 1, "desc")>>, <<Delete(2), Get(2)>>) EXCEPT !.backend = "CosmosDB"]
DeleteTwice == [Base(<<Delete(1)>>, <<Delete(1)>>) EXCEPT !.backend = "CosmosDB"]

(* Requests that are refused: by the controller, by the middleware, and by  *)
(* the client itself.                                                       *)
Refusals ==
  LET Alone(r) == Base(<<r>>, <<>>)
      WithKey(key, r, s) == WithKeys(Base(<<r>>, <<s>>), c1 :> key @@ c2 :> "writer")
  IN  {Alone(Plain("GET", "other", 0)), Alone(Plain("PATCH", "item", 1)),
        Alone(Plain("OPTIONS", "item", 1)), Alone(Plain("POST", "items", 0)),
        Alone(Plain("PUT", "item", 1)), Alone([Post("a") EXCEPT !.body = "malformed"]),
        Alone(Get(outside)),
        WithKey("unknown", Get(1), Delete(1)),
        WithKey("unknown", Plain("OPTIONS", "items", 0), Plain("DELETE", "items", 0)),
        WithKey("valid-auth", Get(1), Delete(1)),
        WithKey("inherited", List("any", 0, "asc"), Delete(1)), WithKey("inherited", Get(1), Delete(1)),
        WithKey("reader", Get(1), Plain("OPTIONS", "items", 0)),
        WithKey("reader", Delete(1), Put(1, "b")),
        [WithAuth(Base(<<Get(1)>>, <<Get(1)>>), "FunctionKey") EXCEPT
           !.tracked = c1 :> TRUE @@ c2 :> FALSE]}

(* A request with a tracker, which makes the client copy the headers.       *)
Resigned == {[Signed4 EXCEPT !.tracked = [c \in MCCallers |-> TRUE]]}

-----------------------------------------------------------------------------
(* Inputs of functions without a state, in deployments without callers.     *)
Sampling(samples) == {[Base(<<>>, <<>>) EXCEPT !.sample = sample] : sample \in samples}

(* Filters: criteria on two properties, groups of up to two criteria, and   *)
(* groups of up to two of these; documents with and without a property.     *)
Criterion(name, operator, value) ==
  [propertyName |-> name, operator |-> operator, propertyValue |-> value]
Criteria == {Criterion(name, operator, 1) :
               name \in {"p", "q"}, operator \in {"=", "!=", "<", "<=", ">", ">="}}
Groups(S) == [logicalOperator : {"&&", "||"}, children : UNION {[1 .. n -> S] : n \in 0 .. 2}]
Nested == Groups({Criterion("p", "=", 1), Criterion("q", ">=", 2), Criterion("q", "!=", 1)})
QueryStrings == UNION {[names -> 0 .. 2] : names \in SUBSET {"p", "q"}}
FilterSamples ==
  [of : {"filter"}, docs : {QueryStrings},
   filter : Criteria \cup Groups(Criteria) \cup Groups(Nested)]
  \cup {s \in [of : {"pairs"}, docs : {QueryStrings},
               names : {<<>>, <<"p">>, <<"p", "q">>}, values : QueryStrings] :
          {s.names[k] : k \in DOMAIN s.names} = DOMAIN s.values}

(* Events without a body or with one, with parameters given once or twice,   *)
(* and what the functions are mounted on.                                    *)
EventSamples ==
  {s \in [of : {"event"},
          event : [method : {"GET", "POST"}, body : {"", "text", "json", "dated"},
                   query : {NoParameters, "n" :> <<"v">> @@ "m" :> <<"v", "w">>},
                   path : {<<"/", "a">>, <<"/", "a", "/", "s", "/">>}],
          api : [version : {1, 2}, includeStageInPath : BOOLEAN,
                 stage : {<<"s">>, <<"s", "a">>, DefaultStage}],
          routePrefix : {<<>>, <<"/">>, <<"s">>, <<"/", "s">>, <<"/", "/", "s">>, <<"s", "/">>,
                         <<"s", "/", "a">>},
          empty : {Missing, Some("{}")}] :
     IsEvent(s.event) /\ s.api \in Apis /\ (s.event.body # "" => s.empty = Missing)}

-----------------------------------------------------------------------------
MCDeployments ==
  {Secured1, Tokens, Hooked, Signed4, PagesDynamo, PagesFirestore, PagesCosmos, DeleteTwice}
  \cup Refusals \cup Sampling(FilterSamples \cup EventSamples)
=============================================================================
