----------------------------- MODULE ApiController -----------------------------
(***************************************************************************)
(* An API service: the controller with its middleware, and the default routes
   of a collection of resources over a table (McmaApiController,
   McmaApiKeySecurityMiddleware, DefaultQueryRoute, DefaultCreateRoute,
   DefaultGetRoute, DefaultUpdateRoute, DefaultDeleteRoute).

   A request has a method, a kind of path ("items" is the collection, "item"
   a resource in it), an identifier, a body ("none", "malformed" or "json"),
   its content, and for queries a filter, page size and sort order.  Each
   request that arrives has an execution of its own; executions interleave at
   the awaits, which "at" names.                                           *)
(***************************************************************************)
EXTENDS DocumentTable, Deployment

CONSTANTS
  SecurityConfig,  \* per API key, "no-auth" and "valid-auth": the rules in order
  Inherited        \* names of the properties that every JavaScript object inherits

Kinds == {"items", "item", "other"}

ASSUME ConfigAssumption ==
  /\ \A entry \in DOMAIN SecurityConfig :
       SecurityConfig[entry] \in Seq([paths : SUBSET Kinds, methods : SUBSET STRING])
  /\ "none" \notin DOMAIN SecurityConfig
  /\ Inherited \cap {"none", "no-auth", "valid-auth"} = {}

VARIABLES
  executions,  \* the requests in process, and their answers until they are sent
  loaded,      \* the middleware holds the security configuration
  effects      \* history: the writes, with the request that each belongs to

apiVars == <<table, lagging, executions, loaded, effects>>

Awaits == {"secret", "create", "completed", "update", "get", "delete-get", "delete",
           "query", "next"}

ApiTypeOK ==
  /\ TableTypeOK
  /\ \A x \in executions :
       /\ x.caller \in Callers
       /\ x.id \in Ids \cup {0}
       /\ x.at \in Awaits \cup {"respond"}
  /\ loaded \in BOOLEAN

ApiInit(documents) ==
  /\ TableInit(documents)
  /\ executions = {}
  /\ loaded = FALSE
  /\ effects = {}

Of(x) == Request(x.caller, x.step)
Answer(status) == [status |-> status, id |-> 0, results |-> {}, token |-> 0]
Responding(x, answer) == [x EXCEPT !.at = "respond", !.answer = answer]
Replace(x, y) == executions' = (executions \ {x}) \cup {y}

-----------------------------------------------------------------------------
(* Routing.                                                                 *)

Routes == {<<"items", "GET">>, <<"items", "POST">>,
           <<"item", "GET">>, <<"item", "PUT">>, <<"item", "DELETE">>}

Handler(kind, method) ==
  CASE method = "POST"                    -> "create"
    [] method = "PUT"                     -> "update"
    [] method = "DELETE"                  -> "delete-get"
    [] method = "GET" /\ kind = "item"    -> "get"
    [] method = "GET" /\ kind = "items"   -> "query"

(* The first await of the handler, or the answer if it has none.            *)
Process(x) ==
  LET r       == Of(x)
      matched == {route \in Routes : route[1] = r.kind}
  IN  CASE r.body = "malformed" -> Responding(x, Answer(400))
        [] r.body # "malformed" /\ matched = {} -> Responding(x, Answer(404))
        [] r.body # "malformed" /\ matched # {} /\ <<r.kind, r.method>> \notin matched ->
             Responding(x, Answer(IF r.method = "OPTIONS" THEN 200 ELSE 405))
        [] r.body = "none" /\ <<r.kind, r.method>> \in matched /\ r.method \in {"POST", "PUT"} ->
             Responding(x, Answer(400))
        [] OTHER -> [x EXCEPT !.at = Handler(r.kind, r.method)]

(* The loop over the rules of an entry: the first one that matches the path *)
(* decides.  What is inherited has no rules.                                *)
ConfigAllowsAccess(entry, r) ==
  LET rules == IF entry \in DOMAIN SecurityConfig THEN SecurityConfig[entry] ELSE <<>>
      loop[left \in 0 .. Len(rules)] ==
        IF left = 0 THEN FALSE
        ELSE LET rule == rules[Len(rules) - left + 1]
             IN  IF r.kind \in rule.paths THEN rule.methods \cap {"ANY", r.method} # {}
                 ELSE loop[left - 1]
  IN  loop[Len(rules)]

(* The lookup of a key in the parsed configuration also finds what every    *)
(* object inherits; no key at all is "none".                                *)
KnownKey(key) ==
  /\ key \notin {"none", "no-auth", "valid-auth"}
  /\ key \in DOMAIN SecurityConfig \cup Inherited

Secured(x) ==
  LET key == ApiKey(x.caller)
  IN  IF ConfigAllowsAccess("no-auth", Of(x)) THEN Process(x)
      ELSE IF ~KnownKey(key) THEN Responding(x, Answer(401))
      ELSE IF ConfigAllowsAccess("valid-auth", Of(x)) \/ ConfigAllowsAccess(key, Of(x))
      THEN Process(x)
      ELSE Responding(x, Answer(403))

(* The pipeline up to its first await.                                      *)
HandleRequest(x) ==
  IF ~deployment.secured THEN Process(x)
  ELSE IF loaded THEN Secured(x)
  ELSE [x EXCEPT !.at = "secret"]

LoadSecurity(x) ==
  /\ x.at = "secret"
  /\ loaded' = TRUE
  /\ Replace(x, Secured(x))
  /\ UNCHANGED <<table, lagging, effects>>

(* What an await throws ends in an internal server error.                   *)
Throws_FailOpen(x) ==
  /\ x.at \in Awaits
  /\ Replace(x, IF x.at = "secret" THEN Process(x) ELSE Responding(x, Answer(500)))
  /\ UNCHANGED <<table, lagging, loaded, effects>>

Throws(x) ==
  /\ x.at \in Awaits
  /\ Replace(x, Responding(x, Answer(500)))
  /\ UNCHANGED <<table, lagging, loaded, effects>>

-----------------------------------------------------------------------------
(* The default routes.                                                      *)

Effect(x, id, doc) ==
  effects' = effects \cup {[caller |-> x.caller, step |-> x.step, id |-> id, doc |-> doc]}

(* A new UUID.                                                              *)
Fresh(i) ==
  /\ table[i] = NoDoc
  /\ \A e \in effects : e.id # i
  /\ \A c \in Callers : \A k \in DOMAIN deployment.program[c] : Request(c, k).id # i

Created(x, i) == Responding(x, [Answer(201) EXCEPT !.id = i])

(* onCompleted runs after the put; when it throws the resource stays.       *)
CreatePut_Unawaited(x) ==
  /\ x.at = "create"
  /\ \E i \in Ids : Fresh(i) /\ Replace(x, Created(x, i))
  /\ UNCHANGED <<table, lagging, loaded, effects>>

CreatePut(x) ==
  /\ x.at = "create"
  /\ \E i \in Ids :
       /\ Fresh(i)
       /\ Write(i, Of(x).doc)
       /\ Effect(x, i, Of(x).doc)
       /\ Replace(x, IF deployment.hook THEN [x EXCEPT !.at = "completed", !.id = i]
                     ELSE Created(x, i))
  /\ UNCHANGED loaded

CreateCompleted(x) ==
  /\ x.at = "completed"
  /\ Replace(x, Created(x, x.id))
  /\ UNCHANGED <<table, lagging, loaded, effects>>

UpdatePut(x) ==
  /\ x.at = "update"
  /\ Write(x.id, Of(x).doc)
  /\ Effect(x, x.id, Of(x).doc)
  /\ Replace(x, Responding(x, Answer(200)))
  /\ UNCHANGED loaded

GetRead(x) ==
  /\ x.at = "get"
  /\ \E doc \in Visible(deployment.backend, x.id) :
       Replace(x, Responding(x, Answer(IF doc = NoDoc THEN 404 ELSE 200)))
  /\ UNCHANGED <<table, lagging, loaded, effects>>

DeleteRead(x) ==
  /\ x.at = "delete-get"
  /\ \E doc \in Visible(deployment.backend, x.id) :
       Replace(x, IF doc = NoDoc THEN Responding(x, Answer(404))
                  ELSE [x EXCEPT !.at = "delete"])
  /\ UNCHANGED <<table, lagging, loaded, effects>>

DeleteDelete(x) ==
  /\ x.at = "delete"
  /\ ~DeleteThrows(deployment.backend, x.id)
  /\ Write(x.id, NoDoc)
  /\ Effect(x, x.id, NoDoc)
  /\ Replace(x, Responding(x, Answer(200)))
  /\ UNCHANGED loaded

DeleteMissing(x) ==
  /\ x.at = "delete"
  /\ DeleteThrows(deployment.backend, x.id)
  /\ Replace(x, Responding(x, Answer(500)))
  /\ UNCHANGED <<table, lagging, loaded, effects>>

(* What a query may see: of each document a value that its read may return. *)
Views == {view \in [Ids -> Docs \cup {NoDoc}] :
            \A i \in Ids : view[i] \in Visible(deployment.backend, i)}

Found(x, page) ==
  Responding(x, [Answer(200) EXCEPT !.results = page.results, !.token = page.token])

QueryRead(x) ==
  /\ x.at = "query"
  /\ \E view \in Views :
       Replace(x, CASE deployment.backend = "DynamoDB" ->
                         Found(x, DynamoDbQuery(view, Of(x), x.token))
                    [] deployment.backend = "CosmosDB" ->
                         Found(x, CosmosDbQuery(view, Of(x)))
                    [] deployment.backend = "Firestore" /\ FirestoreThrows(x.token) ->
                         Responding(x, Answer(500))
                    [] deployment.backend = "Firestore" /\ ~FirestoreThrows(x.token) ->
                         [x EXCEPT !.at = "next", !.page = FirestoreQuery(view, Of(x))])
  /\ UNCHANGED <<table, lagging, loaded, effects>>

(* Firestore: a second query asks for a document after the page.            *)
QueryNext(x) ==
  /\ x.at = "next"
  /\ Replace(x, Found(x, [results |-> x.page,
                          token   |-> NextPageStartToken(table, Of(x), x.page)]))
  /\ UNCHANGED <<table, lagging, loaded, effects>>

Handle(x) ==
  \/ LoadSecurity(x)
  \/ CreatePut(x) \/ CreateCompleted(x) \/ UpdatePut(x) \/ GetRead(x)
  \/ DeleteRead(x) \/ DeleteDelete(x) \/ DeleteMissing(x)
  \/ QueryRead(x) \/ QueryNext(x)
=============================================================================
