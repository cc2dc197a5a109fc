------------------------------ MODULE ApiAdapters ------------------------------
(***************************************************************************)
(* From the event of a cloud function to the request that the controller
   handles (ApiGatewayApiController, AzureFunctionApiController,
   HttpFunctionApiController).

   An event is what its caller sent: [method, path, query, body], the path
   without stage and prefix.  Paths are sequences of characters.  The query
   has per parameter the sequence of values it is given, once or repeatedly;
   the value of a parameter of a request is a text, here the sequence of
   pieces that commas separate, so that <<v, w>> stands for "v,w".  A body is
   empty, a text, or JSON, "dated" if it has dates.                         *)
(***************************************************************************)
EXTENDS Integers, Sequences, SequencesExt

Slash == <<"/">>
DefaultStage == <<"$default">>

(* What an adapter hands on: nothing (null, undefined), or a value.         *)
Missing == {}
Some(v) == {v}
OrElse(value, default) == IF value = Missing THEN default ELSE CHOOSE v \in value : TRUE

NoParameters == [n \in {} |-> <<>>]

(* McmaApiRequest: what is missing becomes empty.                           *)
McmaApiRequest(method, path, query, body) ==
  [error |-> FALSE, method |-> method, path |-> path,
   query |-> OrElse(query, NoParameters), body |-> OrElse(body, "null")]

Unhandled == [error |-> TRUE, method |-> "", path |-> <<>>, query |-> NoParameters, body |-> ""]

(* A JSON body that is a text is parsed by the controller, with its dates   *)
(* made dates again; another one is left as it is.                          *)
Parsed(request) ==
  [request EXCEPT !.body = CASE @ = "json"  -> "object"
                             [] @ = "dated" -> "object with dates"
                             [] OTHER       -> @]

(* A repeated parameter: entries that overwrite each other, or values that  *)
(* are joined by commas.                                                    *)
LastOnes(query) == [n \in DOMAIN query |-> <<Last(query[n])>>]
Joined(query) == [n \in DOMAIN query |-> query[n]]

(* substring of JavaScript.                                                 *)
Substring_OffByOne(path, n) == SubSeq(path, n + 2, Len(path))
Substring(path, n) == SubSeq(path, n + 1, Len(path))

(* API Gateway: the events of REST APIs (version 1) have the path both with *)
(* and without the stage and the last values of parameters, those of HTTP   *)
(* APIs the path with the stage, unless it is the default stage, and values *)
(* joined by commas.  Without a parameter or body there is no such field.   *)
GatewayPath(api, path) ==
  IF api.version = 2 /\ api.stage = DefaultStage THEN path ELSE Slash \o api.stage \o path

GatewayQuery(api, query) ==
  IF DOMAIN query = {} THEN Missing
  ELSE Some(IF api.version = 1 THEN LastOnes(query) ELSE Joined(query))

ApiGatewayRequest(api, event) ==
  LET inUrl == GatewayPath(api, event.path)
      path  == CASE api.version = 1 ->
                      IF api.includeStageInPath THEN inUrl ELSE event.path
                 [] api.version = 2 ->
                      IF api.includeStageInPath \/ api.stage = DefaultStage THEN inUrl
                      ELSE Substring(inUrl, Len(api.stage) + 1)
  IN  McmaApiRequest(event.method, path, GatewayQuery(api, event.query),
                     IF event.body = "" THEN Missing ELSE Some(event.body))

(* Azure Functions: the route prefix of host.json, which the host itself    *)
(* takes without slashes around it.  subtr is not a function of strings.    *)
Trim(path) ==
  LET kept == {k \in DOMAIN path : path[k] # "/"}
  IN  IF kept = {} THEN <<>>
      ELSE SubSeq(path, CHOOSE k \in kept : \A j \in kept : k <= j,
                        CHOOSE k \in kept : \A j \in kept : j <= k)

Mounted(routePrefix, path) ==
  IF Trim(routePrefix) = <<>> THEN path ELSE Slash \o Trim(routePrefix) \o path

AzureRequest(routePrefix, event) ==
  LET prefix   == IF routePrefix = <<>> \/ routePrefix[1] = "/" THEN routePrefix
                  ELSE Slash \o routePrefix
      pathname == Mounted(routePrefix, event.path)
      hasBody  == event.method \in {"POST", "PUT", "PATCH"}
  IN  IF prefix # <<>> /\ Last(prefix) = "/" THEN Unhandled
      ELSE IF ~IsPrefix(prefix, pathname) THEN Unhandled
      ELSE McmaApiRequest(event.method, Substring(pathname, Len(prefix)),
                          Some(LastOnes(event.query)),
                          IF hasBody THEN Some(event.body) ELSE Missing)

(* Google Cloud: asStringMap joins the array that express makes of a        *)
(* repeated parameter.  Express has parsed a JSON body, without making dates*)
(* of its strings; what it leaves for an empty one depends on its version.  *)
Express(body, empty) ==
  CASE body = ""      -> empty
    [] body = "json"  -> Some("object")
    [] body = "dated" -> Some("object with strings")
    [] OTHER          -> Some(body)

GoogleRequest(event, empty) ==
  McmaApiRequest(event.method, event.path, Some(Joined(event.query)), Express(event.body, empty))
=============================================================================
