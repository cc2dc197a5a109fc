-------------------------------- MODULE Service --------------------------------
(***************************************************************************)
(* Clients and an API service over a network: HttpClient and ApiController
   composed.

   An attempt that is sent starts an execution.  Its answer reaches the
   caller, unless the gateway answered for it or the connection broke; then
   the execution is orphaned and goes on, or is cut off.                   *)
(***************************************************************************)
EXTENDS HttpClient, ApiController, QueryFilters, ApiAdapters

CONSTANTS
  Deployments,  \* the deployments to check
  Permitted,    \* keys with the kinds of path and methods they are granted
  MaxFaults     \* number of failures

ASSUME ServiceAssumption == Lag < MaxAttempts /\ MaxFaults \in Nat

Requests ==
  [method : STRING, kind : Kinds, id : Ids \cup {0, Foreign},
   body : {"none", "malformed", "json"}, doc : Docs,
   filter : Docs \cup {"any"}, size : Nat, order : {"asc", "desc"}]

(* Of the deployments: a caller writes to documents of the table, or to one *)
(* that it created before; and a secured service is called with API keys,   *)
(* which are permitted what the configuration grants.                       *)
WritesTo(program, k) ==
  \/ program[k].id \in Ids \cup {Foreign}
  \/ program[k].id = 0 /\ \E j \in 1 .. k - 1 : program[j].method = "POST"

(* What an entry of the security configuration grants: the methods of the   *)
(* first of its rules that has the path.                                    *)
Grants(entry, r) ==
  /\ entry \in DOMAIN SecurityConfig
  /\ \E k \in DOMAIN SecurityConfig[entry] :
       /\ r.kind \in SecurityConfig[entry][k].paths
       /\ \A l \in 1 .. k - 1 : r.kind \notin SecurityConfig[entry][l].paths
       /\ \E method \in SecurityConfig[entry][k].methods : method \in {"ANY", r.method}

(* The entries that concern a key.  An inherited name that is no key of the *)
(* configuration is treated as a key without rules of its own.             *)
Entries(key) ==
  {"no-auth"} \cup (IF key \in (DOMAIN SecurityConfig \cup Inherited) \ {"no-auth", "valid-auth"}
                   THEN {"valid-auth", key} ELSE {})

ASSUME DeploymentsAssumption ==
  \A d \in Deployments :
    /\ d.backend \in {"DynamoDB", "CosmosDB", "Firestore"}
    /\ \A i \in Ids \cap DOMAIN d.documents : d.documents[i] \in Docs
    /\ \A c \in Callers : d.program[c] \in Seq(Requests)
    /\ \A c \in Callers : \A k \in DOMAIN d.program[c] :
         LET r == d.program[c][k]
         IN  /\ r.kind = "item" /\ r.method \in {"PUT", "DELETE"} => WritesTo(d.program[c], k)
             /\ d.secured =>
                  /\ AuthenticatorIn(d, c) = "McmaApiKey"
                  /\ <<d.key[c], r.kind, r.method>> \in Permitted
                       <=> \E entry \in Entries(d.key[c]) : Grants(entry, r)

VARIABLE faults

vars == <<deployment, call, credential, outcome, listing, apiVars, faults>>

TypeOK == ClientTypeOK /\ ApiTypeOK /\ faults \in 0 .. MaxFaults

Init ==
  /\ deployment \in Deployments
  /\ ClientInit
  /\ ApiInit(deployment.documents)
  /\ faults = 0

Fault == faults < MaxFaults /\ faults' = faults + 1

-----------------------------------------------------------------------------
(* Steps of the clients.                                                    *)

(* What a query that begins now has to list, unless it changes meanwhile.   *)
Due(c) ==
  LET r == Request(c, Step(c))
  IN  IF r.kind = "items" /\ r.method = "GET"
      THEN {i \in Ids : \A doc \in Visible(deployment.backend, i) : Matches(r.filter, doc)}
      ELSE {}

Begin(c) == Call(c, IF Step(c) \in DOMAIN deployment.program[c] THEN Due(c) ELSE {})
              /\ UNCHANGED <<deployment, apiVars, faults>>

FetchCredential(c) == Fetch(c) /\ UNCHANGED <<deployment, apiVars, faults>>

(* Access tokens come fresh or from a cache of the provider.                *)
FetchedLives(c) == IF Authenticator(c) = "AccessToken" THEN {1, TokenLife} ELSE {0}

Refused(c) == IF Authenticator(c) = "AWS4" THEN 403 ELSE 401

Arrived(c, found) ==
  LET x == [caller |-> c, step |-> Step(c), attempt |-> call[c].attempt, id |-> Target(c),
            token |-> listing[c].token, page |-> {}, found |-> found, orphan |-> FALSE,
            at |-> "respond", answer |-> Answer(Refused(c))]
  IN  executions' = executions \cup {IF found = "valid" THEN HandleRequest(x) ELSE x}

Send(c) ==
  /\ \/ /\ SendHeld(c)
        /\ \E found \in OnArrival(c, HeldLife(c)) : Arrived(c, found)
     \/ \E life \in FetchedLives(c) :
          /\ SendFetched(c, life)
          /\ \E found \in OnArrival(c, life) : Arrived(c, found)
  /\ UNCHANGED <<deployment, table, lagging, loaded, effects, faults>>

SigningThrows(c) == SignFails(c) /\ UNCHANGED <<deployment, apiVars, faults>>

Continue(c) == Wake(c) /\ UNCHANGED <<deployment, apiVars, faults>>

-----------------------------------------------------------------------------
(* Steps of the service and the network.                                    *)

(* A query no longer has to list what was deleted or no longer matches.     *)
Prune ==
  listing' = [c \in Callers |->
    [listing[c] EXCEPT !.due =
       {i \in @ : /\ call[c].pc \notin {"idle", "failed"}
                  /\ Matches(Request(c, Step(c)).filter, table'[i])}]]

Execute(x) ==
  /\ Handle(x)
  /\ Prune
  /\ UNCHANGED <<deployment, call, credential, outcome, faults>>

Fails(x) ==
  /\ Fault
  /\ Throws(x)
  /\ UNCHANGED <<deployment, clientVars>>

Respond(x) ==
  /\ x.at = "respond"
  /\ executions' = executions \ {x}
  /\ IF x.orphan THEN UNCHANGED clientVars ELSE Answered(x.caller, x.answer)
  /\ UNCHANGED <<deployment, table, lagging, loaded, effects, faults>>

(* The gateway answers for an execution that takes too long or crashes.     *)
GatewayFails(x) ==
  /\ Fault
  /\ ~x.orphan
  /\ \/ Replace(x, [x EXCEPT !.orphan = TRUE])
     \/ executions' = executions \ {x}
  /\ Answered(x.caller, Answer(503))
  /\ UNCHANGED <<deployment, table, lagging, loaded, effects>>

ConnectionBreaks(x) ==
  /\ Fault
  /\ ~x.orphan
  /\ Replace(x, [x EXCEPT !.orphan = TRUE])
  /\ Disconnect(x.caller)
  /\ UNCHANGED <<deployment, table, lagging, loaded, effects>>

(* The provider of a credential does not answer, or with an error.          *)
FetchFails(c) ==
  /\ Fault
  /\ \E status \in {0, 404, 503} : ProviderFails(c, status)
  /\ UNCHANGED <<deployment, apiVars>>

Tick ==
  /\ \/ \E c \in Callers : call[c].wait > 0
     \/ credential["AccessToken"].life > 0
     \/ \E i \in Ids : lagging[i] # {}
  /\ ClientAge /\ TableAge
  /\ UNCHANGED <<deployment, table, executions, loaded, effects, faults>>

AllEnded == (\A c \in Callers : Ended(c)) /\ executions = {}

Done == AllEnded /\ UNCHANGED vars

CallerStep(c) ==
  Begin(c) \/ FetchCredential(c) \/ Send(c) \/ SigningThrows(c) \/ Continue(c)

ServiceStep == \E x \in executions : Execute(x) \/ Respond(x)

Failure ==
  \/ \E x \in executions : Fails(x) \/ GatewayFails(x) \/ ConnectionBreaks(x)
  \/ \E c \in Callers : FetchFails(c)

Ongoing == (\E c \in Callers : CallerStep(c)) \/ ServiceStep \/ Tick

Next == Ongoing \/ Failure \/ Done

Spec == Init /\ [][Next]_vars

(* The event loops go on as long as anything can be done, and time passes.  *)
(* Failures are not fair.                                                   *)
FairSpec == Spec /\ WF_vars(Ongoing)

-----------------------------------------------------------------------------
(* What a caller created by POST is found by its later GET, PUT and DELETE, *)
(* although reads are eventually consistent: the retries of HttpClient on   *)
(* 404 outlast the lag, unless the resource was deleted.                    *)
CreatedFound ==
  \A c \in Callers : \A k \in DOMAIN outcome[c] :
    /\ outcome[c][k].status = 404 /\ Request(c, k).kind = "item"
    /\ \E j \in 1 .. k - 1 : outcome[c][j].status = 201 /\ Request(c, k).id = 0
    => \E e \in effects : e.id = TargetOf(c, k, outcome[c]) /\ e.doc = NoDoc

(* No attempt is sent with a credential that is not good at that moment:    *)
(* expired tokens are replaced before every attempt, by whichever caller    *)
(* comes first, and a repeated request is signed anew.                      *)
SignedAnew == \A x \in executions : x.found # "invalid"

(* The middleware refuses exactly the requests for which the configuration  *)
(* grants the key nothing, also while the first requests load the           *)
(* configuration or fail to.                                                *)
AccessExact ==
  deployment.secured =>
    \A x \in executions :
      LET permitted == <<ApiKey(x.caller), Of(x).kind, Of(x).method>> \in Permitted
      IN  /\ x.answer.status \in {401, 403} /\ x.at = "respond" => ~permitted
          /\ x.at # "secret" /\ x.answer.status \in {200, 201, 400, 404, 405} => permitted
          /\ x.at \notin {"secret", "respond"} => permitted

(* A caller that turns the pages of a query to the end has got every        *)
(* document that matched the filter throughout.  Over Firestore only a query*)
(* of one page comes to an end.                                             *)
PagesComplete ==
  [][\A c \in Callers :
       /\ Len(outcome'[c]) > Len(outcome[c])
       /\ outcome'[c][Step(c)].status = 200
       => listing[c].due \subseteq listing'[c].got]_vars

(* No page repeats a document of an earlier page of the query.              *)
PagesOnce == \A c \in Callers : listing[c].twice = {}

(* Every call ends, with an answer or an error.                             *)
CallsEnd == <>(\A c \in Callers : Ended(c))

(* The resources of the service are a store: ResourceStore.                 *)
Store == INSTANCE ResourceStore WITH docs <- table, answers <- outcome
StoreSpec == Store!StoreSpec

-----------------------------------------------------------------------------
(* Functions without a state, of an input that the deployment gives: filters,*)
(* and events of a cloud function as its platform hands them over (a stage   *)
(* has a name in REST APIs, and only some methods have a body).              *)
IsEvent(e) ==
  /\ e.method \in STRING /\ e.path \in Seq(STRING)
  /\ \A n \in DOMAIN e.query : e.query[n] \in Seq(STRING) \ {<<>>}
  /\ e.body \in {"", "text", "json", "dated"}
  /\ e.body = "" \/ e.method \in {"POST", "PUT", "PATCH"}
Apis == {api \in [version : {1, 2}, includeStageInPath : BOOLEAN, stage : Seq(STRING)] :
           api.version = 2 \/ api.stage # DefaultStage}

ASSUME SamplesAssumption ==
  \A d \in Deployments :
    LET s == d.sample
    IN  /\ s.of = "filter" => s.filter \in FilterExpressions
        /\ s.of = "pairs" =>
             /\ s.names \in Seq(STRING)
             /\ \A k \in DOMAIN s.names : s.values[s.names[k]] \in Int
        /\ s.of = "event" =>
             /\ IsEvent(s.event) /\ s.api \in Apis /\ s.routePrefix \in Seq(STRING)
             /\ s.empty \in {Missing, Some("{}")}

(* A query that is answered has the documents that satisfy its filter, over *)
(* every database; the filters that the query route builds from the query   *)
(* string are answered by all of them.                                      *)
FiltersAgree ==
  LET s == deployment.sample
  IN  /\ s.of = "filter" => AllAgree(s.docs, s.filter)
      /\ s.of = "pairs" =>
           LET filter == getFilterExpressionFromKeyValuePairs(s.names, s.values)
           IN  AllAgree(s.docs, filter) /\ NoneFails(s.docs, filter)

(* The same call is the same request to the controller on every platform,   *)
(* whatever the stage and the route prefix: an API with includeStageInPath   *)
(* sees the stage, and Azure Functions handle a call exactly if the route    *)
(* prefix neither ends with a slash nor begins with two.  It is the same but *)
(* for parameters that are repeated, bodies that are empty and dates in      *)
(* bodies, which the platforms make different things of.                     *)
SameCall(event, a, b) ==
  /\ a.method = b.method /\ a.path = b.path
  /\ DOMAIN a.query = DOMAIN b.query
  /\ \A n \in DOMAIN a.query : Len(event.query[n]) = 1 => a.query[n] = b.query[n]
  /\ event.body \notin {"", "dated"} => a.body = b.body

ProperPrefix(p) ==
  p # <<>> => Last(p) # "/" /\ ~(Len(p) > 1 /\ p[1] = "/" /\ p[2] = "/")

RequestsAgree ==
  LET s == deployment.sample
      gateway == Parsed(ApiGatewayRequest(s.api, s.event))
      azure   == Parsed(AzureRequest(s.routePrefix, s.event))
      google  == Parsed(GoogleRequest(s.event, s.empty))
  IN  s.of = "event" =>
        /\ SameCall(s.event, gateway,
                    [google EXCEPT !.path =
                       IF s.api.includeStageInPath /\ s.api.stage # DefaultStage
                       THEN Slash \o s.api.stage \o @ ELSE @])
        /\ azure.error <=> ~ProperPrefix(s.routePrefix)
        /\ ~azure.error => SameCall(s.event, azure, google)
=============================================================================
