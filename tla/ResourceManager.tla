---------------------------- MODULE ResourceManager ----------------------------
(***************************************************************************)
(* ResourceManager (base/client) discovers the services of an MCMA system  *)
(* at the service registry, lazily or by an explicit init(), and sends     *)
(* requests to their resource endpoints.  One object is shared by calls    *)
(* that overlap: they run on one event loop, so that everything between    *)
(* two awaits is one step, and they share the list serviceClients, which   *)
(* init() empties and fills in place while others iterate over it.         *)
(*                                                                         *)
(* What a resource endpoint answers does not matter, only that it is asked.*)
(* get, update, delete, sendNotification and getHttpClient choose a client *)
(* for a URL alike: they are the operation "locate".                       *)
(***************************************************************************)
EXTENDS Naturals, SequencesExt

CONSTANTS
  Callers,      \* calls that may overlap
  Types,        \* resource types
  Services,     \* services, the registry among them
  Registry,     \* the service registry
  Registered,   \* the list of services that the registry answers with
  Malformed,    \* services of it of which no client can be made
  ResourcesOf,  \* the resources of each service: a sequence of records of a
                \* resourceType and an httpEndpoint, a path of segments
  Urls,         \* URLs of resources, as paths of segments
  MaxFailures   \* bound on failing requests

ASSUME ConstantsAssumption ==
  /\ IsFiniteSet(Callers) /\ Callers # {} /\ Types # {} /\ Urls # {}
  /\ Registry \in Services
  /\ Registered \in Seq(Services)
  /\ Malformed \subseteq Services \ {Registry}
  /\ \A s \in Services :
       /\ ResourcesOf[s] \in Seq([resourceType : Types, httpEndpoint : Seq(STRING)])
       /\ \A i, j \in DOMAIN ResourcesOf[s] :
            ResourcesOf[s][i].resourceType = ResourcesOf[s][j].resourceType => i = j
  /\ MaxFailures \in Nat

VARIABLES
  serviceClients,  \* the services known, in order
  pc,              \* the await at which each call is, or "idle" or "done"
  op,              \* the operation of each call
  type,            \* the resource type of a query or create
  url,             \* the URL of a locate
  index,           \* position of a query in serviceClients
  usedEndpoints,   \* usedHttpEndpoints of a query, as a set
  results,         \* endpoints whose resources are in the results, in order
  outcome,         \* what each call came to
  client,          \* the endpoint a query awaits, or that a locate chose
  whole,           \* every registered service was known when the call used
                   \* the list, and no init() of another call began since
  failures         \* failed requests so far

vars == <<serviceClients, pc, op, type, url, index, usedEndpoints, results,
          outcome, client, whole, failures>>

args == <<op, type, url>>
queryVars == <<index, usedEndpoints, results, client>>

Operations == {"init", "query", "create", "locate"}
Endpoints == UNION {{r.httpEndpoint : r \in ToSet(ResourcesOf[s])} : s \in Services}
NoClient == <<>>  \* no endpoint matches: the http client of the registry

(* A list that overlapping init() calls have filled is no longer than this.*)
MaxClients == 1 + Cardinality(Callers) * Len(Registered)

TypeOK ==
  /\ serviceClients \in Seq(Services) /\ Len(serviceClients) <= MaxClients
  /\ serviceClients # <<>> => Head(serviceClients) = Registry
  /\ pc \in [Callers -> {"idle", "services", "ready", "endpoint", "post", "done"}]
  /\ op \in [Callers -> Operations]
  /\ type \in [Callers -> Types] /\ url \in [Callers -> Urls]
  /\ index \in [Callers -> 0 .. MaxClients]
  /\ usedEndpoints \in [Callers -> SUBSET Endpoints]
  /\ results \in [Callers -> Seq(Endpoints)]
  /\ outcome \in [Callers -> {"none", "ok", "error", "noService"}]
  /\ client \in [Callers -> Endpoints \cup {NoClient}]
  /\ whole \in [Callers -> BOOLEAN]
  /\ failures \in 0 .. MaxFailures

Init ==
  /\ serviceClients = <<>>
  /\ pc = [c \in Callers |-> "idle"]
  /\ op = [c \in Callers |-> "init"]
  /\ type = [c \in Callers |-> CHOOSE t \in Types : TRUE]
  /\ url = [c \in Callers |-> CHOOSE u \in Urls : TRUE]
  /\ index = [c \in Callers |-> 0]
  /\ usedEndpoints = [c \in Callers |-> {}]
  /\ results = [c \in Callers |-> <<>>]
  /\ outcome = [c \in Callers |-> "none"]
  /\ client = [c \in Callers |-> NoClient]
  /\ whole = [c \in Callers |-> FALSE]
  /\ failures = 0

-----------------------------------------------------------------------------
(* ServiceClient: the endpoints of a service, and the one of a type.       *)

EndpointOf(s, t) ==
  {r.httpEndpoint : r \in {r \in ToSet(ResourcesOf[s]) : r.resourceType = t}}

(* An endpoint serves the URLs below it: "/media/1", not "/media-old".     *)
Serves(e, u) == IsPrefix(e, u)

Serving(s, u) == {j \in DOMAIN ResourcesOf[s] : Serves(ResourcesOf[s][j].httpEndpoint, u)}

(* getResourceEndpointClient: the first endpoint that serves the URL.      *)
Locate(u) ==
  LET hits == {i \in DOMAIN serviceClients : Serving(serviceClients[i], u) # {}}
      s    == serviceClients[Min(hits)]
  IN  IF hits = {} THEN NoClient ELSE ResourcesOf[s][Min(Serving(s, u))].httpEndpoint

(* The services that calls can use, and a list that has what init() adds.  *)
Usable == (ToSet(Registered) \ Malformed) \cup {Registry}

KnowsAll(clients) == ToSet(Registered) \ Malformed \subseteq ToSet(clients)

Finish(c, result) ==
  /\ pc' = [pc EXCEPT ![c] = "done"]
  /\ outcome' = [outcome EXCEPT ![c] = result]

Fail == failures < MaxFailures /\ failures' = failures + 1

-----------------------------------------------------------------------------
(* The loop of query() over the live list goes on after position i: it     *)
(* skips services without an endpoint of the type and endpoints it has     *)
(* used, awaits the next other one, and ends behind the last service.      *)
ToAsk_Again(t, used) ==
  {i \in DOMAIN serviceClients : EndpointOf(serviceClients[i], t) # {}}
ToAsk(t, used) ==
  {i \in DOMAIN serviceClients : ~ EndpointOf(serviceClients[i], t) \subseteq used}

Advance(c, t, i, used, error) ==
  LET later == {j \in ToAsk(t, used) : j > i}
      next  == Min(later)
  IN  IF later # {}
      THEN /\ index' = [index EXCEPT ![c] = next]
           /\ \E e \in EndpointOf(serviceClients[next], t) :
                client' = [client EXCEPT ![c] = e]
           /\ pc' = [pc EXCEPT ![c] = "endpoint"]
           /\ outcome' = [outcome EXCEPT ![c] = error]
      ELSE /\ Finish(c, IF error = "error" THEN "error" ELSE "ok")
           /\ UNCHANGED <<index, client>>

(* create() posts to the first service with an endpoint of the type.       *)
FindService(c, t) ==
  IF \E i \in DOMAIN serviceClients : EndpointOf(serviceClients[i], t) # {}
  THEN pc' = [pc EXCEPT ![c] = "post"] /\ UNCHANGED outcome
  ELSE Finish(c, "noService")

(* A call uses the list, as it is then.                                    *)
Proceed(c, o, t, u) ==
  /\ whole' = [whole EXCEPT ![c] = KnowsAll(serviceClients)]
  /\ UNCHANGED serviceClients
  /\ \/ o = "query" /\ Advance(c, t, 0, {}, "none")
     \/ o = "create" /\ FindService(c, t) /\ UNCHANGED <<index, client>>
     \/ /\ o = "locate"
        /\ client' = [client EXCEPT ![c] = Locate(u)]
        /\ Finish(c, "ok")
        /\ UNCHANGED index

(* init() empties the list, adds the registry and asks it for the services.*)
Cleared_Not == serviceClients \o <<Registry>>
Cleared == <<Registry>>

BeginInit(c) ==
  /\ serviceClients' = Cleared
  /\ whole' = [d \in Callers |-> d = c]
  /\ pc' = [pc EXCEPT ![c] = "services"]
  /\ UNCHANGED <<index, client, outcome>>

-----------------------------------------------------------------------------
(* A call: init() itself, or one that calls init() only if the list is     *)
(* empty.                                                                  *)
Call(c) ==
  /\ pc[c] = "idle"
  /\ \E o \in Operations, t \in Types, u \in Urls :
       /\ op' = [op EXCEPT ![c] = o]
       /\ type' = [type EXCEPT ![c] = t] /\ url' = [url EXCEPT ![c] = u]
       /\ IF o = "init" \/ serviceClients = <<>> THEN BeginInit(c)
          ELSE Proceed(c, o, t, u)
  /\ UNCHANGED <<usedEndpoints, results, failures>>

(* The registry answers: its services are added, without the registry.  One*)
(* of which no client can be made is skipped, with a warning.              *)
Discovered_UpToMalformed ==
  SelectSeq(Registered, LAMBDA s : s # Registry /\
    \E i \in DOMAIN Registered :
      Registered[i] = s /\ \A j \in 1 .. i : Registered[j] \notin Malformed)
Others[n \in 0 .. Len(Registered)] ==  \* of the first n services
  IF n = 0 THEN <<>>
  ELSE IF Registered[n] \in Malformed \cup {Registry} THEN Others[n - 1]
  ELSE Append(Others[n - 1], Registered[n])
Discovered == Others[Len(Registered)]

ServicesAnswer(c) ==
  /\ pc[c] = "services"
  /\ serviceClients' = serviceClients \o Discovered
  /\ IF op[c] = "init" THEN Finish(c, "ok")
     ELSE pc' = [pc EXCEPT ![c] = "ready"] /\ UNCHANGED outcome
  /\ UNCHANGED <<args, queryVars, whole, failures>>

ServicesFail(c) ==
  /\ pc[c] = "services"
  /\ Fail
  /\ Finish(c, "error")
  /\ UNCHANGED <<serviceClients, args, queryVars, whole>>

(* The call continues behind its init().                                   *)
Ready(c) ==
  /\ pc[c] = "ready"
  /\ Proceed(c, op[c], type[c], url[c])
  /\ UNCHANGED <<args, usedEndpoints, results, failures>>

(* An endpoint answers a query ...                                         *)
EndpointAnswer(c) ==
  /\ pc[c] = "endpoint"
  /\ results' = [results EXCEPT ![c] = Append(@, client[c])]
  /\ usedEndpoints' = [usedEndpoints EXCEPT ![c] = @ \cup {client[c]}]
  /\ Advance(c, type[c], index[c], usedEndpoints'[c], outcome[c])
  /\ UNCHANGED <<serviceClients, args, whole, failures>>

(* ... or fails: the error is kept and the loop goes on.                   *)
ErrorKept_Not(c) == "none"
ErrorKept(c) == "error"

EndpointFail(c) ==
  /\ pc[c] = "endpoint"
  /\ Fail
  /\ Advance(c, type[c], index[c], usedEndpoints[c], ErrorKept(c))
  /\ UNCHANGED <<serviceClients, args, usedEndpoints, results, whole>>

(* The post of create() is answered.                                       *)
PostAnswer(c) ==
  /\ pc[c] = "post"
  /\ \/ Finish(c, "ok") /\ UNCHANGED failures
     \/ Finish(c, "error") /\ Fail
  /\ UNCHANGED <<serviceClients, args, queryVars, whole>>

(* The caller takes the result, and may call again.                        *)
Return(c) ==
  /\ pc[c] = "done"
  /\ pc' = [pc EXCEPT ![c] = "idle"]
  /\ index' = [index EXCEPT ![c] = 0]
  /\ usedEndpoints' = [usedEndpoints EXCEPT ![c] = {}]
  /\ results' = [results EXCEPT ![c] = <<>>]
  /\ client' = [client EXCEPT ![c] = NoClient]
  /\ outcome' = [outcome EXCEPT ![c] = "none"]
  /\ whole' = [whole EXCEPT ![c] = FALSE]
  /\ UNCHANGED <<serviceClients, args, failures>>

-----------------------------------------------------------------------------
Answer(c) == ServicesAnswer(c) \/ EndpointAnswer(c) \/ PostAnswer(c) \/ Ready(c)

Next ==
  \E c \in Callers :
    Call(c) \/ Answer(c) \/ ServicesFail(c) \/ EndpointFail(c) \/ Return(c)

Spec == Init /\ [][Next]_vars

-----------------------------------------------------------------------------
(* Properties.                                                             *)

RegisteredEndpoints(t) == UNION {EndpointOf(s, t) : s \in Usable}

(* "resource queries deduplicate shared endpoints": no endpoint is twice   *)
(* in the results, although services share endpoints, overlapping init()s  *)
(* list a service twice, and init() empties the list under the loop.       *)
EndpointsOnce == \A c \in Callers : IsInjective(results[c])

(* A query that succeeds has the resources of every endpoint of its type   *)
(* that a usable service registered, if no other init() began since it     *)
(* started with all of them.                                               *)
QueryComplete ==
  \A c \in Callers :
    pc[c] = "done" /\ op[c] = "query" /\ outcome[c] = "ok" /\ whole[c]
      => ToSet(results[c]) = RegisteredEndpoints(type[c])

(* init() ends with every usable service known, also those listed behind   *)
(* one that is skipped, unless another init() began since: also when it    *)
(* overlaps earlier ones, which fill the same list after it emptied it.    *)
InitComplete ==
  \A c \in Callers :
    pc[c] = "done" /\ op[c] = "init" /\ outcome[c] = "ok" /\ whole[c]
      => KnowsAll(serviceClients)

(* "Failed to find service to create resource of type": create() says so   *)
(* only if no registered service has an endpoint of the type.              *)
RegisteredServiceFound ==
  \A c \in Callers : outcome[c] = "noService" => RegisteredEndpoints(type[c]) = {}
=============================================================================
