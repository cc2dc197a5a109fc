------------------------ MODULE ResourceManager_proofs ------------------------
(***************************************************************************)
(* Proofs about ResourceManager, for any number of calls, any services with*)
(* any endpoints, and any number of failures.                              *)
(***************************************************************************)
EXTENDS ResourceManager, LeastElement, FiniteSetTheorems

Waiting == {c \in Callers : pc[c] = "services"}

(* The list: at most one init() of each call has filled it since it was    *)
(* emptied, with registered services.                                      *)
ListInv ==
  /\ Len(serviceClients) <= 1 + Cardinality(Callers \ Waiting) * Len(Registered)
  /\ ToSet(serviceClients) \subseteq Usable
  /\ (\E c \in Callers : pc[c] # "idle") => serviceClients # <<>>

(* A query: the results so far, and the endpoint that it awaits.           *)
QueryOk(c) ==
  /\ IsInjective(results[c]) /\ ToSet(results[c]) = usedEndpoints[c]
  /\ pc[c] \in {"idle", "services", "ready"} => results[c] = <<>>
  /\ usedEndpoints[c] \subseteq RegisteredEndpoints(type[c])
  /\ pc[c] = "endpoint" => /\ op[c] = "query"
                           /\ outcome[c] \in {"none", "error"}
                           /\ client[c] \in RegisteredEndpoints(type[c]) \ usedEndpoints[c]
  /\ pc[c] = "post" => op[c] = "create"

(* What a call may rely on as long as no other init() begins.              *)
WholeOk(c) ==
  whole[c] =>
    /\ pc[c] \in {"ready", "endpoint", "post"} => KnowsAll(serviceClients)
    /\ pc[c] = "done" /\ outcome[c] = "ok" => KnowsAll(serviceClients)
    /\ pc[c] = "endpoint" /\ outcome[c] = "none" =>
         /\ index[c] \in DOMAIN serviceClients
         /\ EndpointOf(serviceClients[index[c]], type[c]) = {client[c]}
         /\ \A i \in 1 .. index[c] - 1 :
              EndpointOf(serviceClients[i], type[c]) \subseteq usedEndpoints[c]
    /\ pc[c] = "done" /\ outcome[c] = "ok" /\ op[c] = "query" =>
         RegisteredEndpoints(type[c]) \subseteq usedEndpoints[c]

CallsInv == \A c \in Callers : QueryOk(c) /\ WholeOk(c)

ManagerInv == TypeOK /\ ListInv /\ CallsInv

-----------------------------------------------------------------------------
LEMMA Least ==
  ASSUME NEW T, T \subseteq Nat, T # {}
  PROVE  Min(T) \in T /\ \A m \in T : Min(T) <= m
  <1>1. \E x \in T : \A y \in T : x <= y
    BY LeastExists
  <1> QED BY <1>1, Zenon DEF Min

-----------------------------------------------------------------------------
(* Discovered: the registered services but the registry.                   *)

Keep(f, n) ==
  IF n = 0 THEN <<>>
  ELSE IF Registered[n] \in Malformed \cup {Registry} THEN f[n - 1]
  ELSE Append(f[n - 1], Registered[n])

LEMMA KeepsExist ==
  ASSUME NEW m \in Nat
  PROVE  \E f : f = [n \in 0 .. m |-> Keep(f, n)]
  <1> DEFINE T == {k \in Nat : ~ \E f : f = [n \in 0 .. k |-> Keep(f, n)]}
  <1>1. SUFFICES ASSUME T # {} PROVE FALSE
    OBVIOUS
  <1> DEFINE k == Min(T)
  <1>2. k \in T /\ \A j \in T : k <= j
    BY <1>1, Least
  <1> HIDE DEF k
  <1>3. CASE k = 0
    <2> DEFINE f == [n \in 0 .. 0 |-> <<>>]
    <2>1. f = [n \in 0 .. 0 |-> Keep(f, n)]
      BY DEF Keep
    <2> QED BY <1>2, <1>3, <2>1
  <1>4. CASE k # 0
    <2>1. k - 1 \in Nat /\ k - 1 \notin T
      BY <1>2, <1>4
    <2>2. PICK f : f = [n \in 0 .. k - 1 |-> Keep(f, n)]
      BY <2>1
    <2> DEFINE g == [n \in 0 .. k |-> IF n = k THEN Keep(f, k) ELSE f[n]]
    <2>3. ASSUME NEW n \in 0 .. k PROVE g[n] = Keep(g, n)
      <3>1. n # 0 => n - 1 \in 0 .. k - 1 /\ g[n - 1] = f[n - 1]
        BY <1>2, <2>1
      <3>2. n # k => f[n] = Keep(f, n)
        BY <1>2, <2>1, <2>2
      <3> QED BY <3>1, <3>2 DEF Keep
    <2>4. g = [n \in 0 .. k |-> Keep(g, n)]
      BY <2>3
    <2> QED BY <1>2, <2>4
  <1> QED BY <1>3, <1>4

LEMMA OthersStep ==
  ASSUME NEW n \in 0 .. Len(Registered)
  PROVE  Others[n] = Keep(Others, n)
  <1>1. Len(Registered) \in Nat
    BY ConstantsAssumption
  <1>2. \E f : f = [m \in 0 .. Len(Registered) |-> Keep(f, m)]
    BY <1>1, KeepsExist
  <1>3. Others = [m \in 0 .. Len(Registered) |-> Keep(Others, m)]
    BY <1>2 DEF Others, Keep
  <1> QED BY <1>3

LEMMA AppendAdds ==
  ASSUME NEW S, NEW s \in Seq(S), NEW e \in S
  PROVE  /\ Append(s, e) \in Seq(S) /\ Len(Append(s, e)) = Len(s) + 1
         /\ ToSet(Append(s, e)) = ToSet(s) \cup {e}
  <1>1. \A i \in DOMAIN Append(s, e) : Append(s, e)[i] = IF i = Len(s) + 1 THEN e ELSE s[i]
    OBVIOUS
  <1>2. DOMAIN Append(s, e) = DOMAIN s \cup {Len(s) + 1} /\ Len(s) + 1 \notin DOMAIN s
    OBVIOUS
  <1> QED BY <1>1, <1>2 DEF ToSet

OthersOf(n) == {Registered[i] : i \in 1 .. n} \ (Malformed \cup {Registry})

OthersRight(n) ==
  Others[n] \in Seq(Services) /\ Len(Others[n]) <= n /\ ToSet(Others[n]) = OthersOf(n)

LEMMA OthersAre ==
  ASSUME NEW n \in 0 .. Len(Registered)
  PROVE  OthersRight(n)
  <1> USE ConstantsAssumption
  <1> DEFINE T == {m \in 0 .. Len(Registered) : ~ OthersRight(m)}
             k == Min(T)
  <1>1. SUFFICES ASSUME T # {} PROVE FALSE
    OBVIOUS
  <1>0. T \subseteq Nat
    OBVIOUS
  <1> HIDE DEF T
  <1>2. k \in T /\ \A j \in T : k <= j
    BY <1>0, <1>1, Least
  <1> HIDE DEF k
  <1>5. k \in 0 .. Len(Registered) /\ ~ OthersRight(k)
    BY <1>2 DEF T
  <1>3. CASE k = 0
    <2>1. Others[0] = <<>>
      BY <1>5, <1>3, OthersStep DEF Keep
    <2>2. OthersOf(0) = {} /\ ToSet(<<>>) = {}
      BY DEF OthersOf, ToSet
    <2>3. <<>> \in Seq(Services) /\ Len(<<>>) <= 0
      OBVIOUS
    <2>4. OthersRight(0)
      BY <2>1, <2>2, <2>3 DEF OthersRight
    <2> QED BY <1>5, <1>3, <2>4
  <1>4. CASE k # 0
    <2>1. k - 1 \in 0 .. Len(Registered) /\ OthersRight(k - 1)
      BY <1>2, <1>4, <1>5 DEF T
    <2>2. k \in 0 .. Len(Registered) /\ Registered[k] \in Services /\ ~ OthersRight(k)
      BY <1>4, <1>5
    <2>3. OthersOf(k) = OthersOf(k - 1) \cup ({Registered[k]} \ (Malformed \cup {Registry}))
      BY <2>2, <1>4 DEF OthersOf
    <2>4. CASE Registered[k] \in Malformed \cup {Registry}
      <3>1. Others[k] = Others[k - 1]
        BY <1>4, <2>2, <2>4, OthersStep DEF Keep
      <3> QED BY <2>1, <2>2, <2>3, <2>4, <3>1 DEF OthersRight
    <2>5. CASE Registered[k] \notin Malformed \cup {Registry}
      <3>1. Others[k] = Append(Others[k - 1], Registered[k])
        BY <1>4, <2>2, <2>5, OthersStep DEF Keep
      <3>2. OthersRight(k)
        BY <2>1, <2>2, <2>3, <2>5, <3>1, AppendAdds DEF OthersRight
      <3> QED BY <2>2, <3>2
    <2> QED BY <2>4, <2>5
  <1> QED BY <1>3, <1>4

LEMMA DiscoveredAre ==
  /\ Discovered \in Seq(Services) /\ Len(Discovered) <= Len(Registered)
  /\ ToSet(Discovered) = ToSet(Registered) \ (Malformed \cup {Registry})
  <1>1. Len(Registered) \in 0 .. Len(Registered)
    BY ConstantsAssumption
  <1>2. ToSet(Registered) = {Registered[i] : i \in 1 .. Len(Registered)}
    BY ConstantsAssumption DEF ToSet
  <1> QED BY <1>1, <1>2, OthersAre DEF Discovered, OthersRight, OthersOf

-----------------------------------------------------------------------------
(* Endpoints.                                                              *)

LEMMA EndpointFacts ==
  ASSUME NEW s \in Services, NEW t
  PROVE  /\ EndpointOf(s, t) \subseteq Endpoints
         /\ \A e, f \in EndpointOf(s, t) : e = f
  <1>1. EndpointOf(s, t) \subseteq Endpoints
    BY DEF EndpointOf, Endpoints
  <1>2. ASSUME NEW q \in ToSet(ResourcesOf[s]), NEW r \in ToSet(ResourcesOf[s]),
               q.resourceType = t, r.resourceType = t
        PROVE  q = r
    <2>1. PICK i, j \in DOMAIN ResourcesOf[s] : q = ResourcesOf[s][i] /\ r = ResourcesOf[s][j]
      BY DEF ToSet
    <2>2. i = j
      BY <1>2, <2>1, ConstantsAssumption
    <2> QED BY <2>1, <2>2
  <1> QED BY <1>1, <1>2 DEF EndpointOf

LEMMA LocateType ==
  ASSUME TypeOK, NEW u
  PROVE  Locate(u) \in Endpoints \cup {NoClient}
  <1> DEFINE hits == {i \in DOMAIN serviceClients : Serving(serviceClients[i], u) # {}}
             s == serviceClients[Min(hits)]
  <1>1. SUFFICES ASSUME hits # {}
                 PROVE  ResourcesOf[s][Min(Serving(s, u))].httpEndpoint \in Endpoints
    BY DEF Locate
  <1>2. hits \subseteq Nat
    BY DEF TypeOK
  <1>3. Min(hits) \in hits
    BY <1>1, <1>2, Least
  <1> HIDE DEF hits
  <1>7. Min(hits) \in DOMAIN serviceClients /\ Serving(s, u) # {}
    BY <1>3 DEF hits
  <1>4. s \in Services /\ Serving(s, u) # {}
    BY <1>7 DEF TypeOK
  <1> HIDE DEF s
  <1>5. Serving(s, u) \subseteq DOMAIN ResourcesOf[s] /\ DOMAIN ResourcesOf[s] \subseteq Nat
    BY <1>4, ConstantsAssumption DEF Serving
  <1>6. Min(Serving(s, u)) \in DOMAIN ResourcesOf[s]
    BY <1>4, <1>5, Least
  <1> QED BY <1>4, <1>6 DEF Endpoints, ToSet

(* The loop goes to the next endpoint that is not used, or ends.           *)
Onward(c, t, i, used, error) ==
  \E next \in DOMAIN serviceClients : \E e \in Endpoints \ used :
    /\ next > i /\ EndpointOf(serviceClients[next], t) = {e}
    /\ index' = [index EXCEPT ![c] = next] /\ client' = [client EXCEPT ![c] = e]
    /\ pc' = [pc EXCEPT ![c] = "endpoint"]
    /\ outcome' = [outcome EXCEPT ![c] = error]
    /\ \A j \in DOMAIN serviceClients : i < j /\ j < next =>
         EndpointOf(serviceClients[j], t) \subseteq used

Ending(c, t, i, used, error) ==
  /\ \A j \in DOMAIN serviceClients : i < j =>
       EndpointOf(serviceClients[j], t) \subseteq used
  /\ Finish(c, IF error = "error" THEN "error" ELSE "ok")
  /\ UNCHANGED <<index, client>>

LEMMA AdvanceStep ==
  ASSUME TypeOK, NEW c \in Callers, NEW t, NEW i \in Nat, NEW used, NEW error,
         Advance(c, t, i, used, error)
  PROVE  Onward(c, t, i, used, error) \/ Ending(c, t, i, used, error)
  <1> DEFINE later == {j \in ToAsk(t, used) : j > i}
             next == Min(later)
  <1>0. DOMAIN serviceClients \subseteq Nat /\ later \subseteq DOMAIN serviceClients
    BY DEF TypeOK, ToAsk
  <1>1. \A j \in DOMAIN serviceClients :
          i < j /\ j \notin later => EndpointOf(serviceClients[j], t) \subseteq used
    BY <1>0 DEF ToAsk
  <1>2. CASE later = {}
    BY <1>1, <1>2 DEF Advance, Ending
  <1>3. CASE later # {}
    <2>1. next \in later /\ \A j \in later : next <= j
      BY <1>0, <1>3, Least
    <2>2. PICK e \in EndpointOf(serviceClients[next], t) :
            client' = [client EXCEPT ![c] = e]
      BY <1>3 DEF Advance
    <2>3. /\ index' = [index EXCEPT ![c] = next] /\ pc' = [pc EXCEPT ![c] = "endpoint"]
          /\ outcome' = [outcome EXCEPT ![c] = error]
      BY <1>3 DEF Advance
    <2> HIDE DEF next
    <2>4. next \in DOMAIN serviceClients /\ next > i /\ serviceClients[next] \in Services
      BY <1>0, <2>1 DEF TypeOK
    <2>5. ~ EndpointOf(serviceClients[next], t) \subseteq used
      BY <2>1 DEF ToAsk
    <2>6. EndpointOf(serviceClients[next], t) = {e} /\ e \in Endpoints \ used
      BY <2>2, <2>4, <2>5, EndpointFacts
    <2>7. \A j \in DOMAIN serviceClients : j < next => j \notin later
      BY <1>0, <2>1, <2>4
    <2> QED BY <1>1, <2>2, <2>3, <2>4, <2>6, <2>7 DEF Onward
  <1> QED BY <1>2, <1>3

-----------------------------------------------------------------------------
(* Parts of the invariant that a step does not touch.                      *)

LEMMA ListBound ==
  ASSUME NEW S \in SUBSET Callers, NEW n \in Nat, n <= 1 + Cardinality(S) * Len(Registered)
  PROVE  n <= MaxClients /\ MaxClients \in Nat
  <1>1. /\ Cardinality(S) \in Nat /\ Cardinality(Callers) \in Nat
        /\ Cardinality(S) <= Cardinality(Callers)
    BY ConstantsAssumption, FS_Subset, FS_CardinalityType
  <1>2. Len(Registered) \in Nat
    BY ConstantsAssumption
  <1>3. \A k, m, l \in Nat : k <= m => k * l <= m * l
    OBVIOUS
  <1>4. /\ Cardinality(S) * Len(Registered) \in Nat
        /\ Cardinality(Callers) * Len(Registered) \in Nat
    BY <1>1, <1>2
  <1> QED BY <1>1, <1>2, <1>3, <1>4 DEF MaxClients

LEMMA ListStays ==
  ASSUME ManagerInv, NEW c \in Callers, NEW x, pc[c] # "services", x # "services",
         pc' = [pc EXCEPT ![c] = x], UNCHANGED serviceClients,
         x # "idle" => serviceClients # <<>>
  PROVE  ListInv'
  <1>1. Waiting' = Waiting
    BY DEF Waiting, ManagerInv, TypeOK
  <1>2. \A d \in Callers : pc'[d] # "idle" => serviceClients # <<>>
    BY DEF ManagerInv, TypeOK, ListInv
  <1> QED BY <1>1, <1>2 DEF ManagerInv, ListInv

(* A call stays as it is while others go on and the list grows.            *)
Grows == \A i \in DOMAIN serviceClients :
           i \in DOMAIN serviceClients' /\ serviceClients'[i] = serviceClients[i]

LEMMA QueryStays ==
  ASSUME ManagerInv, NEW d \in Callers,
         pc'[d] = pc[d], op'[d] = op[d], type'[d] = type[d],
         usedEndpoints'[d] = usedEndpoints[d], results'[d] = results[d],
         outcome'[d] = outcome[d], client'[d] = client[d]
  PROVE  QueryOk(d)'
  <1>1. QueryOk(d)
    BY DEF ManagerInv, CallsInv
  <1> QED BY <1>1 DEF QueryOk, RegisteredEndpoints

LEMMA CallStays ==
  ASSUME ManagerInv, NEW d \in Callers, Grows,
         pc'[d] = pc[d], op'[d] = op[d], type'[d] = type[d], index'[d] = index[d],
         usedEndpoints'[d] = usedEndpoints[d], results'[d] = results[d],
         outcome'[d] = outcome[d], client'[d] = client[d], whole'[d] = whole[d]
  PROVE  QueryOk(d)' /\ WholeOk(d)'
  <1>1. WholeOk(d)
    BY DEF ManagerInv, CallsInv
  <1>3. KnowsAll(serviceClients) => KnowsAll(serviceClients')
    BY DEF Grows, KnowsAll, ToSet
  <1>4. ASSUME index[d] \in DOMAIN serviceClients, NEW i \in 1 .. index[d] - 1
        PROVE  serviceClients'[i] = serviceClients[i]
    BY <1>4 DEF Grows, ManagerInv, TypeOK
  <1>5. WholeOk(d)'
    BY <1>1, <1>3, <1>4 DEF WholeOk, Grows, RegisteredEndpoints, EndpointOf
  <1> QED BY <1>5, QueryStays

-----------------------------------------------------------------------------
(* Each step keeps the invariant.                                          *)

(* What a query knows when its loop goes on behind position i.             *)
Turn(c, t, i, error) ==
  /\ i \in Nat /\ error \in {"none", "error"} /\ serviceClients # <<>>
  /\ UNCHANGED serviceClients
  /\ op'[c] = "query" /\ type'[c] = t
  /\ IsInjective(results'[c]) /\ ToSet(results'[c]) = usedEndpoints'[c]
  /\ usedEndpoints'[c] \subseteq RegisteredEndpoints(t)
  /\ whole'[c] => KnowsAll(serviceClients)
  /\ whole'[c] /\ error = "none" =>
       \A j \in DOMAIN serviceClients :
         j <= i => EndpointOf(serviceClients[j], t) \subseteq usedEndpoints'[c]

LEMMA QueryGoesOn ==
  ASSUME ManagerInv, NEW c \in Callers, NEW t, NEW i, NEW used, NEW error,
         used = usedEndpoints'[c], Turn(c, t, i, error), Advance(c, t, i, used, error)
  PROVE  /\ QueryOk(c)' /\ WholeOk(c)'
         /\ \E x \in {"endpoint", "done"} : pc' = [pc EXCEPT ![c] = x]
         /\ \E r \in {"none", "ok", "error"} : outcome' = [outcome EXCEPT ![c] = r]
         /\ \E k \in 0 .. MaxClients : index' = [index EXCEPT ![c] = k]
         /\ \E e \in Endpoints \cup {NoClient} : client' = [client EXCEPT ![c] = e]
  <1>0. TypeOK /\ ListInv /\ i \in Nat
    BY DEF ManagerInv, Turn
  <1>1. ASSUME NEW next \in DOMAIN serviceClients, NEW e \in Endpoints \ used,
               next > i, EndpointOf(serviceClients[next], t) = {e},
               index' = [index EXCEPT ![c] = next], client' = [client EXCEPT ![c] = e],
               pc' = [pc EXCEPT ![c] = "endpoint"],
               outcome' = [outcome EXCEPT ![c] = error],
               \A j \in DOMAIN serviceClients : i < j /\ j < next =>
                 EndpointOf(serviceClients[j], t) \subseteq used
        PROVE  /\ QueryOk(c)' /\ WholeOk(c)'
               /\ index' = [index EXCEPT ![c] = next] /\ next \in 0 .. MaxClients
    <2>1. pc'[c] = "endpoint" /\ index'[c] = next /\ client'[c] = e /\ outcome'[c] = error
      BY <1>0, <1>1 DEF TypeOK
    <2>2. e \in RegisteredEndpoints(t)
      <3>1. serviceClients[next] \in Usable
        BY <1>0 DEF ListInv, ToSet
      <3> QED BY <1>1, <3>1 DEF RegisteredEndpoints
    <2>3. QueryOk(c)'
      BY <2>1, <2>2 DEF QueryOk, Turn, RegisteredEndpoints
    <2>4. ASSUME whole'[c], error = "none", NEW j \in 1 .. next - 1
          PROVE  EndpointOf(serviceClients[j], t) \subseteq used
      <3>1. j \in DOMAIN serviceClients /\ j \in Nat /\ next \in Nat /\ j < next
        BY <1>0 DEF TypeOK
      <3>2. CASE j <= i
        BY <2>4, <3>1, <3>2 DEF Turn
      <3>3. CASE ~ (j <= i)
        BY <1>0, <1>1, <3>1, <3>3
      <3> QED BY <3>2, <3>3
    <2>5. WholeOk(c)'
      <3>1. EndpointOf(serviceClients'[next], t) = {e}
        BY <1>1 DEF Turn
      <3>2. \A j \in DOMAIN serviceClients :
              EndpointOf(serviceClients'[j], t) = EndpointOf(serviceClients[j], t)
        BY DEF Turn
      <3>3. next \in DOMAIN serviceClients' /\ \A j \in 1 .. next - 1 : j \in DOMAIN serviceClients
        BY <1>0 DEF TypeOK, Turn
      <3>4. whole'[c] => KnowsAll(serviceClients')
        BY DEF Turn
      <3>5. ASSUME whole'[c], error = "none", NEW j \in 1 .. next - 1
            PROVE  EndpointOf(serviceClients'[j], type'[c]) \subseteq usedEndpoints'[c]
        BY <2>4, <3>2, <3>3, <3>5 DEF Turn
      <3>6. type'[c] = t
        BY DEF Turn
      <3> QED BY <2>1, <3>1, <3>3, <3>4, <3>5, <3>6 DEF WholeOk
    <2>6. next \in 0 .. MaxClients
      <3>1. Len(serviceClients) <= MaxClients /\ Len(serviceClients) \in Nat /\ MaxClients \in Nat
        BY <1>0, ConstantsAssumption, FS_CardinalityType DEF TypeOK, MaxClients
      <3> QED BY <1>0, <3>1 DEF TypeOK
    <2> QED BY <1>1, <2>3, <2>5, <2>6
  <1>2. ASSUME \A j \in DOMAIN serviceClients : i < j =>
                 EndpointOf(serviceClients[j], t) \subseteq used,
               Finish(c, IF error = "error" THEN "error" ELSE "ok"),
               UNCHANGED <<index, client>>
        PROVE  QueryOk(c)' /\ WholeOk(c)'
    <2>1. pc'[c] = "done" /\ outcome'[c] = IF error = "error" THEN "error" ELSE "ok"
      BY <1>0, <1>2 DEF Finish, TypeOK
    <2>2. QueryOk(c)'
      BY <2>1 DEF QueryOk, Turn, RegisteredEndpoints
    <2>3. ASSUME whole'[c], error = "none", NEW s \in Usable
          PROVE  EndpointOf(s, t) \subseteq used
      <3>0. serviceClients # <<>> /\ serviceClients \in Seq(Services)
            /\ serviceClients[1] = Registry
        BY <1>0 DEF Turn, TypeOK
      <3>1. Registry \in ToSet(serviceClients)
        BY <3>0 DEF ToSet
      <3>2. PICK j \in DOMAIN serviceClients : serviceClients[j] = s
        BY <2>3, <3>1 DEF Turn, KnowsAll, ToSet, Usable
      <3>3. j \in Nat
        BY <1>0 DEF TypeOK
      <3>4. i < j \/ j <= i
        BY <1>0, <3>3
      <3> QED BY <1>2, <2>3, <3>2, <3>4 DEF Turn
    <2>4. whole'[c] /\ error = "none" => RegisteredEndpoints(t) \subseteq used
      BY <2>3 DEF RegisteredEndpoints
    <2>5. WholeOk(c)'
      BY <2>1, <2>4 DEF WholeOk, Turn, RegisteredEndpoints
    <2> QED BY <2>2, <2>5
  <1>3. CASE Onward(c, t, i, used, error)
    BY <1>1, <1>3 DEF Turn, Onward
  <1>4. CASE Ending(c, t, i, used, error)
    <2>1. index' = [index EXCEPT ![c] = index[c]] /\ client' = [client EXCEPT ![c] = client[c]]
      BY <1>0, <1>4 DEF TypeOK, Ending
    <2>2. index[c] \in 0 .. MaxClients /\ client[c] \in Endpoints \cup {NoClient}
      BY <1>0 DEF TypeOK
    <2>3. \E r \in {"none", "ok", "error"} : outcome' = [outcome EXCEPT ![c] = r]
      BY <1>4 DEF Finish, Ending
    <2>4. \E x \in {"endpoint", "done"} : pc' = [pc EXCEPT ![c] = x]
      BY <1>4 DEF Finish, Ending
    <2>5. QueryOk(c)' /\ WholeOk(c)'
      BY <1>2, <1>4 DEF Ending
    <2>6. \E k \in 0 .. MaxClients : index' = [index EXCEPT ![c] = k]
      BY <2>1, <2>2
    <2>7. \E e \in Endpoints \cup {NoClient} : client' = [client EXCEPT ![c] = e]
      BY <2>1, <2>2
    <2> QED BY <2>3, <2>4, <2>5, <2>6, <2>7
  <1>5. Onward(c, t, i, used, error) \/ Ending(c, t, i, used, error)
    BY <1>0, AdvanceStep
  <1> QED BY <1>3, <1>4, <1>5

(* The variables of the calls but c are as they were.                      *)
OnlyOf(c) ==
  \A d \in Callers \ {c} :
    /\ pc'[d] = pc[d] /\ op'[d] = op[d] /\ type'[d] = type[d] /\ index'[d] = index[d]
    /\ usedEndpoints'[d] = usedEndpoints[d] /\ results'[d] = results[d]
    /\ outcome'[d] = outcome[d] /\ client'[d] = client[d]

LEMMA BeginInitKeepsInv ==
  ASSUME ManagerInv, NEW c \in Callers, BeginInit(c), pc[c] = "idle",
         op' \in [Callers -> Operations], type' \in [Callers -> Types],
         url' \in [Callers -> Urls], OnlyOf(c),
         UNCHANGED <<usedEndpoints, results, failures>>
  PROVE  ManagerInv'
  <1>0. TypeOK /\ ListInv /\ CallsInv
    BY DEF ManagerInv
  <1>1. serviceClients' = <<Registry>> /\ Len(<<Registry>>) = 1 /\ <<Registry>> \in Seq(Services)
        /\ <<Registry>>[1] = Registry /\ DOMAIN <<Registry>> = {1}
    BY ConstantsAssumption DEF BeginInit, Cleared
  <1>2. ListInv'
    <2>1. Cardinality(Callers \ Waiting') * Len(Registered) \in Nat
      <3>1. IsFiniteSet(Callers \ Waiting')
        BY ConstantsAssumption, FS_Difference
      <3>2. Cardinality(Callers \ Waiting') \in Nat /\ Len(Registered) \in Nat
        BY <3>1, FS_CardinalityType, ConstantsAssumption
      <3> QED BY <3>2
    <2>2. ToSet(<<Registry>>) = {Registry} /\ <<Registry>> # <<>>
      BY <1>1 DEF ToSet
    <2> HIDE DEF Waiting
    <2> QED BY <1>1, <2>1, <2>2 DEF ListInv, Usable
  <1>3. Len(serviceClients') <= MaxClients
    <2>1. MaxClients \in Nat \ {0}
      <3>1. Cardinality(Callers) * Len(Registered) \in Nat
        BY ConstantsAssumption, FS_CardinalityType
      <3> QED BY <3>1 DEF MaxClients
    <2> QED BY <1>1, <2>1
  <1>4. TypeOK'
    BY <1>0, <1>1, <1>3 DEF TypeOK, BeginInit
  <1>5. QueryOk(c)' /\ WholeOk(c)'
    <2>1. results[c] = <<>> /\ usedEndpoints[c] = {}
      BY <1>0 DEF CallsInv, QueryOk, ToSet
    <2> QED BY <1>0, <2>1 DEF QueryOk, WholeOk, BeginInit, TypeOK, IsInjective, ToSet
  <1>6. ASSUME NEW d \in Callers \ {c} PROVE QueryOk(d)' /\ WholeOk(d)'
    <2>1. QueryOk(d)'
      BY QueryStays DEF OnlyOf
    <2>2. WholeOk(d)'
      BY DEF WholeOk, BeginInit
    <2> QED BY <2>1, <2>2
  <1> QED BY <1>2, <1>4, <1>5, <1>6 DEF ManagerInv, CallsInv

LEMMA ProceedKeepsInv ==
  ASSUME ManagerInv, NEW c \in Callers, NEW o \in Operations, NEW t \in Types, NEW u \in Urls,
         Proceed(c, o, t, u), pc[c] \in {"idle", "ready"}, serviceClients # <<>>,
         op' = [op EXCEPT ![c] = o], type' = [type EXCEPT ![c] = t],
         url' = [url EXCEPT ![c] = u],
         UNCHANGED <<usedEndpoints, results, failures>>
  PROVE  ManagerInv'
  <1>0. TypeOK /\ ListInv /\ CallsInv /\ op'[c] = o /\ type'[c] = t
    BY DEF ManagerInv, TypeOK
  <1>1. results[c] = <<>> /\ usedEndpoints[c] = {} /\ IsInjective(results[c])
        /\ ToSet(results[c]) = usedEndpoints[c]
    BY <1>0 DEF CallsInv, QueryOk, ToSet
  <1>2. /\ UNCHANGED serviceClients
        /\ whole' = [whole EXCEPT ![c] = KnowsAll(serviceClients)]
        /\ whole'[c] = KnowsAll(serviceClients)
        /\ whole' \in [Callers -> BOOLEAN]
    BY <1>0 DEF Proceed, TypeOK, KnowsAll
  <1>3. CASE o = "query" /\ Advance(c, t, 0, {}, "none")
    <2>1. Turn(c, t, 0, "none")
      <3>1. DOMAIN serviceClients \cap {j \in Nat : j <= 0} = {}
        BY <1>0 DEF TypeOK
      <3>2. \A j \in DOMAIN serviceClients : j \in Nat /\ ~ (j <= 0)
        BY <1>0 DEF TypeOK
      <3> QED BY <1>0, <1>1, <1>2, <1>3, <3>2 DEF Turn
    <2>2. usedEndpoints'[c] = {}
      BY <1>1
    <2>3. /\ QueryOk(c)' /\ WholeOk(c)'
          /\ \E x \in {"endpoint", "done"} : pc' = [pc EXCEPT ![c] = x]
          /\ \E r \in {"none", "ok", "error"} : outcome' = [outcome EXCEPT ![c] = r]
          /\ \E k \in 0 .. MaxClients : index' = [index EXCEPT ![c] = k]
          /\ \E e \in Endpoints \cup {NoClient} : client' = [client EXCEPT ![c] = e]
      BY <1>3, <2>1, <2>2, QueryGoesOn
    <2>4. TypeOK'
      BY <1>0, <1>2, <2>3 DEF TypeOK
    <2>5. ListInv'
      BY <1>2, <2>3, ListStays
    <2>6. ASSUME NEW d \in Callers \ {c} PROVE QueryOk(d)' /\ WholeOk(d)'
      BY <1>0, <1>2, <2>3, CallStays DEF Grows, TypeOK
    <2> QED BY <2>3, <2>4, <2>5, <2>6 DEF ManagerInv, CallsInv
  <1>4. ASSUME NEW x \in {"post", "done"}, pc' = [pc EXCEPT ![c] = x],
               NEW r \in {"none", "ok", "noService"}, outcome' = [outcome EXCEPT ![c] = r],
               NEW e \in Endpoints \cup {NoClient}, client' = [client EXCEPT ![c] = e],
               UNCHANGED index, o # "query", x = "post" => o = "create"
        PROVE  ManagerInv'
    <2>1. TypeOK'
      BY <1>0, <1>2, <1>4 DEF TypeOK
    <2>2. ListInv'
      BY <1>2, <1>4, ListStays
    <2>3. QueryOk(c)' /\ WholeOk(c)'
      BY <1>0, <1>1, <1>2, <1>4 DEF QueryOk, WholeOk, TypeOK
    <2>4. ASSUME NEW d \in Callers \ {c} PROVE QueryOk(d)' /\ WholeOk(d)'
      BY <1>0, <1>2, <1>4, CallStays DEF Grows, TypeOK
    <2> QED BY <2>1, <2>2, <2>3, <2>4 DEF ManagerInv, CallsInv
  <1>5. CASE o = "create" /\ FindService(c, t) /\ UNCHANGED <<index, client>>
    <2>1. client' = [client EXCEPT ![c] = client[c]] /\ client[c] \in Endpoints \cup {NoClient}
      BY <1>0, <1>5 DEF TypeOK
    <2>2. CASE pc' = [pc EXCEPT ![c] = "post"] /\ UNCHANGED outcome
      <3>1. outcome' = [outcome EXCEPT ![c] = outcome[c]]
        BY <1>0, <2>2 DEF TypeOK
      <3>2. TypeOK'
        BY <1>0, <1>2, <1>5, <2>2 DEF TypeOK
      <3>3. ListInv'
        BY <1>2, <2>2, ListStays
      <3>4. QueryOk(c)' /\ WholeOk(c)'
        BY <1>0, <1>1, <1>2, <1>5, <2>2 DEF QueryOk, WholeOk, TypeOK
      <3>5. ASSUME NEW d \in Callers \ {c} PROVE QueryOk(d)' /\ WholeOk(d)'
        BY <1>0, <1>2, <1>5, <2>2, CallStays DEF Grows, TypeOK
      <3> QED BY <3>2, <3>3, <3>4, <3>5 DEF ManagerInv, CallsInv
    <2>3. CASE Finish(c, "noService")
      BY <1>4, <1>5, <2>1, <2>3 DEF Finish
    <2> QED BY <1>5, <2>2, <2>3 DEF FindService
  <1>6. CASE /\ o = "locate" /\ client' = [client EXCEPT ![c] = Locate(u)]
             /\ Finish(c, "ok") /\ UNCHANGED index
    <2>1. Locate(u) \in Endpoints \cup {NoClient}
      BY <1>0, LocateType
    <2> QED BY <1>4, <1>6, <2>1 DEF Finish
  <1> QED BY <1>3, <1>5, <1>6 DEF Proceed

LEMMA CallKeepsInv ==
  ASSUME ManagerInv, NEW c \in Callers, Call(c)
  PROVE  ManagerInv'
  <1>0. TypeOK /\ pc[c] = "idle" /\ UNCHANGED <<usedEndpoints, results, failures>>
    BY DEF ManagerInv, Call
  <1>1. PICK o \in Operations, t \in Types, u \in Urls :
          /\ op' = [op EXCEPT ![c] = o]
          /\ type' = [type EXCEPT ![c] = t] /\ url' = [url EXCEPT ![c] = u]
          /\ IF o = "init" \/ serviceClients = <<>> THEN BeginInit(c)
             ELSE Proceed(c, o, t, u)
    BY DEF Call
  <1>2. CASE BeginInit(c)
    <2>1. OnlyOf(c)
      BY <1>0, <1>1, <1>2 DEF OnlyOf, BeginInit, TypeOK
    <2>2. /\ op' \in [Callers -> Operations] /\ type' \in [Callers -> Types]
          /\ url' \in [Callers -> Urls]
      BY <1>0, <1>1 DEF TypeOK
    <2> QED BY <1>0, <1>2, <2>1, <2>2, BeginInitKeepsInv
  <1>3. CASE serviceClients # <<>> /\ Proceed(c, o, t, u)
    BY <1>0, <1>1, <1>3, ProceedKeepsInv
  <1> QED BY <1>1, <1>2, <1>3

LEMMA ReadyKeepsInv ==
  ASSUME ManagerInv, NEW c \in Callers, Ready(c)
  PROVE  ManagerInv'
  <1>0. TypeOK /\ ListInv /\ pc[c] = "ready"
    BY DEF ManagerInv, Ready
  <1>1. PICK o \in Operations, t \in Types, u \in Urls :
          o = op[c] /\ t = type[c] /\ u = url[c]
    BY <1>0 DEF TypeOK
  <1>2. Proceed(c, o, t, u) /\ UNCHANGED <<args, usedEndpoints, results, failures>>
    BY <1>1 DEF Ready, Proceed, Advance, ToAsk, FindService, Finish
  <1>3. /\ op' = [op EXCEPT ![c] = o] /\ type' = [type EXCEPT ![c] = t]
        /\ url' = [url EXCEPT ![c] = u]
    BY <1>0, <1>1, <1>2 DEF args, TypeOK
  <1>4. serviceClients # <<>>
    BY <1>0 DEF ListInv
  <1> QED BY <1>0, <1>2, <1>3, <1>4, ProceedKeepsInv

LEMMA ServicesAnswerKeepsInv ==
  ASSUME ManagerInv, NEW c \in Callers, ServicesAnswer(c)
  PROVE  ManagerInv'
  <1>0. TypeOK /\ ListInv /\ CallsInv /\ pc[c] = "services" /\ c \in Waiting
    BY DEF ManagerInv, ServicesAnswer, Waiting
  <1>1. /\ serviceClients' = serviceClients \o Discovered
        /\ UNCHANGED <<op, type, url, index, usedEndpoints, results, client, whole, failures>>
    BY DEF ServicesAnswer, args, queryVars
  <1>2. /\ serviceClients' \in Seq(Services) /\ serviceClients # <<>>
        /\ Len(serviceClients') = Len(serviceClients) + Len(Discovered)
        /\ Len(serviceClients') \in Nat /\ Len(serviceClients) \in Nat
        /\ Head(serviceClients') = Head(serviceClients)
        /\ ToSet(serviceClients') = ToSet(serviceClients) \cup ToSet(Discovered)
    <2>1. serviceClients # <<>>
      BY <1>0 DEF ListInv
    <2>2. ToSet(serviceClients \o Discovered) = ToSet(serviceClients) \cup ToSet(Discovered)
      <3>1. ASSUME NEW i \in DOMAIN Discovered
            PROVE  \E j \in DOMAIN (serviceClients \o Discovered) :
                     (serviceClients \o Discovered)[j] = Discovered[i]
        <4>1. Len(serviceClients) + i \in DOMAIN (serviceClients \o Discovered)
          BY <1>0, DiscoveredAre DEF TypeOK
        <4> QED BY <1>0, <4>1, DiscoveredAre DEF TypeOK
      <3>2. ASSUME NEW i \in DOMAIN serviceClients
            PROVE  i \in DOMAIN (serviceClients \o Discovered) /\
                   (serviceClients \o Discovered)[i] = serviceClients[i]
        BY <1>0, DiscoveredAre DEF TypeOK
      <3>3. ASSUME NEW j \in DOMAIN (serviceClients \o Discovered)
            PROVE  (serviceClients \o Discovered)[j] \in ToSet(serviceClients) \cup ToSet(Discovered)
        BY <1>0, DiscoveredAre DEF TypeOK, ToSet
      <3> QED BY <3>1, <3>2, <3>3 DEF ToSet
    <2> QED BY <1>0, <1>1, <2>1, <2>2, DiscoveredAre DEF TypeOK
  <1>3. Grows
    BY <1>0, <1>1, DiscoveredAre DEF Grows, TypeOK
  <1>4. PICK x \in {"ready", "done"} : \E r \in {outcome[c], "ok"} :
          /\ pc' = [pc EXCEPT ![c] = x] /\ outcome' = [outcome EXCEPT ![c] = r]
          /\ x = "done" => op[c] = "init"
    BY <1>0 DEF ServicesAnswer, Finish, TypeOK
  <1>5. ListInv'
    <2>1. Callers \ Waiting' = (Callers \ Waiting) \cup {c} /\ c \notin Callers \ Waiting
      BY <1>0, <1>4 DEF Waiting, TypeOK
    <2> HIDE DEF Waiting
    <2>2. IsFiniteSet(Callers \ Waiting)
      BY ConstantsAssumption, FS_Difference
    <2>3. /\ Cardinality(Callers \ Waiting') = Cardinality(Callers \ Waiting) + 1
          /\ Cardinality(Callers \ Waiting) \in Nat
      BY <2>1, <2>2, FS_AddElement, FS_CardinalityType
    <2>4. /\ Len(Registered) \in Nat
          /\ \A k, l \in Nat : (k + 1) * l = k * l + l /\ k * l \in Nat
      BY ConstantsAssumption
    <2>5. Len(serviceClients') <= 1 + Cardinality(Callers \ Waiting') * Len(Registered)
      <3> DEFINE k == Cardinality(Callers \ Waiting)
                 l == Len(Registered)
      <3>1. Len(serviceClients) <= 1 + k * l
        BY <1>0 DEF ListInv
      <3>2. (k + 1) * l = k * l + l /\ k * l \in Nat /\ l \in Nat
        BY <2>3, <2>4
      <3>3. Len(Discovered) <= l /\ Len(Discovered) \in Nat
        BY DiscoveredAre
      <3>4. Cardinality(Callers \ Waiting') * Len(Registered) = (k + 1) * l
        BY <2>3
      <3> HIDE DEF k, l
      <3> QED BY <1>2, <3>1, <3>2, <3>3, <3>4
    <2>6. ToSet(serviceClients') \subseteq Usable
      BY <1>0, <1>2, DiscoveredAre DEF ListInv, Usable
    <2>7. serviceClients' # <<>>
      BY <1>2
    <2> QED BY <2>5, <2>6, <2>7 DEF ListInv
  <1>6. Len(serviceClients') <= MaxClients
    <2>1. Callers \ Waiting' \in SUBSET Callers
      OBVIOUS
    <2> HIDE DEF Waiting
    <2> QED BY <1>2, <1>5, <2>1, ListBound DEF ListInv
  <1>7. TypeOK'
    BY <1>0, <1>1, <1>2, <1>4, <1>6 DEF TypeOK
  <1>8. QueryOk(c)' /\ WholeOk(c)'
    <2>1. Registry \in ToSet(serviceClients)
      BY <1>0, <1>2 DEF TypeOK, ToSet
    <2>2. KnowsAll(serviceClients')
      BY <1>2, <2>1, DiscoveredAre DEF KnowsAll
    <2>3. results[c] = <<>> /\ QueryOk(c)
      BY <1>0 DEF CallsInv, QueryOk
    <2>4. pc'[c] = x
      BY <1>0, <1>4 DEF TypeOK
    <2>5. QueryOk(c)'
      BY <1>1, <2>3, <2>4 DEF QueryOk, RegisteredEndpoints
    <2>6. WholeOk(c)'
      BY <1>1, <1>4, <2>2, <2>4 DEF WholeOk
    <2> QED BY <2>5, <2>6
  <1>9. ASSUME NEW d \in Callers \ {c} PROVE QueryOk(d)' /\ WholeOk(d)'
    BY <1>0, <1>1, <1>3, <1>4, CallStays DEF TypeOK
  <1> QED BY <1>5, <1>7, <1>8, <1>9 DEF ManagerInv, CallsInv

LEMMA RegisteredAreEndpoints ==
  ASSUME NEW t
  PROVE  RegisteredEndpoints(t) \subseteq Endpoints
  <1>1. Usable \subseteq Services
    BY ConstantsAssumption DEF ToSet, Usable
  <1> QED BY <1>1, EndpointFacts DEF RegisteredEndpoints

LEMMA InjectiveGrows ==
  ASSUME NEW S, NEW s \in Seq(S), NEW e \in S \ ToSet(s), IsInjective(s)
  PROVE  IsInjective(Append(s, e))
  <1>1. \A i \in DOMAIN Append(s, e) :
          \/ i \in DOMAIN s /\ Append(s, e)[i] = s[i] /\ s[i] # e
          \/ i = Len(s) + 1 /\ Append(s, e)[i] = e
    BY DEF ToSet
  <1>2. /\ DOMAIN s \subseteq Nat /\ Len(s) \in Nat /\ Len(s) + 1 \notin DOMAIN s
        /\ \A i, j \in DOMAIN s : s[i] = s[j] => i = j
    BY DEF IsInjective
  <1> DEFINE a == Append(s, e)
  <1> HIDE DEF a
  <1>3. ASSUME NEW i \in DOMAIN a, NEW j \in DOMAIN a, a[i] = a[j] PROVE i = j
    BY <1>1, <1>2, <1>3 DEF a
  <1>4. IsInjective(a)
    BY <1>3, Zenon DEF IsInjective
  <1> QED BY <1>4 DEF a

(* A query whose loop goes on keeps the invariant.                         *)
LEMMA TurnKeepsInv ==
  ASSUME ManagerInv, NEW c \in Callers, NEW t, NEW i, NEW used, NEW error,
         used = usedEndpoints'[c], Turn(c, t, i, error), Advance(c, t, i, used, error),
         pc[c] = "endpoint", UNCHANGED <<serviceClients, op, type, url, whole>>,
         usedEndpoints' \in [Callers -> SUBSET Endpoints],
         results' \in [Callers -> Seq(Endpoints)], failures' \in 0 .. MaxFailures,
         \A d \in Callers \ {c} :
           usedEndpoints'[d] = usedEndpoints[d] /\ results'[d] = results[d]
  PROVE  ManagerInv'
  <1>0. TypeOK
    BY DEF ManagerInv
  <1>1. /\ QueryOk(c)' /\ WholeOk(c)'
        /\ \E x \in {"endpoint", "done"} : pc' = [pc EXCEPT ![c] = x]
        /\ \E r \in {"none", "ok", "error"} : outcome' = [outcome EXCEPT ![c] = r]
        /\ \E k \in 0 .. MaxClients : index' = [index EXCEPT ![c] = k]
        /\ \E e \in Endpoints \cup {NoClient} : client' = [client EXCEPT ![c] = e]
    BY QueryGoesOn
  <1>2. TypeOK'
    BY <1>0, <1>1 DEF TypeOK
  <1>3. ListInv'
    BY <1>1, ListStays DEF Turn
  <1>4. ASSUME NEW d \in Callers \ {c} PROVE QueryOk(d)' /\ WholeOk(d)'
    BY <1>0, <1>1, CallStays DEF Grows, TypeOK
  <1> QED BY <1>1, <1>2, <1>3, <1>4 DEF ManagerInv, CallsInv

LEMMA EndpointAnswerKeepsInv ==
  ASSUME ManagerInv, NEW c \in Callers, EndpointAnswer(c)
  PROVE  ManagerInv'
  <1>0. /\ TypeOK /\ ListInv /\ pc[c] = "endpoint" /\ QueryOk(c) /\ WholeOk(c)
        /\ UNCHANGED <<serviceClients, op, type, url, whole, failures>>
    BY DEF ManagerInv, CallsInv, EndpointAnswer, args
  <1>1. /\ client[c] \in RegisteredEndpoints(type[c]) \ usedEndpoints[c]
        /\ client[c] \in Endpoints
    BY <1>0, RegisteredAreEndpoints DEF QueryOk
  <1>2. /\ results' = [results EXCEPT ![c] = Append(results[c], client[c])]
        /\ usedEndpoints' = [usedEndpoints EXCEPT ![c] = usedEndpoints[c] \cup {client[c]}]
        /\ results'[c] = Append(results[c], client[c])
        /\ usedEndpoints'[c] = usedEndpoints[c] \cup {client[c]}
        /\ results[c] \in Seq(Endpoints)
    BY <1>0 DEF EndpointAnswer, TypeOK
  <1>3. PICK t, i, used, error :
          t = type[c] /\ i = index[c] /\ used = usedEndpoints'[c] /\ error = outcome[c]
    OBVIOUS
  <1>4. Advance(c, t, i, used, error)
    BY <1>3 DEF EndpointAnswer, Advance, ToAsk, Finish
  <1>5. /\ results'[c] \in Seq(Endpoints) /\ IsInjective(results'[c])
        /\ ToSet(results'[c]) = usedEndpoints'[c]
    <2> DEFINE r == results[c]
               e == client[c]
    <2>1. r \in Seq(Endpoints) /\ e \in Endpoints \ ToSet(r) /\ IsInjective(r)
          /\ ToSet(r) = usedEndpoints[c]
      BY <1>0, <1>1, <1>2 DEF QueryOk
    <2> HIDE DEF r, e
    <2>2. /\ Append(r, e) \in Seq(Endpoints) /\ IsInjective(Append(r, e))
          /\ ToSet(Append(r, e)) = ToSet(r) \cup {e}
      BY <2>1, AppendAdds, InjectiveGrows
    <2> QED BY <1>2, <2>1, <2>2 DEF r, e
  <1>6. Turn(c, t, i, error)
    <2>1. i \in Nat /\ serviceClients # <<>> /\ error \in {"none", "error"}
          /\ op[c] = "query"
      BY <1>0, <1>3 DEF TypeOK, ListInv, QueryOk
    <2>2. usedEndpoints'[c] \subseteq RegisteredEndpoints(t)
      BY <1>0, <1>1, <1>2, <1>3 DEF QueryOk
    <2>3. whole[c] => KnowsAll(serviceClients)
      BY <1>0 DEF WholeOk
    <2>4. ASSUME whole[c], error = "none", NEW j \in DOMAIN serviceClients, j <= i
          PROVE  EndpointOf(serviceClients[j], t) \subseteq usedEndpoints'[c]
      <3>1. j = i \/ j \in 1 .. i - 1
        BY <1>0, <2>1, <2>4 DEF TypeOK
      <3> QED BY <1>0, <1>2, <1>3, <2>4, <3>1 DEF WholeOk
    <2> QED BY <1>0, <1>3, <1>5, <2>1, <2>2, <2>3, <2>4 DEF Turn
  <1>7. /\ usedEndpoints' \in [Callers -> SUBSET Endpoints]
        /\ results' \in [Callers -> Seq(Endpoints)] /\ failures' \in 0 .. MaxFailures
        /\ \A d \in Callers \ {c} :
             usedEndpoints'[d] = usedEndpoints[d] /\ results'[d] = results[d]
    BY <1>0, <1>1, <1>2, <1>5 DEF TypeOK
  <1> QED BY <1>0, <1>3, <1>4, <1>6, <1>7, TurnKeepsInv

LEMMA EndpointFailKeepsInv ==
  ASSUME ManagerInv, NEW c \in Callers, EndpointFail(c)
  PROVE  ManagerInv'
  <1>0. /\ TypeOK /\ ListInv /\ pc[c] = "endpoint" /\ QueryOk(c) /\ WholeOk(c)
        /\ UNCHANGED <<serviceClients, op, type, url, whole, usedEndpoints, results>>
    BY DEF ManagerInv, CallsInv, EndpointFail, args
  <1>1. PICK t, i, used : t = type[c] /\ i = index[c] /\ used = usedEndpoints'[c]
    OBVIOUS
  <1>2. Advance(c, t, i, used, "error")
    BY <1>0, <1>1 DEF EndpointFail, ErrorKept, Advance, ToAsk, Finish
  <1>3. Turn(c, t, i, "error")
    BY <1>0, <1>1 DEF Turn, TypeOK, ListInv, QueryOk, WholeOk
  <1>4. failures' \in 0 .. MaxFailures
    BY <1>0, ConstantsAssumption DEF EndpointFail, Fail, TypeOK
  <1> QED BY <1>0, <1>1, <1>2, <1>3, <1>4, TurnKeepsInv DEF TypeOK

LEMMA FinishKeepsInv ==
  ASSUME ManagerInv, NEW c \in Callers, pc[c] \in {"services", "post"},
         NEW r \in {"ok", "error"}, Finish(c, r), r = "ok" => pc[c] = "post",
         UNCHANGED <<serviceClients, args, queryVars, whole>>,
         failures' \in 0 .. MaxFailures
  PROVE  ManagerInv'
  <1>0. TypeOK /\ ListInv /\ QueryOk(c) /\ WholeOk(c) /\ serviceClients # <<>>
    BY DEF ManagerInv, CallsInv, ListInv
  <1>1. /\ pc' = [pc EXCEPT ![c] = "done"] /\ outcome' = [outcome EXCEPT ![c] = r]
        /\ UNCHANGED <<serviceClients, op, type, url, index, usedEndpoints, results, client, whole>>
    BY DEF Finish, args, queryVars
  <1>2. TypeOK'
    BY <1>0, <1>1 DEF TypeOK
  <1>3. ListInv'
    <2>1. Waiting' \subseteq Waiting
      BY <1>0, <1>1 DEF Waiting, TypeOK
    <2>2. Cardinality(Callers \ Waiting) <= Cardinality(Callers \ Waiting')
          /\ Cardinality(Callers \ Waiting) \in Nat /\ Cardinality(Callers \ Waiting') \in Nat
      <3> HIDE DEF Waiting
      <3>1. IsFiniteSet(Callers \ Waiting) /\ IsFiniteSet(Callers \ Waiting')
        BY ConstantsAssumption, FS_Difference
      <3>2. Callers \ Waiting \subseteq Callers \ Waiting'
        BY <2>1
      <3> QED BY <3>1, <3>2, FS_Subset, FS_CardinalityType
    <2>3. /\ Len(Registered) \in Nat /\ Len(serviceClients) \in Nat
          /\ \A k, m, l \in Nat : k <= m => k * l <= m * l /\ k * l \in Nat /\ m * l \in Nat
      BY <1>0, ConstantsAssumption DEF TypeOK
    <2> HIDE DEF Waiting
    <2> QED BY <1>0, <1>1, <2>2, <2>3 DEF ListInv
  <1>4. QueryOk(c)' /\ WholeOk(c)'
    BY <1>0, <1>1 DEF QueryOk, WholeOk, TypeOK, RegisteredEndpoints
  <1>5. ASSUME NEW d \in Callers \ {c} PROVE QueryOk(d)' /\ WholeOk(d)'
    BY <1>0, <1>1, CallStays DEF Grows, TypeOK
  <1> QED BY <1>2, <1>3, <1>4, <1>5 DEF ManagerInv, CallsInv

LEMMA ReturnKeepsInv ==
  ASSUME ManagerInv, NEW c \in Callers, Return(c)
  PROVE  ManagerInv'
  <1>0. TypeOK /\ UNCHANGED serviceClients /\ UNCHANGED <<op, type, url, failures>>
    BY DEF ManagerInv, Return, args
  <1>1. TypeOK'
    <2>1. <<>> \in Seq(Endpoints) /\ MaxClients \in Nat
      <3>1. Cardinality(Callers) * Len(Registered) \in Nat
        BY ConstantsAssumption, FS_CardinalityType
      <3> QED BY <3>1 DEF MaxClients
    <2> QED BY <1>0, <2>1 DEF TypeOK, Return
  <1>2. ListInv'
    BY ListStays DEF Return
  <1>3. QueryOk(c)' /\ WholeOk(c)'
    BY <1>0 DEF Return, TypeOK, QueryOk, WholeOk, IsInjective, ToSet
  <1>4. ASSUME NEW d \in Callers \ {c} PROVE QueryOk(d)' /\ WholeOk(d)'
    BY <1>0, CallStays DEF Return, Grows, TypeOK
  <1> QED BY <1>1, <1>2, <1>3, <1>4 DEF ManagerInv, CallsInv

LEMMA InitInv == Init => ManagerInv
  <1> SUFFICES ASSUME Init PROVE ManagerInv
    OBVIOUS
  <1>1. <<>> \in Seq(Services) /\ <<>> \in Seq(Endpoints) /\ Len(<<>>) = 0
        /\ ToSet(<<>>) = {} /\ IsInjective(<<>>)
    BY DEF ToSet, IsInjective
  <1>2. /\ Cardinality(Callers) * Len(Registered) \in Nat
        /\ Cardinality(Callers \ Waiting) * Len(Registered) \in Nat
    <2> HIDE DEF Waiting
    <2>1. IsFiniteSet(Callers \ Waiting)
      BY ConstantsAssumption, FS_Difference
    <2> QED BY <2>1, ConstantsAssumption, FS_CardinalityType
  <1>3. TypeOK
    BY <1>1, <1>2, ConstantsAssumption DEF Init, TypeOK, Operations, MaxClients
  <1>4. ListInv
    <2> HIDE DEF Waiting
    <2> QED BY <1>1, <1>2 DEF Init, ListInv
  <1>5. CallsInv
    BY <1>1 DEF Init, CallsInv, QueryOk, WholeOk
  <1> QED BY <1>3, <1>4, <1>5 DEF ManagerInv

LEMMA NextKeepsInv == ManagerInv /\ [Next]_vars => ManagerInv'
  <1> SUFFICES ASSUME ManagerInv, [Next]_vars PROVE ManagerInv'
    OBVIOUS
  <1>1. CASE UNCHANGED vars
    <2>1. TypeOK'
      BY <1>1 DEF vars, ManagerInv, TypeOK
    <2>2. ListInv'
      BY <1>1 DEF vars, ManagerInv, ListInv, Waiting
    <2>3. CallsInv'
      BY <1>1, CallStays DEF vars, CallsInv, Grows
    <2> QED BY <2>1, <2>2, <2>3 DEF ManagerInv
  <1>2. ASSUME NEW c \in Callers,
               Call(c) \/ Answer(c) \/ ServicesFail(c) \/ EndpointFail(c) \/ Return(c)
        PROVE  ManagerInv'
    <2>1. CASE PostAnswer(c)
      <3>1. failures' \in 0 .. MaxFailures
        BY <2>1, ConstantsAssumption DEF PostAnswer, Fail, ManagerInv, TypeOK
      <3> QED BY <2>1, <3>1, FinishKeepsInv DEF PostAnswer
    <2>2. CASE ServicesFail(c)
      <3>1. failures' \in 0 .. MaxFailures
        BY <2>2, ConstantsAssumption DEF ServicesFail, Fail, ManagerInv, TypeOK
      <3> QED BY <2>2, <3>1, FinishKeepsInv DEF ServicesFail
    <2> QED BY <1>2, <2>1, <2>2, CallKeepsInv, ReadyKeepsInv, ServicesAnswerKeepsInv,
               EndpointAnswerKeepsInv, EndpointFailKeepsInv, ReturnKeepsInv DEF Answer
  <1> QED BY <1>1, <1>2 DEF Next

-----------------------------------------------------------------------------
(* The inductive invariant: what a list that overlapping calls empty, fill *)
(* and iterate over still guarantees each of them.                         *)
THEOREM ManagerInvariant == Spec => []ManagerInv
  BY InitInv, NextKeepsInv, PTL DEF Spec

(* Type correctness; in particular the list never outgrows MaxClients,     *)
(* however often overlapping calls of init() fill it.                      *)
THEOREM ManagerTypeCorrect == Spec => []TypeOK
  BY ManagerInvariant, PTL DEF ManagerInv

(* query() never asks an endpoint for the same resources twice.            *)
THEOREM EndpointsAreAskedOnce == Spec => []EndpointsOnce
  <1>1. ManagerInv => EndpointsOnce
    BY DEF ManagerInv, CallsInv, QueryOk, EndpointsOnce
  <1> QED BY <1>1, ManagerInvariant, PTL

(* query() has asked every registered endpoint of its type when it         *)
(* succeeds, unless another init() began meanwhile.                        *)
THEOREM QueriesAreComplete == Spec => []QueryComplete
  <1>1. ManagerInv => QueryComplete
    <2> SUFFICES ASSUME ManagerInv, NEW c \in Callers, pc[c] = "done", op[c] = "query",
                        outcome[c] = "ok", whole[c]
                 PROVE  ToSet(results[c]) = RegisteredEndpoints(type[c])
      BY DEF QueryComplete
    <2>1. QueryOk(c) /\ WholeOk(c)
      BY DEF ManagerInv, CallsInv
    <2>2. ToSet(results[c]) = usedEndpoints[c]
          /\ usedEndpoints[c] \subseteq RegisteredEndpoints(type[c])
      BY <2>1 DEF QueryOk
    <2>3. RegisteredEndpoints(type[c]) \subseteq usedEndpoints[c]
      BY <2>1 DEF WholeOk
    <2> QED BY <2>2, <2>3
  <1> QED BY <1>1, ManagerInvariant, PTL

(* init() leaves every registered service known, unless another one began. *)
THEOREM InitsAreComplete == Spec => []InitComplete
  <1>1. ManagerInv => InitComplete
    BY DEF ManagerInv, CallsInv, WholeOk, InitComplete
  <1> QED BY <1>1, ManagerInvariant, PTL
=============================================================================
