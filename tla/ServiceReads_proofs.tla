-------------------------- MODULE ServiceReads_proofs --------------------------
(***************************************************************************)
(* Proofs about what the callers of Service read: the pages of queries, and
   the resources they created, over a table whose reads are eventually
   consistent; and what filters of queries mean to each database.

   As in Service_proofs, the parts of the invariant are operators of the
   values that they relate: C stands for call, O for outcome, L for listing,
   E for executions, T for table, G for lagging, F for effects; and of one
   caller, r for its call, s for its answers, l for its listing.           *)
(***************************************************************************)
EXTENDS Service_proofs

Active == {"sign", "token", "sent", "sleep"}

-----------------------------------------------------------------------------
(* Pages.                                                                  *)

Order(c, step) ==
  IF deployment.backend = "DynamoDB" THEN Request(c, step).order ELSE "asc"

(* A document comes after a token, or up to it.                            *)
Beyond(c, step, token, i) == token = 0 \/ Precedes(Order(c, step), token, i)
Upto(c, step, token, i) == i = token \/ Precedes(Order(c, step), i, token)

PageTokens == {t \in Ids \cup {0} : deployment.backend = "CosmosDB" => t = 0}

Paged(c, step) == Request(c, step).kind = "items" /\ Request(c, step).method = "GET"

IsListing(l) == l = [token |-> l.token, got |-> l.got, twice |-> l.twice, due |-> l.due]

(* The pages so far have nothing from beyond the token, and everything that *)
(* is due up to it.                                                        *)
ListingOk(l, c, step) ==
  /\ l.token \in PageTokens /\ l.got \subseteq Ids /\ l.due \subseteq Ids
  /\ l.token = 0 => l.got = {}
  /\ \A i \in l.got : Upto(c, step, l.token, i)
  /\ l.due # {} => Paged(c, step)
  /\ \A i \in l.due : i \in l.got \/ Beyond(c, step, l.token, i)

VisibleIn(T, G, i) ==
  {T[i]} \cup IF Eventual(deployment.backend) THEN {old[1] : old \in G[i]} ELSE {}

(* Whatever a read may see of a document that is due matches the filter.   *)
DueOk(l, c, step, T, G) ==
  \A i \in l.due : \A doc \in VisibleIn(T, G, i) : Matches(Request(c, step).filter, doc)

CallerPages(r, s, l, c, T, G) ==
  /\ IsListing(l) /\ l.twice = {}
  /\ r.pc \in Active => ListingOk(l, c, Len(s) + 1) /\ DueOk(l, c, Len(s) + 1, T, G)

(* A page that an execution took continues from its token ...              *)
PageOk(x, page, token) ==
  /\ page \subseteq Ids /\ token \in PageTokens
  /\ \A i \in page : Beyond(x.caller, x.step, x.token, i)
  /\ token # 0 => /\ Beyond(x.caller, x.step, x.token, token)
                  /\ \A i \in page : Upto(x.caller, x.step, token, i)

(* ... and leaves out nothing that is due, unless it comes later.          *)
PageFull(x, page, token, due) ==
  \A i \in due :
    Beyond(x.caller, x.step, x.token, i) =>
      i \in page \/ (token # 0 /\ Precedes(Order(x.caller, x.step), token, i))

TakenOk(x, due) ==
  /\ deployment.backend = "Firestore"
  /\ x.page \subseteq Ids
  /\ \A i \in x.page : Beyond(x.caller, x.step, x.token, i)
  /\ ~ x.orphan => \A i \in due :
       Beyond(x.caller, x.step, x.token, i) =>
         \/ i \in x.page
         \/ x.page # {} /\ \A j \in x.page : Precedes(Order(x.caller, x.step), j, i)

ExecutionPages(x, l) ==
  /\ x.token \in PageTokens /\ (~ x.orphan => x.token = l.token)
  /\ x.at \in {"query", "next"} => Of(x).kind = "items"
  /\ x.at = "get" => Of(x).kind = "item"
  /\ x.at = "next" => TakenOk(x, l.due)
  /\ x.at = "respond" =>
       /\ PageOk(x, x.answer.results, x.answer.token)
       /\ ~ x.orphan /\ x.answer.status < 400 =>
            PageFull(x, x.answer.results, x.answer.token, l.due)

-----------------------------------------------------------------------------
(* Created resources.                                                      *)

Deleted(F, i) == \E e \in F : e.id = i /\ e.doc = NoDoc

(* What a caller created first, which identifier 0 in its program means.   *)
Creates(s) == {k \in DOMAIN s : s[k].status = 201}
Own(s) == s[CHOOSE k \in Creates(s) : \A l \in Creates(s) : k <= l].id

(* Units of time that have passed since the request began, at least.       *)
Elapsed(r) == IF r.pc = "sleep" /\ r.wait = 0 THEN r.attempt ELSE r.attempt - 1

(* As long as nobody deletes it, reads that miss it become impossible.     *)
CallerLag(r, s, G, F) ==
  r.pc \in Active /\ Creates(s) # {} /\ ~ Deleted(F, Own(s)) =>
    \A old \in G[Own(s)] : old[1] = NoDoc => old[2] + Elapsed(r) <= Lag

Seeks(c, step, s) ==
  Request(c, step).kind = "item" /\ Request(c, step).id = 0 /\ Creates(s) # {}

ExecutionLag(x, r, s, F) ==
  ~ x.orphan =>
    /\ x.attempt = r.attempt
    /\ x.at = "respond" /\ x.answer.status = 404 /\ Seeks(x.caller, x.step, s)
         => Deleted(F, Own(s)) \/ x.attempt < MaxAttempts

(* Answers tell of resources that exist, or were deleted.                  *)
AnswersOk(s, c, F) ==
  \A k \in DOMAIN s :
    /\ s[k].status = 201 => \E e \in F : e.id = s[k].id
    /\ /\ s[k].status = 404 /\ Request(c, k).kind = "item" /\ Request(c, k).id = 0
       /\ \E j \in 1 .. k - 1 : s[j].status = 201
       => Deleted(F, Own(s))

(* Only a deletion takes away what was written.                            *)
StoredOk(T, F) == \A e \in F : T[e.id] = NoDoc => Deleted(F, e.id)

-----------------------------------------------------------------------------
(* Types, and the inductive invariant.                                     *)

CallerTypes(r, s, c) ==
  /\ r.attempt \in 0 .. MaxAttempts /\ r.wait \in 0 .. 1
  /\ r.pc = "token" => Authenticator(c) \in CachedTypes
  /\ Len(s) <= Len(deployment.program[c])

TableTypes(T, G) ==
  /\ T \in [Ids -> Docs \cup {NoDoc}]
  /\ G \in [Ids -> SUBSET ((Docs \cup {NoDoc}) \X (1 .. Lag))]

CallerReads(r, s, l, c, T, G, F) ==
  /\ CallerTypes(r, s, c) /\ CallerPages(r, s, l, c, T, G)
  /\ CallerLag(r, s, G, F) /\ AnswersOk(s, c, F)

ExecutionReads(x, r, s, l, F) ==
  x.id \in Ids \cup {0} /\ ExecutionPages(x, l) /\ ExecutionLag(x, r, s, F)

CallersRead(C, O, L, T, G, F) ==
  \A c \in Callers : CallerReads(C[c], O[c], L[c], c, T, G, F)

ExecutionsRead(C, O, L, E, F) ==
  \A x \in E : ExecutionReads(x, C[x.caller], O[x.caller], L[x.caller], F)

TableOk(T, G, F) ==
  /\ TableTypes(T, G) /\ StoredOk(T, F)
  /\ \A e \in F : e.id \in Ids

Credentials == [CachedTypes -> [held : BOOLEAN, life : 0 .. TokenLife]]

ReadsInv ==
  /\ listing = [c \in Callers |-> listing[c]]
  /\ credential \in Credentials
  /\ loaded \in BOOLEAN /\ faults \in 0 .. MaxFaults
  /\ TableOk(table, lagging, effects)
  /\ CallersRead(call, outcome, listing, table, lagging, effects)
  /\ ExecutionsRead(call, outcome, listing, executions, effects)

-----------------------------------------------------------------------------
(* Pages: the order of identifiers, the last of a set, and what a page is   *)
(* of the set that it is taken from.                                       *)

LEMMA OrderIs ==
  ASSUME NEW order
  PROVE  /\ \A i \in Nat : ~ Precedes(order, i, i)
         /\ \A i, j \in Nat : i = j \/ Precedes(order, i, j) \/ Precedes(order, j, i)
         /\ \A i, j, k \in Nat :
              Precedes(order, i, j) /\ Precedes(order, j, k) => Precedes(order, i, k)
  BY DEF Precedes

(* A finite set has a first and a last identifier.                         *)
LEMMA FirstExists ==
  ASSUME NEW order, NEW S, S \subseteq Nat, IsFiniteSet(S), S # {}
  PROVE  \E i \in S : \A j \in S : i = j \/ Precedes(order, i, j)
  <1> DEFINE before(i) == {j \in S : Precedes(order, j, i)}
             counts == {Cardinality(before(i)) : i \in S}
  <1>1. \A i \in S : IsFiniteSet(before(i)) /\ Cardinality(before(i)) \in Nat
    BY FS_Subset, FS_CardinalityType
  <1>2. counts \subseteq Nat /\ counts # {}
    BY <1>1
  <1>3. PICK n \in counts : \A m \in counts : n <= m
    BY <1>2, LeastExists
  <1>4. PICK i \in S : \A j \in S : Cardinality(before(i)) <= Cardinality(before(j))
    BY <1>3
  <1>5. ASSUME NEW j \in before(i) PROVE FALSE
    <2>1. before(j) \subseteq before(i) /\ j \notin before(j)
      BY <1>5, OrderIs
    <2>2. Cardinality(before(j)) < Cardinality(before(i))
      <3>1. before(j) \in SUBSET before(i) /\ before(j) # before(i) /\ j \in S
        BY <1>5, <2>1
      <3>2. /\ Cardinality(before(j)) <= Cardinality(before(i))
            /\ Cardinality(before(j)) # Cardinality(before(i))
        BY <1>1, <3>1, FS_Subset
      <3> QED BY <1>1, <3>1, <3>2
    <2> QED BY <1>1, <1>4, <1>5, <2>2
  <1>6. \A j \in S : i = j \/ Precedes(order, i, j)
    BY <1>5, OrderIs
  <1> QED BY <1>6

LEMMA LastExists ==
  ASSUME NEW order, NEW S, S \subseteq Nat, IsFiniteSet(S), S # {}
  PROVE  \E i \in S : \A j \in S : i = j \/ Precedes(order, j, i)
  <1> DEFINE other == IF order = "desc" THEN "asc" ELSE "desc"
  <1>1. \A i, j : Precedes(other, i, j) <=> Precedes(order, j, i)
    BY DEF Precedes
  <1>2. \E i \in S : \A j \in S : i = j \/ Precedes(other, i, j)
    BY FirstExists
  <1> QED BY <1>1, <1>2

LEMMA LastOfIs ==
  ASSUME NEW order, NEW S, S \subseteq Nat, IsFiniteSet(S), S # {}
  PROVE  LastOf(S, order) \in S /\ \A j \in S : LastOf(S, order) = j \/ Precedes(order, j, LastOf(S, order))
  BY LastExists DEF LastOf

(* A page that is not the whole rest is full, and before all that it leaves *)
(* out; one of a rest is not empty.                                        *)
LEMMA PageIs ==
  ASSUME NEW order, NEW S, S \subseteq Nat, IsFiniteSet(S), NEW token, NEW size \in Nat
  PROVE  LET page == Page(S, token, size, order)
             rest == {i \in S : token = 0 \/ Precedes(order, token, i)}
         IN  /\ page \subseteq rest /\ IsFiniteSet(page)
             /\ \A i \in rest \ page :
                  size > 0 /\ Cardinality(page) = size /\ \A j \in page : Precedes(order, j, i)
             /\ rest # {} => page # {}
  <1> DEFINE page == Page(S, token, size, order)
             rest == {i \in S : token = 0 \/ Precedes(order, token, i)}
             before(i) == {j \in rest : Precedes(order, j, i)}
  <1>1. page = {i \in rest : size = 0 \/ Cardinality(before(i)) < size}
    BY DEF Page
  <1>2. IsFiniteSet(rest) /\ rest \subseteq Nat
    BY FS_Subset
  <1> HIDE DEF page, rest
  <1>3. \A i \in rest : IsFiniteSet(before(i)) /\ Cardinality(before(i)) \in Nat
    BY <1>2, FS_Subset, FS_CardinalityType
  <1>4. page \subseteq rest /\ IsFiniteSet(page) /\ Cardinality(page) \in Nat
    BY <1>1, <1>2, FS_Subset, FS_CardinalityType
  <1>5. ASSUME NEW i \in rest \ page, NEW j \in page PROVE Precedes(order, j, i)
    <2>1. size # 0 /\ Cardinality(before(i)) >= size /\ Cardinality(before(j)) < size
      <3>1. /\ Cardinality(before(i)) \in Nat /\ ~ (size = 0 \/ Cardinality(before(i)) < size)
            /\ size = 0 \/ Cardinality(before(j)) < size
        BY <1>1, <1>3, <1>4, <1>5
      <3> QED BY <3>1
    <2>2. i \in Nat /\ j \in Nat /\ i # j /\ i \in rest /\ j \in rest
      BY <1>2, <1>4, <1>5
    <2>3. ASSUME Precedes(order, i, j) PROVE FALSE
      <3>1. before(i) \subseteq before(j)
        BY <1>2, <2>2, <2>3, OrderIs
      <3>2. Cardinality(before(i)) <= Cardinality(before(j))
        BY <1>3, <2>2, <3>1, FS_Subset
      <3> QED BY <1>3, <2>1, <2>2, <3>2
    <2> QED BY <2>2, <2>3, OrderIs
  <1>6. ASSUME NEW i \in rest \ page PROVE size > 0 /\ Cardinality(page) = size
    <2>1. PICK k \in rest \ page : \A j \in rest \ page : k = j \/ Precedes(order, k, j)
      <3>1. rest \ page \subseteq Nat /\ IsFiniteSet(rest \ page) /\ rest \ page # {}
        BY <1>2, <1>6, FS_Subset
      <3> QED BY <3>1, FirstExists
    <2>2. k \in Nat /\ k \in rest
      BY <1>2, <2>1
    <2>3. before(k) = page
      <3>1. ASSUME NEW j \in before(k) PROVE j \in page
        <4>1. j \in rest /\ j \in Nat /\ Precedes(order, j, k)
          BY <1>2, <3>1
        <4>2. ~ (k = j \/ Precedes(order, k, j))
          BY <2>2, <4>1, OrderIs
        <4> QED BY <2>1, <4>1, <4>2
      <3>2. page \subseteq before(k)
        BY <1>4, <1>5, <2>1
      <3> QED BY <3>1, <3>2
    <2>4. size # 0 /\ Cardinality(page) >= size
      BY <1>1, <1>3, <2>1, <2>2, <2>3
    <2>5. Cardinality(page) <= size
      <3>1. CASE page = {}
        BY <3>1, <2>4, FS_EmptySet
      <3>2. CASE page # {}
        <4>1. PICK m \in page : \A j \in page : m = j \/ Precedes(order, j, m)
          BY <1>2, <1>4, <3>2, LastExists
        <4>2. page \ {m} \subseteq before(m) /\ m \in rest
          BY <1>4, <4>1
        <4>3. Cardinality(before(m)) < size
          BY <1>1, <2>4, <4>1
        <4>4. Cardinality(page \ {m}) <= Cardinality(before(m))
          BY <1>3, <4>2, FS_Subset
        <4>5. Cardinality(page \ {m}) = Cardinality(page) - 1
          BY <1>4, <4>1, FS_RemoveElement
        <4> HIDE DEF before
        <4>6. Cardinality(before(m)) \in Nat
          BY <1>3, <4>2
        <4> QED BY <1>4, <4>3, <4>4, <4>5, <4>6
      <3> QED BY <3>1, <3>2
    <2> QED BY <1>4, <2>4, <2>5
  <1>7. ASSUME rest # {}, page = {} PROVE FALSE
    <2>1. PICK i \in rest : i \in rest \ page
      BY <1>7
    <2>2. size > 0 /\ Cardinality(page) = size
      BY <1>6, <2>1
    <2> QED BY <1>7, <2>2, FS_EmptySet
  <1> QED BY <1>4, <1>5, <1>6, <1>7 DEF page, rest

(* What the queries of the tables answer, of a view in which all that is    *)
(* due matches.                                                            *)
LEMMA IdsAre ==
  ASSUME NEW S, S \subseteq Ids
  PROVE  S \subseteq Nat /\ IsFiniteSet(S) /\ 0 \notin S
  BY TableAssumption, FS_Subset

LEMMA DynamoPage ==
  ASSUME NEW x, deployment.backend = "DynamoDB", Of(x).size \in Nat, NEW view, NEW due,
         due \subseteq Ids, \A i \in due : Matches(Of(x).filter, view[i])
  PROVE  LET p == DynamoDbQuery(view, Of(x), x.token)
         IN  PageOk(x, p.results, p.token) /\ PageFull(x, p.results, p.token, due)
  <1> DEFINE q == Of(x)
             order == q.order
             S == {i \in Ids : view[i] # NoDoc}
             page == Page(S, x.token, q.size, order)
             rest == {i \in S : x.token = 0 \/ Precedes(order, x.token, i)}
             results == {i \in page : Matches(q.filter, view[i])}
             full == q.size > 0 /\ Cardinality(page) = q.size
             token == IF full THEN LastOf(page, order) ELSE 0
  <1>1. DynamoDbQuery(view, q, x.token) = [results |-> results, token |-> token]
    BY DEF DynamoDbQuery
  <1>2. order = Order(x.caller, x.step)
    BY DEF Order, Of
  <1>3. /\ page \subseteq rest /\ IsFiniteSet(page)
        /\ \A i \in rest \ page : full /\ \A j \in page : Precedes(order, j, i)
    <2>1. S \subseteq Nat /\ IsFiniteSet(S) /\ q.size \in Nat
      BY IdsAre
    <2> HIDE DEF S, q
    <2> QED BY <2>1, PageIs
  <1> HIDE DEF page
  <1>4. page \subseteq Ids /\ page \subseteq Nat /\ 0 \notin page
    BY <1>3, IdsAre
  <1>5. full => /\ token \in page /\ \A j \in page : token = j \/ Precedes(order, j, token)
    <2>1. full => page # {}
      BY FS_EmptySet
    <2> QED BY <1>3, <1>4, <2>1, LastOfIs
  <1>6. token = 0 \/ full
    OBVIOUS
  <1> HIDE DEF token, full
  <1>7. PageOk(x, results, token)
    BY <1>2, <1>3, <1>4, <1>5, <1>6 DEF PageOk, PageTokens, Beyond, Upto
  <1>8. PageFull(x, results, token, due)
    <2>1. ASSUME NEW i \in due, x.token = 0 \/ Precedes(order, x.token, i), i \notin results
          PROVE  token # 0 /\ Precedes(order, token, i)
      <3>1. i \in rest
        BY <2>1 DEF Matches
      <3>2. i \notin page
        BY <2>1
      <3> QED BY <1>3, <1>4, <1>5, <3>1, <3>2
    <2> QED BY <1>2, <2>1 DEF PageFull, Beyond
  <1> QED BY <1>1, <1>7, <1>8

LEMMA CosmosPage ==
  ASSUME NEW x, x.token = 0, NEW view, NEW due,
         due \subseteq Ids, \A i \in due : Matches(Of(x).filter, view[i])
  PROVE  LET p == CosmosDbQuery(view, Of(x))
         IN  PageOk(x, p.results, p.token) /\ PageFull(x, p.results, p.token, due)
  BY DEF CosmosDbQuery, PageOk, PageFull, Beyond, PageTokens

LEMMA FirestorePage ==
  ASSUME NEW x, deployment.backend = "Firestore", x.token = 0, Of(x).size \in Nat,
         NEW view, NEW due, due \subseteq Ids, \A i \in due : Matches(Of(x).filter, view[i])
  PROVE  LET page == FirestoreQuery(view, Of(x))
         IN  /\ page \subseteq Ids /\ IsFiniteSet(page)
             /\ \A i \in page : Beyond(x.caller, x.step, x.token, i)
             /\ \A i \in due :
                  Beyond(x.caller, x.step, x.token, i) =>
                    \/ i \in page
                    \/ page # {} /\ \A j \in page : Precedes(Order(x.caller, x.step), j, i)
  <1> DEFINE q == Of(x)
             S == {i \in Ids : Matches(q.filter, view[i])}
             page == Page(S, x.token, q.size, "asc")
             rest == {i \in S : x.token = 0 \/ Precedes("asc", x.token, i)}
  <1>1. FirestoreQuery(view, q) = page /\ Order(x.caller, x.step) = "asc"
    BY DEF FirestoreQuery, Order
  <1>2. /\ page \subseteq rest /\ IsFiniteSet(page)
        /\ \A i \in rest \ page : /\ q.size > 0 /\ Cardinality(page) = q.size
                                  /\ \A j \in page : Precedes("asc", j, i)
    <2>1. S \subseteq Nat /\ IsFiniteSet(S) /\ q.size \in Nat
      BY IdsAre
    <2> HIDE DEF S, q
    <2> QED BY <2>1, PageIs
  <1>3. \A i \in rest \ page : page # {}
    <2> HIDE DEF page, rest
    <2> QED BY <1>2, FS_EmptySet
  <1> HIDE DEF page
  <1> QED BY <1>1, <1>2, <1>3 DEF Beyond

LEMMA NextPage ==
  ASSUME NEW x, NEW due, TakenOk(x, due), Of(x).size \in Nat, NEW view,
         due \subseteq Ids, \A i \in due : Matches(Of(x).filter, view[i])
  PROVE  LET token == NextPageStartToken(view, Of(x), x.page)
         IN  PageOk(x, x.page, token) /\ (~ x.orphan => PageFull(x, x.page, token, due))
  <1> DEFINE q == Of(x)
             last == LastOf(x.page, "asc")
             S == {i \in Ids : Matches(q.filter, view[i])}
             rest == {i \in S : last = 0 \/ Precedes("asc", last, i)}
             more == Page(S, last, 1, "asc")
             token == NextPageStartToken(view, q, x.page)
  <1>1. Order(x.caller, x.step) = "asc" /\ deployment.backend # "CosmosDB"
    BY DEF TakenOk, Order
  <1>2. x.page \subseteq Ids /\ x.page \subseteq Nat /\ IsFiniteSet(x.page) /\ 0 \notin x.page
    BY IdsAre DEF TakenOk
  <1>3. x.page # {} => last \in x.page /\ \A j \in x.page : last = j \/ Precedes("asc", j, last)
    BY <1>2, LastOfIs
  <1>4. rest # {} => more # {}
    <2>1. S \subseteq Nat /\ IsFiniteSet(S) /\ 1 \in Nat
      BY IdsAre
    <2>2. more = Page(S, last, 1, "asc")
      OBVIOUS
    <2> HIDE DEF S, q, last, more
    <2> QED BY <2>1, <2>2, PageIs
  <1>5. token = IF x.page = {} \/ more = {} THEN 0 ELSE last
    BY DEF NextPageStartToken
  <1> HIDE DEF last, more, token
  <1>6. PageOk(x, x.page, token)
    BY <1>1, <1>2, <1>3, <1>5 DEF PageOk, PageTokens, Upto, TakenOk
  <1>7. ASSUME ~ x.orphan PROVE PageFull(x, x.page, token, due)
    <2>1. ASSUME NEW i \in due, Beyond(x.caller, x.step, x.token, i), i \notin x.page
          PROVE  token # 0 /\ Precedes("asc", token, i)
      <3>1. x.page # {} /\ \A j \in x.page : Precedes("asc", j, i)
        BY <1>1, <1>7, <2>1 DEF TakenOk
      <3>2. Precedes("asc", last, i) /\ last # 0
        BY <1>2, <1>3, <3>1
      <3>3. i \in rest
        BY <2>1, <3>2
      <3> QED BY <1>4, <1>5, <3>1, <3>2, <3>3
    <2> QED BY <1>1, <2>1 DEF PageFull
  <1> QED BY <1>6, <1>7 DEF token

-----------------------------------------------------------------------------
(* An execution goes on with the token and the attempt that it began with. *)

Carries(x, y) ==
  Follows(x, y) /\ y.orphan = x.orphan /\ y.attempt = x.attempt /\ y.token = x.token

LEMMA RespondedCarries ==
  ASSUME NEW x, IsExecution(x), NEW a, IsAnswer(a)
  PROVE  LET y == Responding(x, a)
         IN  Carries(x, y) /\ y.id = x.id /\ y.at = "respond" /\ y.answer = a
  <1>1. DOMAIN x = Fields
    BY FieldsAre
  <1>2. Responding(x, a).attempt = x.attempt /\ Responding(x, a).token = x.token
    BY <1>1 DEF Responding, Fields
  <1> QED BY <1>2, Responded DEF Carries

LEMMA MovedCarries ==
  ASSUME NEW x, IsExecution(x), NEW p
  PROVE  LET y == [x EXCEPT !.at = p]
         IN  Carries(x, y) /\ y.id = x.id /\ y.at = p /\ y.answer = x.answer
  <1>1. DOMAIN x = Fields
    BY FieldsAre
  <1>2. [x EXCEPT !.at = p].attempt = x.attempt /\ [x EXCEPT !.at = p].token = x.token
    BY <1>1 DEF Fields
  <1> QED BY <1>2, Moved DEF Carries

LEMMA HookCarries ==
  ASSUME NEW x, IsExecution(x), NEW i
  PROVE  LET y == [x EXCEPT !.at = "completed", !.id = i]
         IN  Carries(x, y) /\ y.id = i /\ y.at = "completed" /\ y.answer = x.answer
  <1> DEFINE y == [x EXCEPT !.at = "completed", !.id = i]
  <1>1. DOMAIN x = Fields
    BY FieldsAre
  <1>2. y.attempt = x.attempt /\ y.token = x.token
    BY <1>1 DEF Fields
  <1> QED BY <1>2, MovedToHook DEF Carries

LEMMA NextCarries ==
  ASSUME NEW x, IsExecution(x), NEW page
  PROVE  LET y == [x EXCEPT !.at = "next", !.page = page]
         IN  Carries(x, y) /\ y.id = x.id /\ y.at = "next" /\ y.page = page
  <1> DEFINE y == [x EXCEPT !.at = "next", !.page = page]
  <1>1. DOMAIN x = Fields
    BY FieldsAre
  <1>2. y.attempt = x.attempt /\ y.token = x.token /\ y.page = page
    BY <1>1 DEF Fields
  <1> QED BY <1>2, MovedToNext DEF Carries

LEMMA OrphanIs ==
  ASSUME NEW x, IsExecution(x)
  PROVE  LET y == [x EXCEPT !.orphan = TRUE]
         IN  /\ Follows(x, y) /\ y.orphan /\ y.token = x.token /\ y.id = x.id
             /\ y.at = x.at /\ y.page = x.page /\ y.answer = x.answer
  <1> DEFINE y == [x EXCEPT !.orphan = TRUE]
  <1>1. DOMAIN x = Fields
    BY FieldsAre
  <1>2. y.page = x.page /\ y.token = x.token
    BY <1>1 DEF Fields
  <1> QED BY <1>2, Orphaned

LEMMA PlainAnswer ==
  ASSUME NEW status \in Nat
  PROVE  /\ IsAnswer(Answer(status)) /\ Answer(status).status = status
         /\ Answer(status).results = {} /\ Answer(status).token = 0
  BY DEF IsAnswer, Answer

LEMMA RequestIs ==
  ASSUME deployment \in Deployments, NEW c \in Callers, NEW step \in DOMAIN deployment.program[c]
  PROVE  /\ Request(c, step) \in Requests /\ Request(c, step).size \in Nat
         /\ Request(c, step).doc \in Docs /\ Request(c, step).doc # NoDoc
         /\ Request(c, step).id \in Ids \cup {0, Foreign}
         /\ step \in Nat \ {0} /\ step <= Len(deployment.program[c])
  <1>1. deployment.program[c] \in Seq(Requests)
    BY DeploymentsAssumption
  <1>2. Request(c, step) \in Requests
    BY <1>1 DEF Request
  <1> QED BY <1>1, <1>2, TableAssumption DEF Requests

-----------------------------------------------------------------------------
(* The pipeline up to its first await: what it answers itself is no page,   *)
(* no success of a query, and no resource that is not found.               *)

Plain(x, a) ==
  /\ a.results = {} /\ a.token = 0
  /\ a.status < 400 => ~ Paged(x.caller, x.step)
  /\ a.status = 404 => Of(x).kind # "item"

Entered(x, y) ==
  \/ y.at = "respond" /\ Plain(x, y.answer)
  \/ y.at \in {"secret", "create", "update", "delete-get"}
  \/ y.at = "get" /\ Of(x).kind = "item"
  \/ y.at = "query" /\ Of(x).kind = "items"

Enters(x, y) == Carries(x, y) /\ y.id = x.id /\ Entered(x, y)

LEMMA RefusesPlainly ==
  ASSUME NEW x, IsExecution(x), NEW status \in {400, 401, 403, 405}
  PROVE  Enters(x, Responding(x, Answer(status)))
  <1> DEFINE y == Responding(x, Answer(status))
  <1>1. /\ IsAnswer(Answer(status)) /\ Answer(status).status = status
        /\ Answer(status).results = {} /\ Answer(status).token = 0
    BY PlainAnswer
  <1>2. Carries(x, y) /\ y.id = x.id /\ y.at = "respond" /\ y.answer = Answer(status)
    BY <1>1, RespondedCarries
  <1> HIDE DEF y
  <1> QED BY <1>1, <1>2 DEF Enters, Entered, Plain, y

LEMMA ProcessEnters ==
  ASSUME NEW x, IsExecution(x)
  PROVE  Enters(x, Process(x))
  <1> DEFINE r == Of(x)
             matched == {route \in Routes : route[1] = r.kind}
             y == Process(x)
  <1>1. CASE r.body = "malformed"
    <2>1. y = Responding(x, Answer(400))
      BY <1>1 DEF Process
    <2> QED BY <2>1, RefusesPlainly
  <1>2. CASE r.body # "malformed" /\ matched = {}
    <2>1. y = Responding(x, Answer(404))
      BY <1>2 DEF Process
    <2>2. r.kind # "item"
      <3>1. <<"item", "GET">> \in Routes /\ <<"item", "GET">>[1] = "item"
        BY DEF Routes
      <3> QED BY <1>2, <3>1
    <2>3. /\ IsAnswer(Answer(404)) /\ Answer(404).status = 404
          /\ Answer(404).results = {} /\ Answer(404).token = 0
      BY PlainAnswer
    <2>4. Carries(x, y) /\ y.id = x.id /\ y.at = "respond" /\ y.answer = Answer(404)
      BY <2>1, <2>3, RespondedCarries
    <2> HIDE DEF y
    <2>5. Plain(x, y.answer)
      BY <2>2, <2>3, <2>4 DEF Plain
    <2> QED BY <2>4, <2>5 DEF Enters, Entered, y
  <1>3. CASE r.body # "malformed" /\ matched # {} /\ <<r.kind, r.method>> \notin matched
    <2>1. y = Responding(x, Answer(IF r.method = "OPTIONS" THEN 200 ELSE 405))
      BY <1>3 DEF Process
    <2>2. CASE r.method = "OPTIONS"
      <3>1. y = Responding(x, Answer(200))
        BY <2>1, <2>2
      <3>2. /\ IsAnswer(Answer(200)) /\ Answer(200).status = 200
            /\ Answer(200).results = {} /\ Answer(200).token = 0
        BY PlainAnswer
      <3>3. Carries(x, y) /\ y.id = x.id /\ y.at = "respond" /\ y.answer = Answer(200)
        BY <3>1, <3>2, RespondedCarries
      <3>4. ~ Paged(x.caller, x.step)
        BY <2>2 DEF Paged, Of
      <3> HIDE DEF y
      <3>5. Plain(x, y.answer)
        BY <3>2, <3>3, <3>4 DEF Plain
      <3> QED BY <3>3, <3>5 DEF Enters, Entered, y
    <2>3. CASE r.method # "OPTIONS"
      <3>1. y = Responding(x, Answer(405))
        BY <2>1, <2>3
      <3> QED BY <3>1, RefusesPlainly
    <2> QED BY <2>2, <2>3
  <1>4. CASE r.body = "none" /\ <<r.kind, r.method>> \in matched /\ r.method \in {"POST", "PUT"}
    <2>1. y = Responding(x, Answer(400))
      BY <1>4 DEF Process
    <2> QED BY <2>1, RefusesPlainly
  <1>5. CASE r.body # "malformed" /\ <<r.kind, r.method>> \in matched
               /\ ~ (r.body = "none" /\ r.method \in {"POST", "PUT"})
    <2>1. y = [x EXCEPT !.at = Handler(r.kind, r.method)]
      BY <1>5 DEF Process
    <2>2. <<r.kind, r.method>> \in Routes
      BY <1>5
    <2>3. \/ r.kind = "items" /\ Handler(r.kind, r.method) = "query"
          \/ r.kind = "item" /\ Handler(r.kind, r.method) = "get"
          \/ Handler(r.kind, r.method) \in {"create", "update", "delete-get"}
      BY <2>2 DEF Routes, Handler
    <2>4. Carries(x, y) /\ y.id = x.id /\ y.at = Handler(r.kind, r.method)
      BY <2>1, MovedCarries
    <2> HIDE DEF y, r
    <2> QED BY <2>3, <2>4 DEF Enters, Entered, y, r
  <1> QED BY <1>1, <1>2, <1>3, <1>4, <1>5

LEMMA SecuredEnters ==
  ASSUME NEW x, IsExecution(x)
  PROVE  Enters(x, Secured(x))
  <1>1. Secured(x) = Process(x) \/ \E status \in {401, 403} : Secured(x) = Responding(x, Answer(status))
    BY DEF Secured
  <1> QED BY <1>1, ProcessEnters, RefusesPlainly

LEMMA HandleRequestEnters ==
  ASSUME NEW x, IsExecution(x)
  PROVE  Enters(x, HandleRequest(x))
  <1>1. CASE HandleRequest(x) \in {Process(x), Secured(x)}
    BY <1>1, ProcessEnters, SecuredEnters
  <1>2. CASE HandleRequest(x) = [x EXCEPT !.at = "secret"]
    <2> DEFINE y == [x EXCEPT !.at = "secret"]
    <2>1. Carries(x, y) /\ y.id = x.id /\ y.at = "secret"
      BY MovedCarries
    <2> HIDE DEF y
    <2>2. Enters(x, y)
      BY <2>1 DEF Enters, Entered
    <2> QED BY <1>2, <2>2 DEF y
  <1> QED BY <1>1, <1>2 DEF HandleRequest

-----------------------------------------------------------------------------
(* What changes about an execution, its caller and the writes, and keeps    *)
(* what it stands for.                                                     *)

LEMMA PageLater ==
  ASSUME NEW x, NEW page, NEW token, NEW due, PageFull(x, page, token, due),
         NEW less, less \subseteq due
  PROVE  PageFull(x, page, token, less)
  BY DEF PageFull

LEMMA DeletedLater ==
  ASSUME NEW F, NEW H, F \subseteq H, NEW i, Deleted(F, i)
  PROVE  Deleted(H, i)
  BY DEF Deleted

(* Less is due, and there are more writes; the caller still awaits the same *)
(* page by the same attempt.                                               *)
LEMMA ReadsLater ==
  ASSUME NEW x, NEW r, NEW s, NEW l, NEW F, ExecutionReads(x, r, s, l, F),
         NEW q, NEW m, NEW H, ~ x.orphan => q.attempt = r.attempt /\ m.token = l.token /\ m.due \subseteq l.due,
         F \subseteq H
  PROVE  x.orphan \/ ExecutionReads(x, q, s, m, H)
  <1>1. SUFFICES ASSUME ~ x.orphan PROVE ExecutionReads(x, q, s, m, H)
    OBVIOUS
  <1>2. ExecutionPages(x, m)
    BY <1>1, PageLater DEF ExecutionReads, ExecutionPages, TakenOk
  <1>3. ExecutionLag(x, q, s, H)
    BY <1>1, DeletedLater DEF ExecutionReads, ExecutionLag
  <1> QED BY <1>2, <1>3 DEF ExecutionReads

(* An execution that is not awaited has nothing to do with its caller.     *)
LEMMA OrphanReads ==
  ASSUME NEW x, x.orphan, NEW r, NEW s, NEW l, NEW F, ExecutionReads(x, r, s, l, F),
         NEW q, NEW t, NEW m, NEW H
  PROVE  ExecutionReads(x, q, t, m, H)
  BY DEF ExecutionReads, ExecutionPages, ExecutionLag, TakenOk

LEMMA OrphanedReads ==
  ASSUME NEW x, IsExecution(x), NEW r, NEW s, NEW l, NEW F, ExecutionReads(x, r, s, l, F),
         NEW q, NEW t, NEW m, NEW H
  PROVE  ExecutionReads([x EXCEPT !.orphan = TRUE], q, t, m, H)
  <1> DEFINE y == [x EXCEPT !.orphan = TRUE]
  <1>1. /\ Follows(x, y) /\ y.orphan /\ y.token = x.token /\ y.id = x.id
        /\ y.at = x.at /\ y.page = x.page /\ y.answer = x.answer
    BY OrphanIs
  <1> HIDE DEF y
  <1>2. Of(y) = Of(x) /\ y.caller = x.caller /\ y.step = x.step
    BY <1>1 DEF Follows, Of
  <1>3. TakenOk(x, l.due) => TakenOk(y, m.due)
    BY <1>1, <1>2 DEF TakenOk
  <1>4. PageOk(x, x.answer.results, x.answer.token) => PageOk(y, y.answer.results, y.answer.token)
    BY <1>1, <1>2 DEF PageOk
  <1>5. ExecutionPages(y, m)
    BY <1>1, <1>2, <1>3, <1>4 DEF ExecutionReads, ExecutionPages
  <1>6. ExecutionLag(y, q, t, H)
    BY <1>1 DEF ExecutionLag
  <1> QED BY <1>1, <1>5, <1>6 DEF ExecutionReads, y

(* An execution answers.                                                   *)
LEMMA AnswerReads ==
  ASSUME NEW x, NEW r, NEW s, NEW l, NEW F, ExecutionReads(x, r, s, l, F),
         NEW y, Carries(x, y), y.id \in Ids \cup {0}, y.at = "respond",
         PageOk(x, y.answer.results, y.answer.token),
         ~ x.orphan /\ y.answer.status < 400 =>
           PageFull(x, y.answer.results, y.answer.token, l.due),
         NEW H, F \subseteq H,
         ~ x.orphan /\ y.answer.status = 404 /\ Seeks(x.caller, x.step, s)
           => Deleted(H, Own(s)) \/ x.attempt < MaxAttempts
  PROVE  ExecutionReads(y, r, s, l, H)
  <1>1. Of(y) = Of(x) /\ y.caller = x.caller /\ y.step = x.step
    BY DEF Carries, Follows, Of
  <1>2. PageOk(y, y.answer.results, y.answer.token)
    BY <1>1 DEF PageOk, Carries
  <1>3. ~ y.orphan /\ y.answer.status < 400 =>
          PageFull(y, y.answer.results, y.answer.token, l.due)
    BY <1>1 DEF PageFull, Carries
  <1>4. ExecutionPages(y, l)
    BY <1>2, <1>3 DEF ExecutionReads, ExecutionPages, Carries
  <1>5. ExecutionLag(y, r, s, H)
    BY <1>1 DEF ExecutionReads, ExecutionLag, Carries
  <1> QED BY <1>4, <1>5 DEF ExecutionReads

(* ... without documents: a failure, or the answer of another route.       *)
LEMMA PlainReads ==
  ASSUME NEW x, NEW r, NEW s, NEW l, NEW F, ExecutionReads(x, r, s, l, F),
         NEW y, Carries(x, y), y.id \in Ids \cup {0}, y.at = "respond",
         y.answer.results = {}, y.answer.token = 0,
         ~ x.orphan /\ y.answer.status < 400 => l.due = {},
         NEW H, F \subseteq H,
         ~ x.orphan /\ y.answer.status = 404 /\ Seeks(x.caller, x.step, s)
           => Deleted(H, Own(s)) \/ x.attempt < MaxAttempts
  PROVE  ExecutionReads(y, r, s, l, H)
  <1>1. PageOk(x, y.answer.results, y.answer.token)
    BY DEF PageOk, PageTokens
  <1>2. ~ x.orphan /\ y.answer.status < 400 =>
          PageFull(x, y.answer.results, y.answer.token, l.due)
    BY DEF PageFull
  <1> QED BY <1>1, <1>2, AnswerReads

(* ... or goes on to an await that is not about pages.                     *)
LEMMA OtherReads ==
  ASSUME NEW x, NEW r, NEW s, NEW l, NEW F, ExecutionReads(x, r, s, l, F),
         NEW y, Carries(x, y), y.id \in Ids \cup {0},
         \/ y.at \in {"secret", "create", "completed", "update", "delete-get", "delete"}
         \/ y.at = "get" /\ Of(x).kind = "item"
         \/ y.at = "query" /\ Of(x).kind = "items",
         NEW H, F \subseteq H
  PROVE  ExecutionReads(y, r, s, l, H)
  <1>1. Of(y) = Of(x) /\ y.caller = x.caller /\ y.step = x.step
    BY DEF Carries, Follows, Of
  <1>2. ExecutionPages(y, l)
    BY <1>1 DEF ExecutionReads, ExecutionPages, Carries
  <1>3. ExecutionLag(y, r, s, H)
    BY <1>1 DEF ExecutionReads, ExecutionLag, Carries
  <1> QED BY <1>2, <1>3 DEF ExecutionReads

LEMMA EnterReads ==
  ASSUME NEW x, NEW r, NEW s, NEW l, NEW F, ExecutionReads(x, r, s, l, F),
         NEW y, Enters(x, y),
         ~ x.orphan => l.due = {} \/ Paged(x.caller, x.step)
  PROVE  ExecutionReads(y, r, s, l, F)
  <1>1. Carries(x, y) /\ y.id = x.id /\ x.id \in Ids \cup {0}
    BY DEF Enters, ExecutionReads
  <1>2. CASE y.at = "respond" /\ Plain(x, y.answer)
    <2>1. ~ x.orphan /\ y.answer.status < 400 => l.due = {}
      BY <1>2 DEF Plain
    <2>2. ~ (y.answer.status = 404 /\ Seeks(x.caller, x.step, s))
      BY <1>2 DEF Plain, Seeks, Of
    <2> QED BY <1>1, <1>2, <2>1, <2>2, PlainReads DEF Plain
  <1>3. CASE ~ (y.at = "respond" /\ Plain(x, y.answer))
    BY <1>1, <1>3, OtherReads DEF Enters, Entered
  <1> QED BY <1>2, <1>3

-----------------------------------------------------------------------------
(* What changes about a caller.                                            *)

LEMMA OwnIs ==
  ASSUME NEW s \in Seq(Results), Creates(s) # {}
  PROVE  \E k \in Creates(s) : Own(s) = s[k].id /\ \A l \in Creates(s) : k <= l
  <1>1. Creates(s) \subseteq Nat
    BY DEF Creates
  <1>2. \E k \in Creates(s) : \A l \in Creates(s) : k <= l
    BY <1>1, LeastExists
  <1> QED BY <1>2 DEF Own

LEMMA OwnKept ==
  ASSUME NEW s \in Seq(Results), Creates(s) # {}, NEW e \in Results
  PROVE  Creates(Append(s, e)) # {} /\ Own(Append(s, e)) = Own(s)
  <1> DEFINE t == Append(s, e)
  <1>1. /\ t \in Seq(Results) /\ Len(t) = Len(s) + 1 /\ Len(s) \in Nat
        /\ \A k \in 1 .. Len(s) : t[k] = s[k]
    OBVIOUS
  <1> HIDE DEF t
  <1>2. Creates(s) \subseteq 1 .. Len(s) /\ Creates(t) \subseteq 1 .. Len(s) + 1
    BY <1>1 DEF Creates
  <1>3. \A k \in 1 .. Len(s) : k \in Creates(s) <=> k \in Creates(t)
    BY <1>1 DEF Creates
  <1>4. PICK k \in Creates(s) : Own(s) = s[k].id /\ \A l \in Creates(s) : k <= l
    BY OwnIs
  <1>5. k \in 1 .. Len(s) /\ k \in Creates(t)
    BY <1>2, <1>3, <1>4
  <1>6. PICK m \in Creates(t) : Own(t) = t[m].id /\ \A l \in Creates(t) : m <= l
    BY <1>1, <1>5, OwnIs
  <1>7. m <= k /\ m \in 1 .. Len(s) + 1
    BY <1>2, <1>5, <1>6
  <1>8. m \in 1 .. Len(s)
    BY <1>1, <1>5, <1>7
  <1>9. k <= m
    BY <1>3, <1>4, <1>6, <1>8
  <1>10. m = k
    BY <1>1, <1>5, <1>7, <1>8, <1>9
  <1> QED BY <1>1, <1>4, <1>5, <1>6, <1>10 DEF t

LEMMA AnswersAppended ==
  ASSUME NEW c, NEW s \in Seq(Results), NEW F, AnswersOk(s, c, F), NEW e \in Results,
         e.status = 201 => \E w \in F : w.id = e.id,
         e.status = 404 /\ Seeks(c, Len(s) + 1, s) => Deleted(F, Own(s))
  PROVE  AnswersOk(Append(s, e), c, F)
  <1> DEFINE t == Append(s, e)
             n == Len(s) + 1
             Missed(k, a) ==
               /\ a[k].status = 404 /\ Request(c, k).kind = "item" /\ Request(c, k).id = 0
               /\ \E j \in 1 .. k - 1 : a[j].status = 201
  <1>1. /\ t[n] = e /\ Len(s) \in Nat /\ DOMAIN t = 1 .. n /\ DOMAIN s = 1 .. Len(s)
        /\ \A k \in 1 .. Len(s) : t[k] = s[k]
    OBVIOUS
  <1> HIDE DEF t
  <1>2. ASSUME NEW k \in 1 .. n, t[k].status = 201 PROVE \E w \in F : w.id = t[k].id
    <2>1. CASE k = n
      BY <1>1, <1>2, <2>1
    <2>2. CASE k # n
      <3>1. k \in 1 .. Len(s)
        BY <1>1, <2>2
      <3> QED BY <1>1, <1>2, <3>1 DEF AnswersOk
    <2> QED BY <2>1, <2>2
  <1>3. ASSUME NEW k \in 1 .. n, Missed(k, t) PROVE Deleted(F, Own(t))
    <2>1. PICK j \in 1 .. k - 1 : t[j].status = 201
      BY <1>3
    <2>2. j \in 1 .. Len(s) /\ j \in DOMAIN s /\ s[j].status = 201
      BY <1>1, <2>1
    <2>3. Creates(s) # {}
      BY <2>2 DEF Creates
    <2>4. Own(t) = Own(s)
      BY <2>3, OwnKept DEF t
    <2>5. CASE k = n
      <3>1. Seeks(c, Len(s) + 1, s) /\ e.status = 404
        BY <1>1, <1>3, <2>3, <2>5 DEF Seeks
      <3> QED BY <2>4, <3>1
    <2>6. CASE k # n
      <3>1. k \in 1 .. Len(s) /\ k \in DOMAIN s
        BY <1>1, <2>6
      <3>2. \A m \in 1 .. k - 1 : t[m] = s[m]
        BY <1>1, <3>1
      <3>3. Missed(k, s)
        BY <1>1, <1>3, <3>1, <3>2
      <3> QED BY <2>4, <3>1, <3>3 DEF AnswersOk
    <2> QED BY <2>5, <2>6
  <1> QED BY <1>1, <1>2, <1>3 DEF AnswersOk, t

LEMMA CallerFacts ==
  ASSUME ServiceInv, ReadsInv, NEW c \in Callers
  PROVE  /\ CallerReads(call[c], outcome[c], listing[c], c, table, lagging, effects)
         /\ CallerTypes(call[c], outcome[c], c) /\ IsListing(listing[c])
         /\ listing[c].twice = {} /\ AnswersOk(outcome[c], c, effects)
         /\ CallOk(call[c], outcome[c], c) /\ IsCall(call[c])
         /\ outcome \in [Callers -> Seq(Results)] /\ outcome[c] \in Seq(Results)
         /\ Len(outcome[c]) \in Nat /\ Step(c) = Len(outcome[c]) + 1
         /\ Succeeded(call[c], outcome[c], c)
         /\ call = [d \in Callers |-> call[d]] /\ listing = [d \in Callers |-> listing[d]]
         /\ call[c].pc \in Active => /\ Step(c) \in DOMAIN deployment.program[c]
                                     /\ ListingOk(listing[c], c, Step(c))
                                     /\ DueOk(listing[c], c, Step(c), table, lagging)
         /\ deployment \in Deployments /\ MaxAttempts \in Nat \ {0} /\ Lag \in Nat
         /\ TableTypes(table, lagging)
  <1>1. CallerReads(call[c], outcome[c], listing[c], c, table, lagging, effects)
    BY DEF ReadsInv, CallersRead
  <1>2. /\ ClientInv(call, outcome) /\ CallOk(call[c], outcome[c], c)
        /\ outcome \in [Callers -> Seq(Results)] /\ Succeeded(call[c], outcome[c], c)
    BY DEF ServiceInv, ClientInv
  <1>3. /\ outcome[c] \in Seq(Results) /\ Len(outcome[c]) \in Nat
        /\ Step(c) = Len(outcome[c]) + 1
    BY <1>2 DEF Step
  <1>4. call[c].pc \in Active => /\ Step(c) \in DOMAIN deployment.program[c]
                                 /\ ListingOk(listing[c], c, Step(c))
                                 /\ DueOk(listing[c], c, Step(c), table, lagging)
    BY <1>1, <1>2, <1>3 DEF CallerReads, CallerPages, CallOk, Active
  <1>5. CallerTypes(call[c], outcome[c], c) /\ IsListing(listing[c])
          /\ listing[c].twice = {} /\ AnswersOk(outcome[c], c, effects)
    BY <1>1 DEF CallerReads, CallerPages
  <1>6. call = [d \in Callers |-> call[d]] /\ listing = [d \in Callers |-> listing[d]]
          /\ deployment \in Deployments /\ TableTypes(table, lagging)
    BY <1>2 DEF ReadsInv, ServiceInv, ClientInv, TableOk
  <1>7. IsCall(call[c])
    BY <1>2 DEF CallOk
  <1> QED BY <1>1, <1>2, <1>3, <1>4, <1>5, <1>6, <1>7, ClientAssumption, TableAssumption

LEMMA OwnInIds ==
  ASSUME ServiceInv, ReadsInv, NEW c \in Callers, Creates(outcome[c]) # {}
  PROVE  Own(outcome[c]) \in Ids /\ \E e \in effects : e.id = Own(outcome[c])
  <1>1. PICK k \in Creates(outcome[c]) : Own(outcome[c]) = outcome[c][k].id
    BY CallerFacts, OwnIs
  <1>2. k \in DOMAIN outcome[c] /\ outcome[c][k].status = 201
    BY <1>1 DEF Creates
  <1> QED BY <1>1, <1>2, CallerFacts DEF Succeeded, AnswersOk

(* The promise of a caller settles.                                        *)
LEMMA SettleReads ==
  ASSUME ServiceInv, ReadsInv, NEW c \in Callers, Step(c) \in DOMAIN deployment.program[c],
         NEW r, r.pc \in {"idle", "failed"}, r.attempt = call[c].attempt, r.wait = call[c].wait,
         NEW l, IsListing(l), l.twice = {}, NEW result \in Results,
         result.status = 201 => \E e \in effects : e.id = result.id,
         result.status = 404 /\ Seeks(c, Step(c), outcome[c]) => Deleted(effects, Own(outcome[c]))
  PROVE  CallerReads(r, Append(outcome[c], result), l, c, table, lagging, effects)
  <1>1. Len(Append(outcome[c], result)) = Step(c) /\ Step(c) = Len(outcome[c]) + 1
    BY CallerFacts
  <1>2. Step(c) <= Len(deployment.program[c])
    BY RequestIs, CallerFacts
  <1>3. CallerTypes(r, Append(outcome[c], result), c)
    <2>1. CallerTypes(call[c], outcome[c], c)
      BY CallerFacts
    <2> QED BY <1>1, <1>2, <2>1 DEF CallerTypes
  <1>4. CallerPages(r, Append(outcome[c], result), l, c, table, lagging)
    BY DEF CallerPages, Active
  <1>5. CallerLag(r, Append(outcome[c], result), lagging, effects)
    BY DEF CallerLag, Active
  <1>6. AnswersOk(Append(outcome[c], result), c, effects)
    <2>1. result.status = 404 /\ Seeks(c, Len(outcome[c]) + 1, outcome[c])
            => Deleted(effects, Own(outcome[c]))
      BY <1>1
    <2>2. outcome[c] \in Seq(Results) /\ AnswersOk(outcome[c], c, effects)
      BY CallerFacts
    <2> QED BY <2>1, <2>2, AnswersAppended
  <1> QED BY <1>3, <1>4, <1>5, <1>6 DEF CallerReads

(* A caller begins with the first attempt of a request, or of the next page *)
(* of one.                                                                 *)
LEMMA StartReads ==
  ASSUME ServiceInv, ReadsInv, NEW c \in Callers,
         NEW r, r.pc = "sign", r.attempt = 1, r.wait = call[c].wait,
         NEW l, IsListing(l), l.twice = {}, ListingOk(l, c, Step(c)),
         DueOk(l, c, Step(c), table, lagging)
  PROVE  CallerReads(r, outcome[c], l, c, table, lagging, effects)
  <1>1. CallerTypes(call[c], outcome[c], c) /\ Step(c) = Len(outcome[c]) + 1
          /\ MaxAttempts \in Nat \ {0} /\ AnswersOk(outcome[c], c, effects)
    BY CallerFacts
  <1>2. CallerTypes(r, outcome[c], c)
    BY <1>1 DEF CallerTypes
  <1>3. CallerPages(r, outcome[c], l, c, table, lagging)
    BY <1>1 DEF CallerPages
  <1>4. ASSUME Creates(outcome[c]) # {}, NEW old \in lagging[Own(outcome[c])]
        PROVE  old[2] + Elapsed(r) <= Lag
    <2>1. Own(outcome[c]) \in Ids
      BY <1>4, OwnInIds
    <2>2. TableTypes(table, lagging) /\ Lag \in Nat
      BY CallerFacts
    <2>3. old \in (Docs \cup {NoDoc}) \X (1 .. Lag)
      BY <1>4, <2>1, <2>2 DEF TableTypes
    <2>4. Elapsed(r) = 0
      BY DEF Elapsed
    <2> QED BY <2>2, <2>3, <2>4
  <1>5. CallerLag(r, outcome[c], lagging, effects)
    BY <1>4 DEF CallerLag
  <1> QED BY <1>1, <1>2, <1>3, <1>5 DEF CallerReads

(* A caller goes on with an attempt, or to the next one after a pause.     *)
LEMMA GoOnReads ==
  ASSUME ServiceInv, ReadsInv, NEW c \in Callers, call[c].pc \in Active,
         NEW r, r.pc \in Active, r.attempt \in 1 .. MaxAttempts, r.wait \in 0 .. 1,
         r.pc = "token" => Authenticator(c) \in CachedTypes,
         Elapsed(r) = Elapsed(call[c])
  PROVE  CallerReads(r, outcome[c], listing[c], c, table, lagging, effects)
  <1>1. CallerReads(call[c], outcome[c], listing[c], c, table, lagging, effects)
    BY CallerFacts
  <1>2. CallerTypes(r, outcome[c], c)
    BY <1>1, CallerFacts DEF CallerReads, CallerTypes
  <1>3. CallerPages(r, outcome[c], listing[c], c, table, lagging)
    BY <1>1 DEF CallerReads, CallerPages
  <1>4. CallerLag(r, outcome[c], lagging, effects)
    BY <1>1 DEF CallerReads, CallerLag
  <1> QED BY <1>1, <1>2, <1>3, <1>4 DEF CallerReads

-----------------------------------------------------------------------------
(* Steps of the callers.                                                   *)

ReadsKept ==
  /\ listing' = [c \in Callers |-> listing'[c]]
  /\ TableOk(table', lagging', effects')
  /\ CallersRead(call', outcome', listing', table', lagging', effects')
  /\ ExecutionsRead(call', outcome', listing', executions', effects')

(* A caller moves; the executions that belong to it are orphans, or         *)
(* accounted for.                                                          *)
Moves(c, r, s, l) ==
  /\ call' = [call EXCEPT ![c] = r] /\ outcome' = [outcome EXCEPT ![c] = s]
  /\ listing' = [listing EXCEPT ![c] = l]
  /\ UNCHANGED <<table, lagging, effects>>

Accounted(c) ==
  \A x \in executions' :
    \/ x \in executions /\ (x.orphan \/ x.caller # c)
    \/ ExecutionReads(x, call'[x.caller], outcome'[x.caller], listing'[x.caller], effects)

LEMMA ExecutionReadFacts ==
  ASSUME ServiceInv, ReadsInv, NEW x \in executions
  PROVE  /\ ExecutionReads(x, call[x.caller], outcome[x.caller], listing[x.caller], effects)
         /\ ExecutionPages(x, listing[x.caller])
         /\ ExecutionLag(x, call[x.caller], outcome[x.caller], effects)
         /\ x.id \in Ids \cup {0} /\ IsExecution(x)
         /\ x.caller \in Callers /\ x.step \in DOMAIN deployment.program[x.caller]
         /\ ~ x.orphan => /\ call[x.caller].pc = "sent" /\ x.step = Step(x.caller)
                          /\ call[x.caller].pc \in Active
         /\ Of(x) = Request(x.caller, x.step) /\ Of(x) \in Requests /\ Of(x).size \in Nat
         /\ Of(x).doc \in Docs /\ Of(x).doc # NoDoc
  <1>1. ExecutionReads(x, call[x.caller], outcome[x.caller], listing[x.caller], effects)
    BY DEF ReadsInv, ExecutionsRead
  <1>2. /\ IsExecution(x) /\ x.caller \in Callers /\ x.step \in DOMAIN deployment.program[x.caller]
        /\ deployment \in Deployments /\ BelongsOk(x, call, outcome)
    BY ExecutionFacts
  <1>3. ~ x.orphan => call[x.caller].pc = "sent" /\ x.step = Step(x.caller)
    BY <1>2 DEF BelongsOk, Step
  <1>4. Of(x) = Request(x.caller, x.step)
    BY DEF Of
  <1> QED BY <1>1, <1>2, <1>3, <1>4, RequestIs DEF ExecutionReads, Active

LEMMA CallerMoves ==
  ASSUME ServiceInv, ReadsInv, NEW c \in Callers, NEW r, NEW s, NEW l,
         Moves(c, r, s, l),
         CallerReads(r, s, l, c, table, lagging, effects), Accounted(c)
  PROVE  ReadsKept
  <1>1. /\ call = [d \in Callers |-> call[d]] /\ listing = [d \in Callers |-> listing[d]]
        /\ outcome \in [Callers -> Seq(Results)] /\ UNCHANGED <<table, lagging, effects>>
    BY CallerFacts DEF Moves
  <1>2. /\ call'[c] = r /\ outcome'[c] = s /\ listing'[c] = l
        /\ \A d \in Callers \ {c} :
             call'[d] = call[d] /\ outcome'[d] = outcome[d] /\ listing'[d] = listing[d]
        /\ listing' = [d \in Callers |-> listing'[d]]
    BY <1>1 DEF Moves
  <1>3. ASSUME NEW d \in Callers
        PROVE  CallerReads(call'[d], outcome'[d], listing'[d], d, table', lagging', effects')
    <2>1. CASE d = c
      BY <1>1, <1>2, <2>1
    <2>2. CASE d # c
      <3>1. CallerReads(call[d], outcome[d], listing[d], d, table, lagging, effects)
        BY CallerFacts
      <3> QED BY <1>1, <1>2, <2>2, <3>1
    <2> QED BY <2>1, <2>2
  <1>4. ASSUME NEW x \in executions'
        PROVE  ExecutionReads(x, call'[x.caller], outcome'[x.caller], listing'[x.caller], effects')
    <2>1. CASE x \in executions /\ x.orphan
      BY <2>1, ExecutionReadFacts, OrphanReads
    <2>2. CASE x \in executions /\ x.caller # c
      <3>1. x.caller \in Callers \ {c}
              /\ ExecutionReads(x, call[x.caller], outcome[x.caller], listing[x.caller], effects)
        BY <2>2, ExecutionReadFacts
      <3> QED BY <1>1, <1>2, <3>1
    <2>3. CASE ExecutionReads(x, call'[x.caller], outcome'[x.caller], listing'[x.caller], effects)
      BY <1>1, <2>3
    <2> QED BY <2>1, <2>2, <2>3 DEF Accounted
  <1>5. TableOk(table', lagging', effects')
    BY <1>1 DEF ReadsInv
  <1> QED BY <1>2, <1>3, <1>4, <1>5 DEF ReadsKept, CallersRead, ExecutionsRead
(* The promise of a caller settles; the executions that remain of it are    *)
(* orphans.                                                                *)
LEMMA SettlesReads ==
  ASSUME ServiceInv, ReadsInv, NEW c \in Callers, Step(c) \in DOMAIN deployment.program[c],
         NEW p \in {"idle", "failed"}, call' = [call EXCEPT ![c].pc = p],
         NEW result \in Results, outcome' = Appended(outcome, c, result),
         result.status = 201 => \E e \in effects : e.id = result.id,
         result.status = 404 /\ Seeks(c, Step(c), outcome[c]) => Deleted(effects, Own(outcome[c])),
         NEW l, IsListing(l), l.twice = {}, listing' = [listing EXCEPT ![c] = l],
         UNCHANGED <<table, lagging, effects>>, Accounted(c)
  PROVE  ReadsKept
  <1> DEFINE r == CallRecord(p, call[c].attempt, call[c].headers, call[c].wait)
             s == Append(outcome[c], result)
  <1>1. [call[c] EXCEPT !.pc = p] = r
    BY CallerFacts, CallFieldsAre DEF CallRecord, CallFields
  <1>2. call' = [call EXCEPT ![c] = r] /\ outcome' = [outcome EXCEPT ![c] = s]
    BY <1>1 DEF Appended
  <1>3. r.pc = p /\ r.attempt = call[c].attempt /\ r.wait = call[c].wait
    BY CallRecordIs
  <1> HIDE DEF r
  <1>4. CallerReads(r, s, l, c, table, lagging, effects)
    BY <1>3, SettleReads
  <1>5. Moves(c, r, s, l)
    BY <1>2 DEF Moves
  <1> HIDE DEF s
  <1> QED BY <1>4, <1>5, CallerMoves

LEMMA RejectReads ==
  ASSUME ServiceInv, ReadsInv, NEW c \in Callers, Step(c) \in DOMAIN deployment.program[c],
         NEW status \in Nat \ {201}, Reject(c, status),
         status = 404 /\ Seeks(c, Step(c), outcome[c]) => Deleted(effects, Own(outcome[c])),
         NEW l, IsListing(l), l.twice = {}, listing' = [listing EXCEPT ![c] = l],
         UNCHANGED <<table, lagging, effects>>, Accounted(c)
  PROVE  ReadsKept
  <1> DEFINE result == [status |-> status, id |-> 0]
  <1>1. result \in Results /\ result.status = status
    BY DEF Results
  <1>2. outcome' = Appended(outcome, c, result) /\ call' = [call EXCEPT ![c].pc = "failed"]
    BY DEF Reject, Appended
  <1> HIDE DEF result
  <1> QED BY <1>1, <1>2, SettlesReads

(* A caller goes on: its answers, and what it has of its query, stay.      *)
LEMMA GoesOnReads ==
  ASSUME ServiceInv, ReadsInv, NEW c \in Callers, call[c].pc \in Active,
         NEW r, call' = [call EXCEPT ![c] = r], r.pc \in Active,
         r.attempt \in 1 .. MaxAttempts, r.wait \in 0 .. 1,
         r.pc = "token" => Authenticator(c) \in CachedTypes,
         Elapsed(r) = Elapsed(call[c]),
         UNCHANGED <<table, lagging, effects, outcome, listing>>, Accounted(c)
  PROVE  ReadsKept
  <1>1. CallerReads(r, outcome[c], listing[c], c, table, lagging, effects)
    BY GoOnReads
  <1>2. /\ listing' = [listing EXCEPT ![c] = listing[c]]
        /\ outcome' = [outcome EXCEPT ![c] = outcome[c]]
        /\ UNCHANGED <<table, lagging, effects>>
    BY CallerFacts
  <1>3. Moves(c, r, outcome[c], listing[c])
    BY <1>2 DEF Moves
  <1> QED BY <1>1, <1>3, CallerMoves

(* A request begins, or a query goes on to its next page.                  *)
LEMMA StartsReads ==
  ASSUME ServiceInv, ReadsInv, NEW c \in Callers, call' = [call EXCEPT ![c] = Prepared(c)],
         NEW l, IsListing(l), l.twice = {}, ListingOk(l, c, Step(c)),
         DueOk(l, c, Step(c), table, lagging), listing' = [listing EXCEPT ![c] = l],
         UNCHANGED <<table, lagging, effects, outcome>>, Accounted(c)
  PROVE  ReadsKept
  <1> DEFINE r == Prepared(c)
             h == IF deployment.tracked[c] THEN [k \in {"mcma-tracker"} |-> 0] ELSE NoHeaders
  <1>1. r = CallRecord("sign", 1, h, call[c].wait)
    BY CallerFacts, CallFieldsAre DEF CallRecord, CallFields, Prepared
  <1> HIDE DEF h
  <1>2. r.pc = "sign" /\ r.attempt = 1 /\ r.wait = call[c].wait
    BY <1>1, CallRecordIs
  <1>3. call' = [call EXCEPT ![c] = r]
    OBVIOUS
  <1> HIDE DEF r
  <1>4. CallerReads(r, outcome[c], l, c, table, lagging, effects)
    BY <1>2, StartReads
  <1>5. outcome' = [outcome EXCEPT ![c] = outcome[c]]
    BY CallerFacts
  <1>6. Moves(c, r, outcome[c], l)
    BY <1>3, <1>5 DEF Moves
  <1> QED BY <1>4, <1>6, CallerMoves

LEMMA BeginReads ==
  ASSUME ServiceInv, ReadsInv, NEW c \in Callers, Begin(c)
  PROVE  ReadsKept
  <1> DEFINE due == Due(c)
             l == [token |-> 0, got |-> {}, twice |-> {}, due |-> due]
  <1>1. /\ call[c].pc = "idle" /\ Step(c) \in DOMAIN deployment.program[c]
        /\ UNCHANGED <<table, lagging, executions, effects>>
        /\ listing' = [listing EXCEPT ![c] = l]
    BY DEF Begin, Call, apiVars
  <1>2. /\ due \subseteq Ids /\ (due # {} => Paged(c, Step(c)))
        /\ \A i \in due : \A doc \in VisibleIn(table, lagging, i) :
             Matches(Request(c, Step(c)).filter, doc)
    BY DEF Due, Paged, Visible, VisibleIn
  <1> HIDE DEF due
  <1>3. /\ l.token = 0 /\ l.got = {} /\ l.twice = {} /\ l.due = due /\ IsListing(l)
    BY DEF IsListing
  <1> HIDE DEF l
  <1>4. ListingOk(l, c, Step(c)) /\ DueOk(l, c, Step(c), table, lagging)
    BY <1>2, <1>3 DEF ListingOk, DueOk, PageTokens, Beyond
  <1>5. Accounted(c)
    BY <1>1, IdleFacts DEF Accounted
  <1>6. CASE Target(c) = Foreign
    <2>1. Reject(c, 0) /\ 0 \in Nat \ {201} /\ 0 # 404
      BY <1>6 DEF Begin, Call
    <2> QED BY <1>1, <1>3, <1>5, <2>1, RejectReads
  <1>7. CASE Target(c) # Foreign
    <2>1. call' = [call EXCEPT ![c] = Prepared(c)] /\ UNCHANGED outcome
      BY <1>7 DEF Begin, Call
    <2> QED BY <1>1, <1>3, <1>4, <1>5, <2>1, StartsReads
  <1> QED BY <1>6, <1>7

LEMMA FetchReads ==
  ASSUME ServiceInv, ReadsInv, NEW c \in Callers, FetchCredential(c)
  PROVE  ReadsKept
  <1> DEFINE r == CallRecord("token", call[c].attempt, call[c].headers, call[c].wait)
  <1>1. /\ call[c].pc = "sign" /\ call' = [call EXCEPT ![c].pc = "token"]
        /\ Authenticator(c) \in CachedTypes
        /\ UNCHANGED <<table, lagging, executions, effects, outcome, listing>>
    BY DEF FetchCredential, Fetch, apiVars, MustFetch
  <1>2. [call[c] EXCEPT !.pc = "token"] = r
    BY CallerFacts, CallFieldsAre DEF CallRecord, CallFields
  <1>3. call' = [call EXCEPT ![c] = r]
    BY <1>1, <1>2
  <1>4. r.pc = "token" /\ r.attempt = call[c].attempt /\ r.wait = call[c].wait
    BY CallRecordIs
  <1> HIDE DEF r
  <1>5. /\ call[c].attempt \in 1 .. MaxAttempts /\ call[c].wait \in 0 .. 1
        /\ Elapsed(r) = Elapsed(call[c]) /\ call[c].pc \in Active /\ r.pc \in Active
    BY <1>1, <1>4, CallerFacts DEF CallOk, CallerTypes, Elapsed, Active
  <1>6. Accounted(c)
    BY <1>1, IdleFacts DEF Accounted
  <1> QED BY <1>1, <1>3, <1>4, <1>5, <1>6, GoesOnReads

LEMMA ContinueReads ==
  ASSUME ServiceInv, ReadsInv, NEW c \in Callers, Continue(c)
  PROVE  ReadsKept
  <1> DEFINE a == IF call[c].attempt < MaxAttempts THEN call[c].attempt + 1 ELSE call[c].attempt
             r == CallRecord("sign", a, call[c].headers, call[c].wait)
  <1>1. /\ call[c].pc = "sleep" /\ call[c].wait = 0
        /\ call' = [call EXCEPT ![c].pc = "sign",
                                ![c].attempt = IF @ < MaxAttempts THEN @ + 1 ELSE @]
        /\ UNCHANGED <<table, lagging, executions, effects, outcome, listing>>
    BY DEF Continue, Wake, apiVars
  <1>2. [call[c] EXCEPT !.pc = "sign", !.attempt = a] = r
    BY CallerFacts, CallFieldsAre DEF CallRecord, CallFields
  <1>3. call' = [call EXCEPT ![c] = [call[c] EXCEPT !.pc = "sign", !.attempt = a]]
    BY <1>1, CallerFacts
  <1>4. r.pc = "sign" /\ r.attempt = a /\ r.wait = call[c].wait
    BY CallRecordIs
  <1>5. call' = [call EXCEPT ![c] = r]
    BY <1>2, <1>3
  <1> HIDE DEF r
  <1>6. call[c].attempt \in 1 .. MaxAttempts /\ call[c].attempt < MaxAttempts
    BY <1>1, CallerFacts DEF CallOk
  <1>7. /\ r.attempt \in 1 .. MaxAttempts /\ r.wait \in 0 .. 1
        /\ Elapsed(r) = Elapsed(call[c]) /\ call[c].pc \in Active /\ r.pc \in Active
    BY <1>1, <1>4, <1>6, CallerFacts DEF Elapsed, Active
  <1>8. Accounted(c)
    BY <1>1, IdleFacts DEF Accounted
  <1> QED BY <1>1, <1>4, <1>5, <1>7, <1>8, GoesOnReads

LEMMA SignFailsReads ==
  ASSUME ServiceInv, ReadsInv, NEW c \in Callers, call[c].pc \in {"sign", "token"}, Reject(c, 0),
         UNCHANGED <<listing, table, lagging, executions, effects>>
  PROVE  ReadsKept
  <1>1. 0 \in Nat \ {201} /\ 0 # 404
    OBVIOUS
  <1> DEFINE l == listing[c]
  <1>2. /\ Step(c) \in DOMAIN deployment.program[c] /\ IsListing(l)
        /\ l.twice = {} /\ listing' = [listing EXCEPT ![c] = l]
    BY CallerFacts DEF Active
  <1> HIDE DEF l
  <1>3. Accounted(c)
    BY IdleFacts DEF Accounted
  <1> QED BY <1>1, <1>2, <1>3, RejectReads

(* An attempt that failed is repeated after a pause.                        *)
LEMMA PauseReads ==
  ASSUME ServiceInv, ReadsInv, NEW c \in Callers, call[c].pc \in {"token", "sent"}, Pause(c),
         UNCHANGED <<outcome, listing, table, lagging, effects>>, Accounted(c)
  PROVE  ReadsKept
  <1>1. /\ call[c].pc \in Active /\ call[c].attempt \in 1 .. MaxAttempts
        /\ MaxAttempts \in Nat \ {0} /\ IsCall(call[c])
        /\ call = [d \in Callers |-> call[d]]
    BY CallerFacts DEF Active, CallOk
  <1> DEFINE r == CallRecord("sleep", call[c].attempt, call[c].headers, 1)
  <1>2. call' = [call EXCEPT ![c] = [call[c] EXCEPT !.pc = "sleep", !.wait = 1]]
    BY <1>1 DEF Pause
  <1>3. [call[c] EXCEPT !.pc = "sleep", !.wait = 1] = r
    BY <1>1, CallFieldsAre DEF CallRecord, CallFields
  <1>4. call' = [call EXCEPT ![c] = r]
    BY <1>2, <1>3
  <1>5. r.pc = "sleep" /\ r.attempt = call[c].attempt /\ r.wait = 1
    BY CallRecordIs
  <1> HIDE DEF r
  <1>6. /\ r.pc \in Active /\ r.pc # "token" /\ r.attempt \in 1 .. MaxAttempts
        /\ r.wait \in 0 .. 1 /\ Elapsed(r) = Elapsed(call[c])
    BY <1>1, <1>5 DEF Active, Elapsed
  <1> QED BY <1>1, <1>4, <1>6, GoesOnReads

LEMMA ProviderFailsReads ==
  ASSUME ServiceInv, ReadsInv, NEW c \in Callers, NEW status, ProviderFails(c, status),
         UNCHANGED <<table, lagging, executions, effects>>
  PROVE  ReadsKept
  <1>1. call[c].pc = "token" /\ UNCHANGED listing
    BY DEF ProviderFails
  <1>2. CASE MayRetry(c, status)
    <2>1. Pause(c) /\ UNCHANGED outcome
      BY <1>2 DEF ProviderFails
    <2>2. Accounted(c)
      BY <1>1, IdleFacts DEF Accounted
    <2> QED BY <1>1, <2>1, <2>2, PauseReads
  <1>3. CASE ~ MayRetry(c, status)
    <2>1. Reject(c, 0)
      BY <1>3 DEF ProviderFails
    <2> QED BY <1>1, <2>1, SignFailsReads
  <1> QED BY <1>2, <1>3

(* An attempt is sent: an execution begins, for the page that is next.     *)
LEMMA TargetKnown ==
  ASSUME ServiceInv, NEW c \in Callers, call[c].pc \in Active
  PROVE  Target(c) \in Ids \cup {0}
  <1> DEFINE created == {j \in DOMAIN outcome[c] : outcome[c][j].status = 201}
             id == Request(c, Step(c)).id
  <1>1. /\ Step(c) \in DOMAIN deployment.program[c] /\ Target(c) # Foreign
        /\ outcome[c] \in Seq(Results) /\ Succeeded(call[c], outcome[c], c)
        /\ deployment \in Deployments
    BY DEF ServiceInv, ClientInv, CallOk, Step, Target, Active
  <1>2. id \in Ids \cup {0, Foreign}
    BY <1>1, RequestIs
  <1>3. CASE id # 0 \/ created = {}
    <2>1. Target(c) = id
      BY <1>3 DEF Target, TargetOf
    <2> QED BY <1>1, <1>2, <2>1
  <1>4. CASE id = 0 /\ created # {}
    <2> DEFINE first == CHOOSE j \in created : \A l \in created : j <= l
    <2>1. created \subseteq Nat
      BY <1>1
    <2>2. \E j \in created : \A l \in created : j <= l
      BY <1>4, <2>1, LeastExists
    <2>3. first \in created
      BY <2>2
    <2>4. Target(c) = outcome[c][first].id
      BY <1>4 DEF Target, TargetOf
    <2>5. outcome[c][first].id \in Ids
      BY <1>1, <2>3 DEF Succeeded
    <2> QED BY <2>4, <2>5
  <1> QED BY <1>3, <1>4

LEMMA TransmitReads ==
  ASSUME ServiceInv, ReadsInv, NEW c \in Callers, Transmit(c)
  PROVE  \E r : call' = [call EXCEPT ![c] = r] /\ r.pc = "sent"
                  /\ r.attempt = call[c].attempt /\ r.wait = call[c].wait
  <1> DEFINE h == IF call[c].headers = NoHeaders THEN NoHeaders ELSE Signed(c)
             r == CallRecord("sent", call[c].attempt, h, call[c].wait)
  <1>1. call' = [call EXCEPT ![c] = [call[c] EXCEPT !.pc = "sent", !.headers = h]]
    BY CallerFacts DEF Transmit
  <1>2. [call[c] EXCEPT !.pc = "sent", !.headers = h] = r
    BY CallerFacts, CallFieldsAre DEF CallRecord, CallFields
  <1>3. r.pc = "sent" /\ r.attempt = call[c].attempt /\ r.wait = call[c].wait
    BY CallRecordIs
  <1> QED BY <1>1, <1>2, <1>3

LEMMA ArrivingReads ==
  ASSUME ServiceInv, ReadsInv, NEW c \in Callers, call[c].pc \in Active, NEW found,
         NEW r, r.attempt = call[c].attempt
  PROVE  ExecutionReads(Arriving(c, found), r, outcome[c], listing[c], effects)
  <1> DEFINE x == Arriving(c, found)
  <1>1. /\ x.caller = c /\ x.step = Step(c) /\ x.id = Target(c) /\ ~ x.orphan
        /\ x.at = "respond" /\ x.answer.status \in {401, 403}
    BY ArrivingIs
  <1>2. /\ x.token = listing[c].token /\ x.attempt = call[c].attempt
        /\ x.answer.results = {} /\ x.answer.token = 0
    BY DEF Arriving, Answer
  <1> HIDE DEF x
  <1>3. x.token \in PageTokens
    BY <1>2, CallerFacts DEF ListingOk
  <1>4. PageOk(x, x.answer.results, x.answer.token)
    BY <1>2 DEF PageOk, PageTokens
  <1>5. ExecutionPages(x, listing[c])
    BY <1>1, <1>2, <1>3, <1>4 DEF ExecutionPages
  <1>6. ExecutionLag(x, r, outcome[c], effects)
    BY <1>1, <1>2 DEF ExecutionLag
  <1>7. x.id \in Ids \cup {0}
    BY <1>1, TargetKnown
  <1> QED BY <1>5, <1>6, <1>7 DEF ExecutionReads, x

LEMMA SendReads ==
  ASSUME ServiceInv, ReadsInv, NEW c \in Callers, Send(c)
  PROVE  ReadsKept
  <1>1. /\ call[c].pc \in {"sign", "token"} /\ Transmit(c)
        /\ \E found : Arrived(c, found)
        /\ UNCHANGED <<table, lagging, effects, outcome, listing>>
    BY DEF Send, SendHeld, SendFetched
  <1>2. PICK found : Arrived(c, found)
    BY <1>1
  <1> DEFINE x == Arriving(c, found)
             y == IF found = "valid" THEN HandleRequest(x) ELSE x
  <1>3. executions' = executions \cup {y}
    BY <1>2 DEF Arrived, Arriving
  <1>4. PICK r : call' = [call EXCEPT ![c] = r] /\ r.pc = "sent"
                   /\ r.attempt = call[c].attempt /\ r.wait = call[c].wait
    BY <1>1, TransmitReads
  <1>5. /\ call[c].pc \in Active /\ r.pc \in Active /\ call[c].attempt \in 1 .. MaxAttempts
        /\ call[c].wait \in 0 .. 1 /\ Elapsed(r) = Elapsed(call[c])
        /\ r.pc # "token"
    BY <1>1, <1>4, CallerFacts DEF CallOk, CallerTypes, Elapsed, Active
  <1>6. IsExecution(x) /\ x.caller = c /\ x.step = Step(c) /\ ~ x.orphan
    BY ArrivingIs
  <1>7. ExecutionReads(x, r, outcome[c], listing[c], effects)
    BY <1>4, <1>5, ArrivingReads
  <1> HIDE DEF x
  <1>8. ExecutionReads(y, r, outcome[c], listing[c], effects) /\ y.caller = c
    <2>1. CASE found = "valid"
      <3> DEFINE z == HandleRequest(x)
      <3>1. Enters(x, z)
        BY <1>6, HandleRequestEnters
      <3>2. listing[c].due = {} \/ Paged(x.caller, x.step)
        BY <1>5, <1>6, CallerFacts DEF ListingOk
      <3> HIDE DEF z
      <3>3. ExecutionReads(z, r, outcome[c], listing[c], effects)
        BY <1>7, <3>1, <3>2, EnterReads
      <3>4. z.caller = c
        BY <1>6, <3>1 DEF Enters, Carries, Follows
      <3> QED BY <2>1, <3>3, <3>4 DEF z
    <2>2. CASE found # "valid"
      BY <1>6, <1>7, <2>2
    <2> QED BY <2>1, <2>2
  <1> HIDE DEF y
  <1>9. call'[c] = r /\ outcome'[c] = outcome[c] /\ listing'[c] = listing[c]
    BY <1>1, <1>4, CallerFacts
  <1>10. \A z \in executions : z.orphan \/ z.caller # c
    BY <1>1, IdleFacts
  <1>11. Accounted(c)
    BY <1>3, <1>8, <1>9, <1>10 DEF Accounted
  <1> QED BY <1>1, <1>4, <1>5, <1>11, GoesOnReads
-----------------------------------------------------------------------------
(* Answers, and what the network does to them.                             *)

ListingFields == {"token", "got", "twice", "due"}

ListingRecord(token, got, twice, due) ==
  [f \in ListingFields |-> CASE f = "token" -> token
                             [] f = "got"   -> got
                             [] f = "twice" -> twice
                             [] f = "due"   -> due]

LEMMA ListingRecordIs ==
  ASSUME NEW token, NEW got, NEW twice, NEW due
  PROVE  LET l == ListingRecord(token, got, twice, due)
         IN  IsListing(l) /\ l.token = token /\ l.got = got /\ l.twice = twice /\ l.due = due
  <1>1. ListingRecord(token, got, twice, due) =
          [token |-> token, got |-> got, twice |-> twice, due |-> due]
    BY DEF ListingRecord, ListingFields
  <1> QED BY <1>1 DEF IsListing

(* An answer gives the page that its caller awaits, and tells of what       *)
(* happened.                                                               *)
PageFits(c, a) ==
  LET token == listing[c].token
  IN  /\ a.results \subseteq Ids /\ a.token \in PageTokens
      /\ \A i \in a.results : Beyond(c, Step(c), token, i)
      /\ a.token # 0 => /\ Beyond(c, Step(c), token, a.token)
                        /\ \A i \in a.results : Upto(c, Step(c), a.token, i)
      /\ \A i \in listing[c].due :
           Beyond(c, Step(c), token, i) =>
             i \in a.results \/ (a.token # 0 /\ Precedes(Order(c, Step(c)), a.token, i))

Fits(c, a) ==
  /\ IsAnswer(a)
  /\ a.status < 400 => PageFits(c, a)
  /\ a.status = 201 => \E e \in effects : e.id = a.id
  /\ a.status = 404 /\ Seeks(c, Step(c), outcome[c]) =>
       Deleted(effects, Own(outcome[c])) \/ call[c].attempt < MaxAttempts

LEMMA TurnedIs ==
  ASSUME ServiceInv, ReadsInv, NEW c \in Callers, NEW a, TurnPage(c, a)
  PROVE  listing' = [listing EXCEPT ![c] =
           ListingRecord(a.token, listing[c].got \cup a.results,
                         listing[c].twice \cup (a.results \cap listing[c].got), listing[c].due)]
  <1> DEFINE l == listing[c]
             m == [l EXCEPT !.token = a.token, !.got = @ \cup a.results,
                            !.twice = @ \cup (a.results \cap l.got)]
  <1>1. listing' = [listing EXCEPT ![c] = m]
    BY CallerFacts DEF TurnPage
  <1>2. DOMAIN l = ListingFields
    <2>1. IsListing(l)
      BY CallerFacts
    <2> HIDE DEF l
    <2> QED BY <2>1 DEF IsListing, ListingFields
  <1>3. m = ListingRecord(a.token, l.got \cup a.results, l.twice \cup (a.results \cap l.got), l.due)
    BY <1>2 DEF ListingRecord, ListingFields
  <1> QED BY <1>1, <1>3

(* A page has nothing that an earlier one had, and what is due is in one of *)
(* them or comes after.                                                    *)
LEMMA PageFollows ==
  ASSUME ServiceInv, ReadsInv, NEW c \in Callers, call[c].pc = "sent", NEW a, PageFits(c, a),
         NEW l, IsListing(l), l.token = a.token, l.got = listing[c].got \cup a.results,
         l.due = listing[c].due
  PROVE  /\ a.results \cap listing[c].got = {}
         /\ a.token # 0 => ListingOk(l, c, Step(c))
         /\ a.token = 0 => l.due \subseteq l.got
  <1> DEFINE token == listing[c].token
             order == Order(c, Step(c))
  <1>1. ListingOk(listing[c], c, Step(c))
    BY CallerFacts DEF Active
  <1>2. /\ token \in Nat /\ a.token \in Nat /\ l.got \subseteq Nat /\ listing[c].got \subseteq Nat
        /\ a.results \subseteq Nat /\ l.due \subseteq Nat
    <2>1. Ids \subseteq Nat /\ PageTokens \subseteq Nat
      <3>1. Ids \subseteq Nat
        BY TableAssumption
      <3>2. PageTokens \subseteq Ids \cup {0}
        BY DEF PageTokens
      <3> QED BY <3>1, <3>2
    <2>2. /\ token \in PageTokens /\ listing[c].got \subseteq Ids /\ listing[c].due \subseteq Ids
      BY <1>1 DEF ListingOk
    <2>3. a.token \in PageTokens /\ a.results \subseteq Ids
      BY DEF PageFits
    <2> HIDE DEF token
    <2> QED BY <2>1, <2>2, <2>3
  <1> HIDE DEF token, order
  <1>3. ASSUME NEW i \in a.results, i \in listing[c].got PROVE FALSE
    <2>1. token # 0 /\ Upto(c, Step(c), token, i) /\ Beyond(c, Step(c), token, i)
      BY <1>1, <1>3 DEF ListingOk, PageFits, token
    <2>2. (i = token \/ Precedes(order, i, token)) /\ Precedes(order, token, i)
      BY <2>1 DEF Upto, Beyond, order
    <2> QED BY <1>2, <1>3, <2>2, OrderIs
  <1>4. ASSUME a.token # 0, NEW i \in l.got PROVE Upto(c, Step(c), a.token, i)
    <2>1. CASE i \in a.results
      BY <1>4, <2>1 DEF PageFits
    <2>2. CASE i \in listing[c].got
      <3>1. token # 0 /\ Upto(c, Step(c), token, i) /\ Beyond(c, Step(c), token, a.token)
        BY <1>1, <1>4, <2>2 DEF ListingOk, PageFits, token
      <3>2. (i = token \/ Precedes(order, i, token)) /\ Precedes(order, token, a.token)
        BY <3>1 DEF Upto, Beyond, order
      <3>3. Precedes(order, i, a.token)
        BY <1>2, <1>4, <3>2, OrderIs
      <3> QED BY <3>3 DEF Upto, order
    <2> QED BY <1>4, <2>1, <2>2
  <1>5. ASSUME NEW i \in l.due
        PROVE  i \in l.got \/ (a.token # 0 /\ Precedes(order, a.token, i))
    <2>1. i \in listing[c].got \/ Beyond(c, Step(c), token, i)
      BY <1>1 DEF ListingOk, token
    <2> QED BY <2>1 DEF PageFits, token, order
  <1>6. ASSUME a.token # 0 PROVE ListingOk(l, c, Step(c))
    <2>1. l.token \in PageTokens /\ l.got \subseteq Ids /\ l.due \subseteq Ids
            /\ (l.due # {} => Paged(c, Step(c)))
      BY <1>1 DEF ListingOk, PageFits
    <2>2. \A i \in l.due : i \in l.got \/ Beyond(c, Step(c), l.token, i)
      BY <1>5 DEF Beyond, order
    <2> QED BY <1>4, <1>6, <2>1, <2>2 DEF ListingOk
  <1> QED BY <1>3, <1>5, <1>6

LEMMA AnsweredReads ==
  ASSUME ServiceInv, ReadsInv, NEW c \in Callers, call[c].pc = "sent", NEW a, Fits(c, a),
         Answered(c, a), UNCHANGED <<table, lagging, effects>>, Accounted(c)
  PROVE  ReadsKept
  <1>1. /\ call[c].pc \in Active /\ Step(c) \in DOMAIN deployment.program[c]
        /\ call[c].attempt \in 1 .. MaxAttempts /\ MaxAttempts \in Nat \ {0}
        /\ IsListing(listing[c]) /\ listing[c].twice = {}
        /\ a.status \in Nat /\ a.id \in Nat /\ IsCall(call[c])
        /\ call = [d \in Callers |-> call[d]] /\ listing = [d \in Callers |-> listing[d]]
    BY CallerFacts DEF Active, CallOk, Fits, IsAnswer
  <1>2. CASE MayRetry(c, a.status)
    <2>1. Pause(c) /\ UNCHANGED <<outcome, listing>>
      BY <1>1, <1>2 DEF Answered, MayRetry
    <2> QED BY <2>1, PauseReads
  <1>3. CASE ~ MayRetry(c, a.status) /\ a.status >= 400
    <2> DEFINE l == listing[c]
               status == a.status
    <2>1. Reject(c, status) /\ UNCHANGED listing
      BY <1>1, <1>3 DEF Answered
    <2>2. status \in Nat \ {201}
      BY <1>1, <1>3
    <2>3. status = 404 /\ Seeks(c, Step(c), outcome[c]) => Deleted(effects, Own(outcome[c]))
      BY <1>1, <1>3 DEF Fits, MayRetry
    <2>4. listing' = [listing EXCEPT ![c] = l] /\ IsListing(l) /\ l.twice = {}
      BY <1>1, <2>1
    <2> HIDE DEF l, status
    <2> QED BY <1>1, <2>1, <2>2, <2>3, <2>4, RejectReads
  <1>4. CASE a.status < 400
    <2> DEFINE l == ListingRecord(a.token, listing[c].got \cup a.results,
                                  listing[c].twice \cup (a.results \cap listing[c].got),
                                  listing[c].due)
    <2>1. ~ MayRetry(c, a.status)
      BY <1>1, <1>4 DEF MayRetry
    <2>2. TurnPage(c, a) /\ PageFits(c, a)
      BY <1>1, <1>4, <2>1 DEF Answered, Fits
    <2>3. listing' = [listing EXCEPT ![c] = l]
      BY <2>2, TurnedIs
    <2>4. /\ IsListing(l) /\ l.token = a.token /\ l.got = listing[c].got \cup a.results
          /\ l.twice = listing[c].twice \cup (a.results \cap listing[c].got)
          /\ l.due = listing[c].due
      BY ListingRecordIs
    <2> HIDE DEF l
    <2>5. /\ l.twice = {} /\ (a.token # 0 => ListingOk(l, c, Step(c)))
      <3>1. a.results \cap listing[c].got = {} /\ (a.token # 0 => ListingOk(l, c, Step(c)))
        BY <2>2, <2>4, PageFollows
      <3> QED BY <1>1, <2>4, <3>1
    <2>6. DueOk(l, c, Step(c), table, lagging)
      BY <1>1, <2>4, CallerFacts DEF DueOk
    <2>7. CASE a.token = 0
      <3> DEFINE result == [status |-> a.status, id |-> a.id]
      <3>1. Resolve(c, a.status, a.id)
        BY <1>1, <1>4, <2>1, <2>7 DEF Answered
      <3>2. result \in Results /\ result.status = a.status /\ result.id = a.id
        BY <1>1 DEF Results
      <3>3. outcome' = Appended(outcome, c, result) /\ call' = [call EXCEPT ![c].pc = "idle"]
        BY <3>1 DEF Resolve, Appended
      <3> HIDE DEF result
      <3>4. /\ result.status # 404
            /\ result.status = 201 => \E e \in effects : e.id = result.id
        BY <1>1, <1>4, <3>2 DEF Fits
      <3> QED BY <1>1, <2>3, <2>4, <2>5, <3>2, <3>3, <3>4, SettlesReads
    <2>8. CASE a.token # 0
      <3>1. call' = [call EXCEPT ![c] = Prepared(c)] /\ UNCHANGED outcome
        BY <1>1, <1>4, <2>1, <2>8 DEF Answered
      <3> QED BY <2>3, <2>4, <2>5, <2>6, <2>8, <3>1, StartsReads
    <2> QED BY <2>7, <2>8
  <1> QED BY <1>1, <1>2, <1>3, <1>4
(* The answer of an execution fits.                                        *)
LEMMA AnswerFits ==
  ASSUME ServiceInv, ReadsInv, NEW x \in executions, ~ x.orphan, x.at = "respond"
  PROVE  Fits(x.caller, x.answer)
  <1> DEFINE c == x.caller
             a == x.answer
  <1>1. /\ c \in Callers /\ call[c].pc \in Active /\ x.step = Step(c) /\ IsExecution(x)
        /\ ExecutionPages(x, listing[c]) /\ ExecutionLag(x, call[c], outcome[c], effects)
        /\ HandlingOk(x, effects)
    BY ExecutionReadFacts, ExecutionFacts
  <1>2. IsAnswer(a)
    BY <1>1 DEF IsExecution
  <1>3. x.token = listing[c].token /\ PageOk(x, a.results, a.token)
    BY <1>1 DEF ExecutionPages
  <1>4. a.status < 400 => PageFull(x, a.results, a.token, listing[c].due)
    BY <1>1 DEF ExecutionPages
  <1>5. a.status < 400 => PageFits(c, a)
    BY <1>1, <1>3, <1>4 DEF PageFits, PageOk, PageFull
  <1>6. a.status = 201 => \E e \in effects : e.id = a.id
    <2>1. SUFFICES ASSUME a.status = 201 PROVE \E e \in effects : e.id = a.id
      OBVIOUS
    <2>2. \E e \in Written(effects, x.caller, x.step) : e.id = a.id
      BY <1>1, <2>1 DEF HandlingOk
    <2> QED BY <2>2 DEF Written
  <1>7. a.status = 404 /\ Seeks(c, Step(c), outcome[c]) =>
          Deleted(effects, Own(outcome[c])) \/ call[c].attempt < MaxAttempts
    BY <1>1 DEF ExecutionLag
  <1> QED BY <1>2, <1>5, <1>6, <1>7 DEF Fits

LEMMA RespondReads ==
  ASSUME ServiceInv, ReadsInv, NEW x \in executions, Respond(x)
  PROVE  ReadsKept
  <1>1. /\ x.at = "respond" /\ executions' = executions \ {x}
        /\ UNCHANGED <<table, lagging, effects>>
    BY DEF Respond
  <1>2. CASE x.orphan
    <2>1. UNCHANGED <<call, outcome, listing>>
      BY <1>2 DEF Respond, clientVars
    <2> QED BY <1>1, <2>1 DEF ReadsKept, ReadsInv, CallersRead, ExecutionsRead
  <1>3. CASE ~ x.orphan
    <2> DEFINE c == x.caller
               a == x.answer
    <2>1. Answered(c, a) /\ Fits(c, a)
      BY <1>1, <1>3, AnswerFits DEF Respond
    <2>2. c \in Callers /\ call[c].pc = "sent"
      BY <1>3, LetGo
    <2>3. \A z \in executions \ {x} : z.orphan \/ z.caller # c
      BY <1>3, LetGo
    <2>4. Accounted(c)
      BY <1>1, <2>3 DEF Accounted
    <2> HIDE DEF c, a
    <2> QED BY <1>1, <2>1, <2>2, <2>4, AnsweredReads
  <1> QED BY <1>2, <1>3

(* What becomes of an execution that its caller no longer awaits.          *)
LEMMA LetGoReads ==
  ASSUME ServiceInv, ReadsInv, NEW x \in executions, ~ x.orphan,
         \/ executions' = (executions \ {x}) \cup {[x EXCEPT !.orphan = TRUE]}
         \/ executions' = executions \ {x}
  PROVE  Accounted(x.caller)
  <1> DEFINE y == [x EXCEPT !.orphan = TRUE]
  <1>1. \A z \in executions \ {x} : z.orphan \/ z.caller # x.caller
    BY LetGo
  <1>2. IsExecution(x) /\ ExecutionReads(x, call[x.caller], outcome[x.caller], listing[x.caller], effects)
    BY ExecutionReadFacts
  <1>3. \A q, t, m, H : ExecutionReads(y, q, t, m, H)
    BY <1>2, OrphanedReads
  <1> HIDE DEF y
  <1>4. ExecutionReads(y, call'[y.caller], outcome'[y.caller], listing'[y.caller], effects)
    BY <1>3
  <1> QED BY <1>1, <1>4 DEF Accounted, y

LEMMA GatewayReads ==
  ASSUME ServiceInv, ReadsInv, NEW x \in executions, GatewayFails(x)
  PROVE  ReadsKept
  <1> DEFINE c == x.caller
             a == Answer(503)
  <1>1. /\ ~ x.orphan /\ Answered(c, a) /\ UNCHANGED <<table, lagging, effects>>
        /\ \/ executions' = (executions \ {x}) \cup {[x EXCEPT !.orphan = TRUE]}
           \/ executions' = executions \ {x}
    BY DEF GatewayFails, Replace
  <1>2. Accounted(c) /\ c \in Callers /\ call[c].pc = "sent"
    BY <1>1, LetGoReads, LetGo
  <1>3. IsAnswer(a) /\ a.status = 503
    BY PlainAnswer
  <1>4. Fits(c, a)
    BY <1>3 DEF Fits
  <1> HIDE DEF c, a
  <1> QED BY <1>1, <1>2, <1>4, AnsweredReads

LEMMA BreakReads ==
  ASSUME ServiceInv, ReadsInv, NEW x \in executions, ConnectionBreaks(x)
  PROVE  ReadsKept
  <1> DEFINE c == x.caller
             l == listing[c]
  <1>1. /\ ~ x.orphan /\ Reject(c, 0) /\ UNCHANGED <<table, lagging, effects, listing>>
        /\ executions' = (executions \ {x}) \cup {[x EXCEPT !.orphan = TRUE]}
    BY DEF ConnectionBreaks, Replace, Disconnect
  <1>2. Accounted(c) /\ c \in Callers /\ call[c].pc = "sent"
    BY <1>1, LetGoReads, LetGo
  <1>3. /\ Step(c) \in DOMAIN deployment.program[c] /\ IsListing(l) /\ l.twice = {}
        /\ listing' = [listing EXCEPT ![c] = l]
    BY <1>1, <1>2, CallerFacts DEF Active
  <1>4. 0 \in Nat \ {201} /\ 0 # 404
    OBVIOUS
  <1> HIDE DEF c, l
  <1> QED BY <1>1, <1>2, <1>3, <1>4, RejectReads
-----------------------------------------------------------------------------
(* Steps of the service.                                                   *)

(* Less is due than before, and the table as it is now matches what is.    *)
Pruned ==
  /\ listing' = [c \in Callers |-> listing'[c]]
  /\ \A c \in Callers :
       /\ IsListing(listing'[c]) /\ listing'[c].token = listing[c].token
       /\ listing'[c].got = listing[c].got /\ listing'[c].twice = listing[c].twice
       /\ listing'[c].due \subseteq listing[c].due
       /\ call[c].pc \in Active => \A i \in listing'[c].due :
            Matches(Request(c, Step(c)).filter, table'[i])

LEMMA PruneIs ==
  ASSUME ServiceInv, ReadsInv, Prune
  PROVE  Pruned
  <1>1. listing' = [c \in Callers |-> listing'[c]]
    BY DEF Prune
  <1>2. ASSUME NEW c \in Callers
        PROVE  /\ IsListing(listing'[c]) /\ listing'[c].token = listing[c].token
               /\ listing'[c].got = listing[c].got /\ listing'[c].twice = listing[c].twice
               /\ listing'[c].due \subseteq listing[c].due
               /\ \A i \in listing'[c].due : Matches(Request(c, Step(c)).filter, table'[i])
    <2> DEFINE l == listing[c]
               due == {i \in l.due : /\ call[c].pc \notin {"idle", "failed"}
                                     /\ Matches(Request(c, Step(c)).filter, table'[i])}
    <2>1. listing'[c] = [l EXCEPT !.due = due]
      BY DEF Prune
    <2>2. due \subseteq l.due /\ \A i \in due : Matches(Request(c, Step(c)).filter, table'[i])
      OBVIOUS
    <2>3. IsListing(l)
      BY CallerFacts
    <2> HIDE DEF l, due
    <2>4. DOMAIN l = ListingFields
      BY <2>3 DEF IsListing, ListingFields
    <2>5. [l EXCEPT !.due = due] = ListingRecord(l.token, l.got, l.twice, due)
      BY <2>4 DEF ListingRecord, ListingFields
    <2>6. IsListing(listing'[c]) /\ listing'[c].token = l.token /\ listing'[c].got = l.got
            /\ listing'[c].twice = l.twice /\ listing'[c].due = due
      BY <2>1, <2>5, ListingRecordIs
    <2> QED BY <2>2, <2>6 DEF l
  <1> QED BY <1>1, <1>2 DEF Pruned

LEMMA AnswersLater ==
  ASSUME NEW s, NEW c, NEW F, AnswersOk(s, c, F), NEW H, F \subseteq H
  PROVE  AnswersOk(s, c, H)
  BY DeletedLater DEF AnswersOk

LEMMA ServesReads ==
  ASSUME ServiceInv, ReadsInv, NEW x \in executions, NEW y, Replace(x, y), Pruned,
         UNCHANGED <<call, outcome>>, effects \subseteq effects',
         TableOk(table', lagging', effects'),
         \A i \in Ids : VisibleIn(table', lagging', i) \subseteq
                          VisibleIn(table, lagging, i) \cup {table'[i]},
         \A c \in Callers : CallerLag(call[c], outcome[c], lagging', effects'),
         y.caller = x.caller,
         ExecutionReads(y, call[x.caller], outcome[x.caller], listing[x.caller], effects')
  PROVE  ReadsKept
  <1>1. ASSUME NEW c \in Callers
        PROVE  CallerReads(call[c], outcome[c], listing'[c], c, table', lagging', effects')
    <2> DEFINE l == listing[c]
               m == listing'[c]
    <2>1. /\ IsListing(m) /\ m.token = l.token /\ m.got = l.got /\ m.twice = l.twice
          /\ m.due \subseteq l.due
          /\ call[c].pc \in Active => \A i \in m.due :
               Matches(Request(c, Step(c)).filter, table'[i])
      BY DEF Pruned
    <2>2. /\ CallerTypes(call[c], outcome[c], c) /\ l.twice = {}
          /\ AnswersOk(outcome[c], c, effects) /\ Step(c) = Len(outcome[c]) + 1
          /\ call[c].pc \in Active => ListingOk(l, c, Step(c)) /\ DueOk(l, c, Step(c), table, lagging)
      BY CallerFacts
    <2> HIDE DEF l, m
    <2>3. ASSUME call[c].pc \in Active
          PROVE  ListingOk(m, c, Step(c)) /\ DueOk(m, c, Step(c), table', lagging')
      <3>1. ListingOk(l, c, Step(c)) /\ DueOk(l, c, Step(c), table, lagging)
        BY <2>2, <2>3
      <3>2. ListingOk(m, c, Step(c)) /\ m.due \subseteq Ids
        BY <2>1, <3>1 DEF ListingOk
      <3>3. DueOk(m, c, Step(c), table', lagging')
        <4>1. SUFFICES ASSUME NEW i \in m.due, NEW doc \in VisibleIn(table', lagging', i)
                       PROVE  Matches(Request(c, Step(c)).filter, doc)
          BY DEF DueOk
        <4>2. doc \in VisibleIn(table, lagging, i) \/ doc = table'[i]
          BY <3>2
        <4> QED BY <2>1, <2>3, <3>1, <4>2 DEF DueOk
      <3> QED BY <3>2, <3>3
    <2>4. CallerPages(call[c], outcome[c], m, c, table', lagging')
      BY <2>1, <2>2, <2>3 DEF CallerPages
    <2>5. AnswersOk(outcome[c], c, effects')
      BY <2>2, AnswersLater
    <2> QED BY <2>2, <2>4, <2>5 DEF CallerReads, m
  <1>2. ASSUME NEW z, z.caller \in Callers,
               ExecutionReads(z, call[z.caller], outcome[z.caller], listing[z.caller], effects')
        PROVE  ExecutionReads(z, call[z.caller], outcome[z.caller], listing'[z.caller], effects')
    <2>1. CASE z.orphan
      BY <1>2, <2>1, OrphanReads
    <2>2. CASE ~ z.orphan
      <3>1. listing'[z.caller].token = listing[z.caller].token
              /\ listing'[z.caller].due \subseteq listing[z.caller].due
        BY <1>2 DEF Pruned
      <3> QED BY <1>2, <2>2, <3>1, ReadsLater
    <2> QED BY <2>1, <2>2
  <1>3. ASSUME NEW z \in executions
        PROVE  /\ z.caller \in Callers
               /\ ExecutionReads(z, call[z.caller], outcome[z.caller], listing[z.caller], effects')
    <2>1. /\ z.caller \in Callers
          /\ ExecutionReads(z, call[z.caller], outcome[z.caller], listing[z.caller], effects)
      BY ExecutionReadFacts
    <2> QED BY <2>1, OrphanReads, ReadsLater
  <1>4. ASSUME NEW z \in executions'
        PROVE  ExecutionReads(z, call'[z.caller], outcome'[z.caller], listing'[z.caller], effects')
    <2>1. z \in executions \/ z = y
      BY DEF Replace
    <2>2. /\ z.caller \in Callers
          /\ ExecutionReads(z, call[z.caller], outcome[z.caller], listing[z.caller], effects')
      BY <1>3, <2>1
    <2> QED BY <1>2, <2>2
  <1>5. CallersRead(call', outcome', listing', table', lagging', effects')
    BY <1>1 DEF CallersRead
  <1> QED BY <1>4, <1>5 DEF ReadsKept, ExecutionsRead, Pruned
(* ... without a write.                                                    *)
LEMMA QuietReads ==
  ASSUME ServiceInv, ReadsInv, NEW x \in executions, NEW y, Replace(x, y),
         Pruned \/ UNCHANGED listing, UNCHANGED <<call, outcome, table, lagging, effects>>,
         y.caller = x.caller,
         ExecutionReads(y, call[x.caller], outcome[x.caller], listing[x.caller], effects)
  PROVE  ReadsKept
  <1>1. Pruned
    <2>1. SUFFICES ASSUME UNCHANGED listing PROVE Pruned
      OBVIOUS
    <2>2. ASSUME NEW c \in Callers, call[c].pc \in Active, NEW i \in listing[c].due
          PROVE  Matches(Request(c, Step(c)).filter, table[i])
      <3>1. DueOk(listing[c], c, Step(c), table, lagging)
        BY <2>2, CallerFacts
      <3> QED BY <3>1 DEF DueOk, VisibleIn
    <2>3. \A c \in Callers : IsListing(listing[c]) /\ listing = [d \in Callers |-> listing[d]]
      BY CallerFacts
    <2>4. listing = [d \in Callers |-> listing[d]]
      BY DEF ReadsInv
    <2> QED BY <2>1, <2>2, <2>3, <2>4 DEF Pruned
  <1>2. TableOk(table', lagging', effects') /\ effects \subseteq effects'
    BY DEF ReadsInv
  <1>3. \A i \in Ids : VisibleIn(table', lagging', i) \subseteq
                         VisibleIn(table, lagging, i) \cup {table'[i]}
    OBVIOUS
  <1>4. \A c \in Callers : CallerLag(call[c], outcome[c], lagging', effects')
    BY CallerFacts DEF CallerReads
  <1>5. ExecutionReads(y, call[x.caller], outcome[x.caller], listing[x.caller], effects')
    OBVIOUS
  <1> QED BY <1>1, <1>2, <1>3, <1>4, <1>5, ServesReads

(* ... and with one: an overwritten document may be read for a while, but   *)
(* the absence of one that was created is overwritten only by its creation. *)
LEMMA WriteReads ==
  ASSUME ServiceInv, ReadsInv, NEW x \in executions, NEW y, Replace(x, y), Pruned,
         UNCHANGED <<call, outcome>>, NEW i \in Ids, NEW doc \in Docs \cup {NoDoc},
         Write(i, doc), Effect(x, i, doc), y.caller = x.caller,
         ExecutionReads(y, call[x.caller], outcome[x.caller], listing[x.caller], effects')
  PROVE  ReadsKept
  <1> DEFINE e == [caller |-> x.caller, step |-> x.step, id |-> i, doc |-> doc]
             old == <<table[i], Lag>>
  <1>1. /\ effects' = effects \cup {e} /\ e.id = i /\ e.doc = doc
        /\ table' = [table EXCEPT ![i] = doc]
        /\ lagging' = IF Lag = 0 THEN lagging ELSE [lagging EXCEPT ![i] = @ \cup {old}]
    BY DEF Effect, Write
  <1>2. /\ TableTypes(table, lagging) /\ StoredOk(table, effects) /\ Lag \in Nat
        /\ \A f \in effects : f.id \in Ids
    BY TableAssumption DEF ReadsInv, TableOk
  <1> HIDE DEF e
  <1>3. /\ table \in [Ids -> Docs \cup {NoDoc}]
        /\ lagging \in [Ids -> SUBSET ((Docs \cup {NoDoc}) \X (1 .. Lag))]
        /\ table'[i] = doc /\ \A j \in Ids \ {i} : table'[j] = table[j]
    BY <1>1, <1>2 DEF TableTypes
  <1>4. /\ \A j \in Ids \ {i} : lagging'[j] = lagging[j]
        /\ lagging'[i] \subseteq lagging[i] \cup {old}
        /\ Lag # 0 => old \in (Docs \cup {NoDoc}) \X (1 .. Lag)
        /\ lagging' = [j \in Ids |-> lagging'[j]]
        /\ Lag = 0 => lagging' = lagging
    <2>1. table[i] \in Docs \cup {NoDoc} /\ lagging = [j \in Ids |-> lagging[j]]
      BY <1>3
    <2>2. Lag # 0 => old \in (Docs \cup {NoDoc}) \X (1 .. Lag)
      BY <1>2, <2>1
    <2> HIDE DEF old
    <2>3. CASE Lag = 0
      BY <1>1, <2>1, <2>3
    <2>4. CASE Lag # 0
      <3>1. lagging' = [lagging EXCEPT ![i] = lagging[i] \cup {old}]
        BY <1>1, <2>4
      <3> QED BY <2>1, <2>2, <2>4, <3>1
    <2> QED BY <2>3, <2>4
  <1> HIDE DEF old
  <1>5. TableTypes(table', lagging')
    <2>1. table' \in [Ids -> Docs \cup {NoDoc}]
      BY <1>1, <1>3
    <2>2. \A j \in Ids : lagging'[j] \in SUBSET ((Docs \cup {NoDoc}) \X (1 .. Lag))
      BY <1>3, <1>4
    <2> QED BY <1>4, <2>1, <2>2 DEF TableTypes
  <1>6. StoredOk(table', effects')
    <2>1. SUFFICES ASSUME NEW f \in effects', table'[f.id] = NoDoc PROVE Deleted(effects', f.id)
      BY DEF StoredOk
    <2>2. CASE f.id = i
      BY <1>1, <1>3, <2>1, <2>2 DEF Deleted
    <2>3. CASE f.id # i
      <3>1. f \in effects /\ table[f.id] = NoDoc
        BY <1>1, <1>2, <1>3, <2>1, <2>3
      <3> QED BY <1>1, <1>2, <3>1 DEF StoredOk, Deleted
    <2> QED BY <2>2, <2>3
  <1>7. TableOk(table', lagging', effects') /\ effects \subseteq effects'
    BY <1>1, <1>2, <1>5, <1>6 DEF TableOk
  <1>8. ASSUME NEW j \in Ids
        PROVE  VisibleIn(table', lagging', j) \subseteq VisibleIn(table, lagging, j) \cup {table'[j]}
    <2>1. CASE j = i
      <3>1. old[1] = table[i]
        BY DEF old
      <3> QED BY <1>4, <2>1, <3>1 DEF VisibleIn
    <2>2. CASE j # i
      BY <1>3, <1>4, <2>2 DEF VisibleIn
    <2> QED BY <2>1, <2>2
  <1>9. ASSUME NEW c \in Callers
        PROVE  CallerLag(call[c], outcome[c], lagging', effects')
    <2>1. SUFFICES ASSUME call[c].pc \in Active, Creates(outcome[c]) # {},
                          ~ Deleted(effects', Own(outcome[c])),
                          NEW o \in lagging'[Own(outcome[c])], o[1] = NoDoc
                   PROVE  o[2] + Elapsed(call[c]) <= Lag
      BY DEF CallerLag
    <2> DEFINE own == Own(outcome[c])
    <2>2. own \in Ids /\ \E f \in effects : f.id = own
      BY <2>1, OwnInIds
    <2> HIDE DEF own
    <2>3. ~ Deleted(effects, own)
      BY <1>1, <2>1, DeletedLater DEF own
    <2>4. table[own] # NoDoc
      BY <1>2, <2>2, <2>3 DEF StoredOk
    <2>5. o # old \/ own # i
      <3>1. old[1] = table[i]
        BY DEF old
      <3> QED BY <2>1, <2>4, <3>1
    <2>6. o \in lagging[own]
      BY <1>4, <2>1, <2>2, <2>5 DEF own
    <2>7. CallerLag(call[c], outcome[c], lagging, effects)
      BY CallerFacts DEF CallerReads
    <2> QED BY <2>1, <2>3, <2>6, <2>7 DEF CallerLag, own
  <1> QED BY <1>7, <1>8, <1>9, ServesReads

(* What follows from the place of an execution for what is due.            *)
LEMMA NothingDue ==
  ASSUME ServiceInv, ReadsInv, NEW x \in executions, ~ x.orphan,
         Of(x).method # "GET" \/ Of(x).kind # "items"
  PROVE  listing[x.caller].due = {}
  <1>1. ListingOk(listing[x.caller], x.caller, Step(x.caller)) /\ x.step = Step(x.caller)
    BY ExecutionReadFacts, CallerFacts
  <1> QED BY <1>1 DEF ListingOk, Paged, Of

LEMMA RespondsReads ==
  ASSUME ServiceInv, ReadsInv, NEW x \in executions, NEW a, IsAnswer(a),
         a.results = {}, a.token = 0,
         a.status >= 400 \/ Of(x).method # "GET" \/ Of(x).kind # "items",
         NEW H, effects \subseteq H,
         ~ x.orphan /\ a.status = 404 /\ Seeks(x.caller, x.step, outcome[x.caller])
           => Deleted(H, Own(outcome[x.caller])) \/ x.attempt < MaxAttempts
  PROVE  LET y == Responding(x, a)
         IN  /\ y.caller = x.caller
             /\ ExecutionReads(y, call[x.caller], outcome[x.caller], listing[x.caller], H)
  <1> DEFINE y == Responding(x, a)
  <1>1. /\ IsExecution(x) /\ x.id \in Ids \cup {0} /\ a.status \in Nat
        /\ ExecutionReads(x, call[x.caller], outcome[x.caller], listing[x.caller], effects)
    BY ExecutionReadFacts DEF IsAnswer
  <1>2. Carries(x, y) /\ y.id = x.id /\ y.at = "respond" /\ y.answer = a
    BY <1>1, RespondedCarries
  <1> HIDE DEF y
  <1>3. ~ x.orphan /\ a.status < 400 => listing[x.caller].due = {}
    BY <1>1, NothingDue
  <1>4. ExecutionReads(y, call[x.caller], outcome[x.caller], listing[x.caller], H)
    BY <1>1, <1>2, <1>3, PlainReads
  <1>5. y.caller = x.caller
    BY <1>2 DEF Carries, Follows
  <1> QED BY <1>4, <1>5 DEF y
(* A read that misses what its caller created: the last attempt comes after *)
(* every absence that was overwritten.                                     *)
LEMMA LastAttemptFinds ==
  ASSUME ServiceInv, ReadsInv, NEW x \in executions, ~ x.orphan, Of(x).method # "POST",
         NoDoc \in Visible(deployment.backend, x.id),
         Seeks(x.caller, x.step, outcome[x.caller])
  PROVE  Deleted(effects, Own(outcome[x.caller])) \/ x.attempt < MaxAttempts
  <1> DEFINE c == x.caller
             own == Own(outcome[c])
  <1>1. /\ c \in Callers /\ call[c].pc = "sent" /\ x.step = Step(c) /\ BelongsOk(x, call, outcome)
        /\ ExecutionLag(x, call[c], outcome[c], effects) /\ call[c].pc \in Active
    BY ExecutionReadFacts, ExecutionFacts
  <1>2. /\ outcome[c] \in Seq(Results) /\ Step(c) = Len(outcome[c]) + 1 /\ Len(outcome[c]) \in Nat
        /\ CallerLag(call[c], outcome[c], lagging, effects) /\ TableTypes(table, lagging)
        /\ call[c].attempt \in 1 .. MaxAttempts /\ MaxAttempts \in Nat /\ Lag \in Nat
    BY <1>1, CallerFacts DEF CallerReads, CallOk
  <1>3. x.id = own
    <2>1. SubSeq(outcome[c], 1, x.step - 1) = outcome[c]
      BY <1>1, <1>2
    <2>2. x.id = TargetOf(c, x.step, outcome[c])
      <3>1. x.id = TargetOf(c, x.step, SubSeq(outcome[c], 1, x.step - 1))
        BY <1>1 DEF BelongsOk
      <3> QED BY <2>1, <3>1
    <2>3. Request(c, x.step).id = 0 /\ Creates(outcome[c]) # {}
      BY DEF Seeks
    <2> QED BY <2>2, <2>3 DEF TargetOf, Own, Creates
  <1>4. own \in Ids /\ \E e \in effects : e.id = own
    BY <1>1, OwnInIds DEF Seeks
  <1> HIDE DEF own
  <1>5. SUFFICES ASSUME ~ Deleted(effects, own) PROVE x.attempt < MaxAttempts
    BY DEF own
  <1>6. table[own] # NoDoc
    <2>1. StoredOk(table, effects)
      BY DEF ReadsInv, TableOk
    <2> QED BY <1>4, <1>5, <2>1 DEF StoredOk
  <1>7. PICK old \in lagging[own] : old[1] = NoDoc
    BY <1>3, <1>6 DEF Visible
  <1>8. old[2] + Elapsed(call[c]) <= Lag
    <2>1. \A o \in lagging[own] : o[1] = NoDoc => o[2] + Elapsed(call[c]) <= Lag
      BY <1>1, <1>2, <1>5 DEF CallerLag, Seeks, own
    <2> QED BY <1>7, <2>1
  <1>9. old[2] \in 1 .. Lag
    <2>1. old \in (Docs \cup {NoDoc}) \X (1 .. Lag)
      BY <1>2, <1>4, <1>7 DEF TableTypes
    <2> QED BY <2>1
  <1>10. Elapsed(call[c]) = call[c].attempt - 1
    BY <1>1 DEF Elapsed
  <1>11. call[c].attempt <= Lag
    BY <1>2, <1>8, <1>9, <1>10
  <1>12. x.attempt = call[c].attempt
    BY <1>1 DEF ExecutionLag
  <1> QED BY <1>2, <1>11, <1>12, ServiceAssumption

LEMMA CreateReads ==
  ASSUME ServiceInv, ReadsInv, NEW x \in executions, CreatePut(x), Pruned,
         UNCHANGED <<call, outcome>>
  PROVE  ReadsKept
  <1> DEFINE y(i) == IF deployment.hook THEN [x EXCEPT !.at = "completed", !.id = i]
                     ELSE Created(x, i)
  <1>1. PICK i \in Ids : /\ Write(i, Of(x).doc) /\ Effect(x, i, Of(x).doc)
                         /\ Replace(x, y(i)) /\ x.at = "create"
    BY DEF CreatePut
  <1>2. /\ Of(x).method = "POST" /\ IsExecution(x) /\ Of(x).doc \in Docs \cup {NoDoc}
        /\ ExecutionReads(x, call[x.caller], outcome[x.caller], listing[x.caller], effects)
    BY <1>1, ExecutionFacts, ExecutionReadFacts DEF HandlingOk
  <1>3. effects \subseteq effects'
    BY <1>1 DEF Effect
  <1>4. CASE deployment.hook
    <2> DEFINE z == [x EXCEPT !.at = "completed", !.id = i]
    <2>1. Carries(x, z) /\ z.id = i /\ z.at = "completed"
      <3>1. IsExecution(x)
        BY <1>2
      <3> QED BY <3>1, HookCarries
    <2>2. Replace(x, z)
      BY <1>1, <1>4
    <2> HIDE DEF z, y
    <2>3. ExecutionReads(z, call[x.caller], outcome[x.caller], listing[x.caller], effects')
      BY <1>2, <1>3, <2>1, OtherReads
    <2>4. z.caller = x.caller
      BY <2>1 DEF Carries, Follows
    <2> QED BY <1>1, <1>2, <2>2, <2>3, <2>4, WriteReads
  <1>5. CASE ~ deployment.hook
    <2> DEFINE a == [Answer(201) EXCEPT !.id = i]
               z == Responding(x, a)
    <2>1. a = [status |-> 201, id |-> i, results |-> {}, token |-> 0] /\ i \in Nat
      BY TableAssumption DEF Answer
    <2>2. Replace(x, z)
      BY <1>1, <1>5 DEF Created
    <2> HIDE DEF a, y
    <2>3. IsAnswer(a) /\ a.status = 201 /\ a.results = {} /\ a.token = 0
      BY <2>1 DEF IsAnswer
    <2>4. /\ z.caller = x.caller
          /\ ExecutionReads(z, call[x.caller], outcome[x.caller], listing[x.caller], effects')
      BY <1>2, <1>3, <2>3, RespondsReads
    <2> HIDE DEF z
    <2> QED BY <1>1, <1>2, <2>2, <2>4, WriteReads
  <1> QED BY <1>4, <1>5

(* Updates and deletions.                                                  *)
LEMMA ChangeReads ==
  ASSUME ServiceInv, ReadsInv, NEW x \in executions, UpdatePut(x) \/ DeleteDelete(x), Pruned,
         UNCHANGED <<call, outcome>>
  PROVE  ReadsKept
  <1> DEFINE y == Responding(x, Answer(200))
  <1>1. PICK doc \in {Of(x).doc, NoDoc} :
          /\ Write(x.id, doc) /\ Effect(x, x.id, doc) /\ Replace(x, y)
          /\ x.at \in {"update", "delete"}
    BY DEF UpdatePut, DeleteDelete
  <1>2. /\ Of(x).method \in {"PUT", "DELETE"} /\ x.id \in Ids /\ doc \in Docs \cup {NoDoc}
    BY <1>1, ExecutionFacts, ExecutionReadFacts DEF HandlingOk, BelongsOk
  <1>3. effects \subseteq effects'
    BY <1>1 DEF Effect
  <1>4. /\ IsAnswer(Answer(200)) /\ Answer(200).status = 200
        /\ Answer(200).results = {} /\ Answer(200).token = 0
    BY PlainAnswer
  <1>5. /\ y.caller = x.caller
        /\ ExecutionReads(y, call[x.caller], outcome[x.caller], listing[x.caller], effects')
    BY <1>2, <1>3, <1>4, RespondsReads
  <1> HIDE DEF y
  <1> QED BY <1>1, <1>2, <1>5, WriteReads

LEMMA AnswerPlainly ==
  ASSUME ServiceInv, ReadsInv, NEW x \in executions, NEW a, IsAnswer(a),
         Replace(x, Responding(x, a)), a.results = {}, a.token = 0,
         Pruned \/ UNCHANGED listing, UNCHANGED <<call, outcome, table, lagging, effects>>,
         a.status >= 400 \/ Of(x).method # "GET" \/ Of(x).kind # "items",
         ~ x.orphan /\ a.status = 404 /\ Seeks(x.caller, x.step, outcome[x.caller])
           => Deleted(effects, Own(outcome[x.caller])) \/ x.attempt < MaxAttempts
  PROVE  ReadsKept
  <1> DEFINE y == Responding(x, a)
  <1>1. /\ y.caller = x.caller
        /\ ExecutionReads(y, call[x.caller], outcome[x.caller], listing[x.caller], effects)
    BY RespondsReads
  <1>2. Replace(x, y)
    OBVIOUS
  <1> HIDE DEF y
  <1> QED BY <1>1, <1>2, QuietReads

LEMMA CompletedReads ==
  ASSUME ServiceInv, ReadsInv, NEW x \in executions, CreateCompleted(x), Pruned,
         UNCHANGED <<call, outcome>>
  PROVE  ReadsKept
  <1> DEFINE a == [Answer(201) EXCEPT !.id = x.id]
  <1>1. /\ x.at = "completed" /\ Replace(x, Responding(x, a))
        /\ UNCHANGED <<table, lagging, effects>>
    BY DEF CreateCompleted, Created
  <1>2. x.id \in Ids /\ x.id \in Nat /\ Of(x).method = "POST"
    BY <1>1, ExecutionFacts, TableAssumption DEF HandlingOk
  <1>3. a = [status |-> 201, id |-> x.id, results |-> {}, token |-> 0]
    BY DEF Answer
  <1> HIDE DEF a
  <1>4. IsAnswer(a) /\ a.status = 201 /\ a.results = {} /\ a.token = 0
    BY <1>2, <1>3 DEF IsAnswer
  <1> QED BY <1>1, <1>2, <1>4, AnswerPlainly

LEMMA ErrorReads ==
  ASSUME ServiceInv, ReadsInv, NEW x \in executions, Replace(x, Responding(x, Answer(500))),
         Pruned \/ UNCHANGED listing, UNCHANGED <<call, outcome, table, lagging, effects>>
  PROVE  ReadsKept
  <1> DEFINE a == Answer(500)
  <1>1. IsAnswer(a) /\ a.status = 500 /\ a.results = {} /\ a.token = 0
    BY PlainAnswer
  <1>2. Replace(x, Responding(x, a))
    OBVIOUS
  <1> HIDE DEF a
  <1> QED BY <1>1, <1>2, AnswerPlainly

LEMMA GetReads ==
  ASSUME ServiceInv, ReadsInv, NEW x \in executions, GetRead(x) \/ DeleteRead(x), Pruned,
         UNCHANGED <<call, outcome>>
  PROVE  ReadsKept
  <1>1. /\ x.at \in {"get", "delete-get"} /\ UNCHANGED <<table, lagging, effects>>
        /\ \/ NoDoc \in Visible(deployment.backend, x.id) /\ Replace(x, Responding(x, Answer(404)))
           \/ x.at = "get" /\ Replace(x, Responding(x, Answer(200)))
           \/ x.at = "delete-get" /\ Replace(x, [x EXCEPT !.at = "delete"])
    <2>1. CASE GetRead(x)
      BY <2>1 DEF GetRead
    <2>2. CASE DeleteRead(x)
      BY <2>2 DEF DeleteRead
    <2> QED BY <2>1, <2>2
  <1>2. /\ Of(x).method \in {"GET", "DELETE"} /\ IsExecution(x)
        /\ x.at = "get" => Of(x).kind = "item"
        /\ x.id \in Ids \cup {0}
        /\ ExecutionReads(x, call[x.caller], outcome[x.caller], listing[x.caller], effects)
    BY <1>1, ExecutionFacts, ExecutionReadFacts DEF HandlingOk, ExecutionPages
  <1>3. CASE NoDoc \in Visible(deployment.backend, x.id) /\ Replace(x, Responding(x, Answer(404)))
    <2> DEFINE a == Answer(404)
    <2>1. IsAnswer(a) /\ a.status = 404 /\ a.results = {} /\ a.token = 0
      BY PlainAnswer
    <2>2. Replace(x, Responding(x, a))
      BY <1>3
    <2> HIDE DEF a
    <2>3. ~ x.orphan /\ Seeks(x.caller, x.step, outcome[x.caller])
            => Deleted(effects, Own(outcome[x.caller])) \/ x.attempt < MaxAttempts
      BY <1>2, <1>3, LastAttemptFinds
    <2> QED BY <1>1, <2>1, <2>2, <2>3, AnswerPlainly
  <1>4. CASE x.at = "get" /\ Replace(x, Responding(x, Answer(200)))
    <2> DEFINE a == Answer(200)
    <2>1. IsAnswer(a) /\ a.status = 200 /\ a.results = {} /\ a.token = 0
      BY PlainAnswer
    <2>2. Replace(x, Responding(x, a)) /\ Of(x).kind # "items"
      BY <1>2, <1>4
    <2> HIDE DEF a
    <2> QED BY <1>1, <2>1, <2>2, AnswerPlainly
  <1>5. CASE x.at = "delete-get" /\ Replace(x, [x EXCEPT !.at = "delete"])
    <2> DEFINE y == [x EXCEPT !.at = "delete"]
    <2>1. Carries(x, y) /\ y.id = x.id /\ y.at = "delete"
      BY <1>2, MovedCarries
    <2>2. Replace(x, y)
      BY <1>5
    <2> HIDE DEF y
    <2>3. ExecutionReads(y, call[x.caller], outcome[x.caller], listing[x.caller], effects)
      BY <1>2, <2>1, OtherReads
    <2>4. y.caller = x.caller
      BY <2>1 DEF Carries, Follows
    <2> QED BY <1>1, <2>2, <2>3, <2>4, QuietReads
  <1> QED BY <1>1, <1>3, <1>4, <1>5
(* What an execution awaits a page for matches in whatever it reads.       *)
LEMMA DueMatches ==
  ASSUME ServiceInv, ReadsInv, NEW x \in executions, ~ x.orphan, NEW i \in listing[x.caller].due,
         NEW doc \in VisibleIn(table, lagging, i)
  PROVE  i \in Ids /\ Matches(Of(x).filter, doc)
  <1>1. /\ x.step = Step(x.caller) /\ x.caller \in Callers /\ call[x.caller].pc \in Active
        /\ Of(x) = Request(x.caller, x.step)
    BY ExecutionReadFacts
  <1>2. /\ DueOk(listing[x.caller], x.caller, Step(x.caller), table, lagging)
        /\ ListingOk(listing[x.caller], x.caller, Step(x.caller))
    BY <1>1, CallerFacts
  <1> QED BY <1>1, <1>2 DEF DueOk, ListingOk

LEMMA FoundReads ==
  ASSUME ServiceInv, ReadsInv, NEW x \in executions, NEW page, Replace(x, Found(x, page)),
         PageOk(x, page.results, page.token),
         ~ x.orphan => PageFull(x, page.results, page.token, listing[x.caller].due),
         Pruned, UNCHANGED <<call, outcome, table, lagging, effects>>
  PROVE  ReadsKept
  <1>1. PICK a : /\ IsAnswer(a) /\ a.status = 200 /\ Found(x, page) = Responding(x, a)
                 /\ a.results = page.results /\ a.token = page.token
    BY FoundIs
  <1> DEFINE y == Responding(x, a)
  <1>2. /\ IsExecution(x) /\ x.id \in Ids \cup {0}
        /\ ExecutionReads(x, call[x.caller], outcome[x.caller], listing[x.caller], effects)
    BY ExecutionReadFacts
  <1>3. Carries(x, y) /\ y.id = x.id /\ y.at = "respond" /\ y.answer = a
    BY <1>1, <1>2, RespondedCarries
  <1>4. Replace(x, y)
    BY <1>1
  <1> HIDE DEF y
  <1>5. ExecutionReads(y, call[x.caller], outcome[x.caller], listing[x.caller], effects)
    <2>1. /\ PageOk(x, y.answer.results, y.answer.token) /\ y.answer.status # 404
          /\ ~ x.orphan => PageFull(x, y.answer.results, y.answer.token, listing[x.caller].due)
      BY <1>1, <1>3
    <2> QED BY <1>2, <1>3, <2>1, AnswerReads
  <1>6. y.caller = x.caller
    BY <1>3 DEF Carries, Follows
  <1> QED BY <1>4, <1>5, <1>6, QuietReads

LEMMA QueryReads ==
  ASSUME ServiceInv, ReadsInv, NEW x \in executions, QueryRead(x), Pruned,
         UNCHANGED <<call, outcome>>
  PROVE  ReadsKept
  <1>1. x.at = "query" /\ UNCHANGED <<table, lagging, effects>>
    BY DEF QueryRead
  <1>2. PICK view \in Views :
          Replace(x, CASE deployment.backend = "DynamoDB" ->
                            Found(x, DynamoDbQuery(view, Of(x), x.token))
                       [] deployment.backend = "CosmosDB" ->
                            Found(x, CosmosDbQuery(view, Of(x)))
                       [] deployment.backend = "Firestore" /\ FirestoreThrows(x.token) ->
                            Responding(x, Answer(500))
                       [] deployment.backend = "Firestore" /\ ~FirestoreThrows(x.token) ->
                            [x EXCEPT !.at = "next", !.page = FirestoreQuery(view, Of(x))])
    BY DEF QueryRead
  <1> DEFINE due == IF x.orphan THEN {} ELSE listing[x.caller].due
  <1>3. due \subseteq Ids /\ \A i \in due : Matches(Of(x).filter, view[i])
    <2>1. ASSUME NEW i \in due PROVE i \in Ids /\ Matches(Of(x).filter, view[i])
      <3>1. ~ x.orphan /\ i \in listing[x.caller].due
        BY <2>1
      <3>2. i \in Ids
        <4>1. table[i] \in VisibleIn(table, lagging, i)
          BY DEF VisibleIn
        <4> QED BY <3>1, <4>1, DueMatches
      <3>3. view[i] \in VisibleIn(table, lagging, i)
        BY <3>2 DEF Views, Visible, VisibleIn
      <3> QED BY <3>1, <3>2, <3>3, DueMatches
    <2> QED BY <2>1
  <1>4. /\ Of(x).size \in Nat /\ IsExecution(x) /\ x.id \in Ids \cup {0}
        /\ x.token \in PageTokens /\ Of(x).kind = "items"
        /\ ExecutionReads(x, call[x.caller], outcome[x.caller], listing[x.caller], effects)
    BY <1>1, ExecutionReadFacts DEF ExecutionPages
  <1>5. ~ x.orphan => due = listing[x.caller].due
    OBVIOUS
  <1> HIDE DEF due
  <1>6. CASE deployment.backend = "DynamoDB"
    <2> DEFINE page == DynamoDbQuery(view, Of(x), x.token)
    <2>1. PageOk(x, page.results, page.token) /\ PageFull(x, page.results, page.token, due)
      BY <1>3, <1>4, <1>6, DynamoPage
    <2>2. Replace(x, Found(x, page))
      BY <1>2, <1>6
    <2> HIDE DEF page
    <2> QED BY <1>1, <1>5, <2>1, <2>2, FoundReads
  <1>7. CASE deployment.backend = "CosmosDB"
    <2> DEFINE page == CosmosDbQuery(view, Of(x))
    <2>0. x.token = 0
      BY <1>4, <1>7 DEF PageTokens
    <2>1. PageOk(x, page.results, page.token) /\ PageFull(x, page.results, page.token, due)
      BY <1>3, <2>0, CosmosPage
    <2>2. Replace(x, Found(x, page))
      BY <1>2, <1>7
    <2> HIDE DEF page
    <2> QED BY <1>1, <1>5, <2>1, <2>2, FoundReads
  <1>8. CASE deployment.backend = "Firestore" /\ x.token # 0
    <2>1. Replace(x, Responding(x, Answer(500)))
      BY <1>2, <1>8 DEF FirestoreThrows
    <2> QED BY <1>1, <2>1, ErrorReads
  <1>9. CASE deployment.backend = "Firestore" /\ x.token = 0
    <2> DEFINE page == FirestoreQuery(view, Of(x))
               y == [x EXCEPT !.at = "next", !.page = page]
    <2>1. /\ page \subseteq Ids
          /\ \A i \in page : Beyond(x.caller, x.step, x.token, i)
          /\ \A i \in due :
               Beyond(x.caller, x.step, x.token, i) =>
                 \/ i \in page
                 \/ page # {} /\ \A j \in page : Precedes(Order(x.caller, x.step), j, i)
      BY <1>3, <1>4, <1>9, FirestorePage
    <2>2. Replace(x, y)
      BY <1>2, <1>9 DEF FirestoreThrows
    <2> HIDE DEF page
    <2>3. Carries(x, y) /\ y.id = x.id /\ y.at = "next" /\ y.page = page
      BY <1>4, NextCarries
    <2> HIDE DEF y
    <2>4. Of(y) = Of(x) /\ y.caller = x.caller /\ y.step = x.step
      BY <2>3 DEF Carries, Follows, Of
    <2>5. TakenOk(y, listing[x.caller].due)
      BY <1>5, <1>9, <2>1, <2>3, <2>4 DEF TakenOk, Carries
    <2>6. ExecutionPages(y, listing[x.caller])
      BY <1>4, <2>3, <2>4, <2>5 DEF ExecutionReads, ExecutionPages, Carries
    <2>7. ExecutionLag(y, call[x.caller], outcome[x.caller], effects)
      BY <1>4, <2>3 DEF ExecutionReads, ExecutionLag, Carries
    <2>8. ExecutionReads(y, call[x.caller], outcome[x.caller], listing[x.caller], effects)
      BY <1>4, <2>3, <2>6, <2>7 DEF ExecutionReads
    <2> QED BY <1>1, <2>2, <2>4, <2>8, QuietReads
  <1> QED BY <1>6, <1>7, <1>8, <1>9, ExecutionFacts, DeploymentsAssumption

LEMMA NextReads ==
  ASSUME ServiceInv, ReadsInv, NEW x \in executions, QueryNext(x), Pruned,
         UNCHANGED <<call, outcome>>
  PROVE  ReadsKept
  <1> DEFINE due == IF x.orphan THEN {} ELSE listing[x.caller].due
             token == NextPageStartToken(table, Of(x), x.page)
             page == [results |-> x.page, token |-> token]
  <1>1. x.at = "next" /\ Replace(x, Found(x, page)) /\ UNCHANGED <<table, lagging, effects>>
    BY DEF QueryNext
  <1>2. due \subseteq Ids /\ \A i \in due : Matches(Of(x).filter, table[i])
    <2>1. ASSUME NEW i \in due PROVE i \in Ids /\ Matches(Of(x).filter, table[i])
      <3>1. ~ x.orphan /\ i \in listing[x.caller].due
        BY <2>1
      <3>2. table[i] \in VisibleIn(table, lagging, i)
        BY DEF VisibleIn
      <3> QED BY <3>1, <3>2, DueMatches
    <2> QED BY <2>1
  <1>3. TakenOk(x, listing[x.caller].due) /\ Of(x).size \in Nat
    BY <1>1, ExecutionReadFacts DEF ExecutionPages
  <1>4. TakenOk(x, due)
    BY <1>3 DEF TakenOk
  <1>5. ~ x.orphan => due = listing[x.caller].due
    OBVIOUS
  <1> HIDE DEF due
  <1>6. PageOk(x, x.page, token) /\ (~ x.orphan => PageFull(x, x.page, token, due))
    BY <1>2, <1>3, <1>4, NextPage
  <1>7. page.results = x.page /\ page.token = token
    OBVIOUS
  <1> HIDE DEF page, token
  <1> QED BY <1>1, <1>5, <1>6, <1>7, FoundReads

LEMMA LoadReads ==
  ASSUME ServiceInv, ReadsInv, NEW x \in executions, LoadSecurity(x), Pruned,
         UNCHANGED <<call, outcome>>
  PROVE  ReadsKept
  <1> DEFINE y == Secured(x)
  <1>1. Replace(x, y) /\ UNCHANGED <<table, lagging, effects>>
    BY DEF LoadSecurity
  <1>2. /\ IsExecution(x)
        /\ ExecutionReads(x, call[x.caller], outcome[x.caller], listing[x.caller], effects)
    BY ExecutionReadFacts
  <1>3. Enters(x, y)
    BY <1>2, SecuredEnters
  <1> HIDE DEF y
  <1>4. ~ x.orphan => listing[x.caller].due = {} \/ Paged(x.caller, x.step)
    BY NothingDue DEF Paged, Of
  <1>5. ExecutionReads(y, call[x.caller], outcome[x.caller], listing[x.caller], effects)
    BY <1>2, <1>3, <1>4, EnterReads
  <1>6. y.caller = x.caller
    BY <1>3 DEF Enters, Carries, Follows
  <1> QED BY <1>1, <1>5, <1>6, QuietReads

LEMMA ExecuteReads ==
  ASSUME ServiceInv, ReadsInv, NEW x \in executions, Execute(x)
  PROVE  ReadsKept
  <1>1. UNCHANGED <<call, outcome>> /\ Handle(x) /\ Pruned
    BY PruneIs DEF Execute
  <1>2. CASE LoadSecurity(x)
    BY <1>1, <1>2, LoadReads
  <1>3. CASE CreatePut(x)
    BY <1>1, <1>3, CreateReads
  <1>4. CASE CreateCompleted(x)
    BY <1>1, <1>4, CompletedReads
  <1>5. CASE UpdatePut(x) \/ DeleteDelete(x)
    BY <1>1, <1>5, ChangeReads
  <1>6. CASE GetRead(x) \/ DeleteRead(x)
    BY <1>1, <1>6, GetReads
  <1>7. CASE DeleteMissing(x)
    <2>1. Replace(x, Responding(x, Answer(500))) /\ UNCHANGED <<table, lagging, effects>>
      BY <1>7 DEF DeleteMissing
    <2> QED BY <1>1, <2>1, ErrorReads
  <1>8. CASE QueryRead(x)
    BY <1>1, <1>8, QueryReads
  <1>9. CASE QueryNext(x)
    BY <1>1, <1>9, NextReads
  <1> QED BY <1>1, <1>2, <1>3, <1>4, <1>5, <1>6, <1>7, <1>8, <1>9 DEF Handle

LEMMA FailsReads ==
  ASSUME ServiceInv, ReadsInv, NEW x \in executions, Fails(x)
  PROVE  ReadsKept
  <1>1. /\ Replace(x, Responding(x, Answer(500)))
        /\ UNCHANGED <<call, outcome, listing, table, lagging, effects>>
    BY DEF Fails, Throws, clientVars
  <1> QED BY <1>1, ErrorReads
-----------------------------------------------------------------------------
(* Time, and the rest of the state.                                        *)

LEMMA TickReads ==
  ASSUME ServiceInv, ReadsInv, Tick
  PROVE  ReadsKept
  <1>1. /\ call' = [c \in Callers |-> [call[c] EXCEPT !.wait = IF @ > 0 THEN @ - 1 ELSE 0]]
        /\ lagging' = [i \in Ids |-> {<<old[1], old[2] - 1>> : old \in {o \in lagging[i] : o[2] > 1}}]
        /\ UNCHANGED <<table, executions, effects, outcome, listing>>
    BY DEF Tick, ClientAge, TableAge
  <1>2. ASSUME NEW c \in Callers
        PROVE  /\ call'[c].pc = call[c].pc /\ call'[c].attempt = call[c].attempt
               /\ call'[c].wait = IF call[c].wait > 0 THEN call[c].wait - 1 ELSE 0
    <2> DEFINE w == IF call[c].wait > 0 THEN call[c].wait - 1 ELSE 0
    <2>1. call'[c] = [call[c] EXCEPT !.wait = w]
      BY <1>1
    <2> HIDE DEF w
    <2>2. call'[c] = CallRecord(call[c].pc, call[c].attempt, call[c].headers, w)
      BY <2>1, CallerFacts, CallFieldsAre DEF CallRecord, CallFields
    <2>3. call'[c].pc = call[c].pc /\ call'[c].attempt = call[c].attempt /\ call'[c].wait = w
      BY <2>2, CallRecordIs
    <2> QED BY <2>3 DEF w
  <1>3. /\ table \in [Ids -> Docs \cup {NoDoc}] /\ StoredOk(table, effects)
        /\ lagging \in [Ids -> SUBSET ((Docs \cup {NoDoc}) \X (1 .. Lag))]
        /\ \A e \in effects : e.id \in Ids
    BY DEF ReadsInv, TableOk, TableTypes
  <1>4. ASSUME NEW i \in Ids, NEW o \in lagging'[i]
        PROVE  /\ o \in (Docs \cup {NoDoc}) \X (1 .. Lag)
               /\ \E old \in lagging[i] : old[1] = o[1] /\ o[2] = old[2] - 1 /\ old[2] \in Nat
    <2>1. PICK old \in lagging[i] : old[2] > 1 /\ o = <<old[1], old[2] - 1>>
      BY <1>1
    <2>2. old \in (Docs \cup {NoDoc}) \X (1 .. Lag) /\ Lag \in Nat
      BY <1>3, TableAssumption
    <2> QED BY <2>1, <2>2
  <1>5. TableOk(table', lagging', effects')
    <2>1. lagging' = [i \in Ids |-> lagging'[i]]
      BY <1>1
    <2>2. \A i \in Ids : lagging'[i] \in SUBSET ((Docs \cup {NoDoc}) \X (1 .. Lag))
      BY <1>4
    <2> QED BY <1>1, <1>3, <2>1, <2>2 DEF TableOk, TableTypes
  <1>6. ASSUME NEW c \in Callers
        PROVE  CallerReads(call'[c], outcome[c], listing[c], c, table, lagging', effects)
    <2> DEFINE l == listing[c]
    <2>1. /\ CallerTypes(call[c], outcome[c], c) /\ AnswersOk(outcome[c], c, effects)
          /\ CallerPages(call[c], outcome[c], l, c, table, lagging)
          /\ CallerLag(call[c], outcome[c], lagging, effects)
      BY CallerFacts DEF CallerReads
    <2>2. CallerTypes(call'[c], outcome[c], c)
      BY <1>2, <2>1 DEF CallerTypes
    <2>3. CallerPages(call'[c], outcome[c], l, c, table, lagging')
      <3>1. SUFFICES ASSUME call[c].pc \in Active
                     PROVE  DueOk(l, c, Len(outcome[c]) + 1, table, lagging')
        BY <1>2, <2>1 DEF CallerPages
      <3>2. DueOk(l, c, Len(outcome[c]) + 1, table, lagging) /\ l.due \subseteq Ids
        BY <2>1, <3>1 DEF CallerPages, ListingOk
      <3>3. \A i \in Ids : VisibleIn(table, lagging', i) \subseteq VisibleIn(table, lagging, i)
        BY <1>4 DEF VisibleIn
      <3> QED BY <3>2, <3>3 DEF DueOk
    <2>4. CallerLag(call'[c], outcome[c], lagging', effects)
      <3>1. SUFFICES ASSUME call[c].pc \in Active, Creates(outcome[c]) # {},
                            ~ Deleted(effects, Own(outcome[c])),
                            NEW o \in lagging'[Own(outcome[c])], o[1] = NoDoc
                     PROVE  o[2] + Elapsed(call'[c]) <= Lag
        BY <1>2 DEF CallerLag
      <3>2. PICK old \in lagging[Own(outcome[c])] :
              old[1] = NoDoc /\ o[2] = old[2] - 1 /\ old[2] \in Nat
        BY <1>4, <3>1, OwnInIds
      <3>3. old[2] + Elapsed(call[c]) <= Lag
        BY <2>1, <3>1, <3>2 DEF CallerLag
      <3>4. /\ Elapsed(call[c]) \in Int /\ Elapsed(call'[c]) \in Int
            /\ Elapsed(call'[c]) <= Elapsed(call[c]) + 1
        BY <1>2, <2>1, CallerFacts DEF Elapsed, CallerTypes
      <3>5. Lag \in Nat
        BY TableAssumption
      <3> QED BY <3>2, <3>3, <3>4, <3>5
    <2> QED BY <2>1, <2>2, <2>3, <2>4 DEF CallerReads
  <1>7. ASSUME NEW x \in executions
        PROVE  ExecutionReads(x, call'[x.caller], outcome[x.caller], listing[x.caller], effects)
    <2>1. /\ x.caller \in Callers
          /\ ExecutionReads(x, call[x.caller], outcome[x.caller], listing[x.caller], effects)
      BY ExecutionReadFacts
    <2>2. call'[x.caller].attempt = call[x.caller].attempt
      BY <1>2, <2>1
    <2> QED BY <2>1, <2>2, OrphanReads, ReadsLater
  <1>8. listing' = [c \in Callers |-> listing'[c]]
    BY <1>1 DEF ReadsInv
  <1> QED BY <1>1, <1>5, <1>6, <1>7, <1>8 DEF ReadsKept, CallersRead, ExecutionsRead

LEMMA CredentialSet ==
  ASSUME credential \in Credentials, NEW t, NEW m \in [held : BOOLEAN, life : 0 .. TokenLife]
  PROVE  [credential EXCEPT ![t] = m] \in Credentials
  BY DEF Credentials

LEMMA CredentialAges ==
  ASSUME credential \in Credentials
  PROVE  [credential EXCEPT !["AccessToken"].life = IF @ > 0 THEN @ - 1 ELSE 0] \in Credentials
  <1> DEFINE old == credential["AccessToken"]
             life == IF old.life > 0 THEN old.life - 1 ELSE 0
             new == [old EXCEPT !.life = life]
  <1>1. old \in [held : BOOLEAN, life : 0 .. TokenLife] /\ TokenLife \in Nat
    BY ClientAssumption DEF Credentials, CachedTypes
  <1>2. new \in [held : BOOLEAN, life : 0 .. TokenLife]
    <2>1. old.life \in 0 .. TokenLife
      BY <1>1
    <2>2. life \in 0 .. TokenLife
      BY <1>1, <2>1
    <2> HIDE DEF life, old
    <2> QED BY <1>1, <2>2
  <1> QED BY <1>2, CredentialSet DEF Credentials

LEMMA TypesKept ==
  ASSUME ServiceInv, ReadsInv, Next
  PROVE  credential' \in Credentials /\ loaded' \in BOOLEAN /\ faults' \in 0 .. MaxFaults
  <1>1. /\ credential \in Credentials /\ loaded \in BOOLEAN /\ faults \in 0 .. MaxFaults
        /\ MaxFaults \in Nat
    BY ServiceAssumption DEF ReadsInv
  <1>2. ASSUME NEW c \in Callers, CallerStep(c)
        PROVE  credential' \in Credentials /\ UNCHANGED <<loaded, faults>>
    <2>1. CASE FetchCredential(c)
      <3> DEFINE m == [held |-> FALSE, life |-> 0]
      <3>1. credential' = [credential EXCEPT ![Authenticator(c)] = m] /\ UNCHANGED <<loaded, faults>>
        BY <2>1 DEF FetchCredential, Fetch, apiVars
      <3>2. m \in [held : BOOLEAN, life : 0 .. TokenLife]
        BY ClientAssumption
      <3> HIDE DEF m
      <3> QED BY <1>1, <3>1, <3>2, CredentialSet
    <2>2. CASE Send(c)
      <3>1. CASE SendHeld(c)
        BY <1>1, <2>2, <3>1 DEF Send, SendHeld
      <3>2. ASSUME NEW life \in FetchedLives(c), SendFetched(c, life)
            PROVE  credential' \in Credentials
        <4> DEFINE m == [held |-> TRUE, life |-> life]
        <4>1. credential' = [credential EXCEPT ![Authenticator(c)] = m]
          BY <3>2 DEF SendFetched
        <4>2. life \in 0 .. TokenLife
          BY ClientAssumption DEF FetchedLives
        <4>3. m \in [held : BOOLEAN, life : 0 .. TokenLife]
          BY <4>2
        <4> HIDE DEF m
        <4> QED BY <1>1, <4>1, <4>3, CredentialSet
      <3>3. UNCHANGED <<loaded, faults>>
        BY <2>2 DEF Send
      <3> QED BY <2>2, <3>1, <3>2, <3>3 DEF Send
    <2>3. CASE Begin(c) \/ SigningThrows(c) \/ Continue(c)
      BY <1>1, <2>3 DEF Begin, Call, SigningThrows, SignFails, Continue, Wake, apiVars
    <2> QED BY <1>2, <2>1, <2>2, <2>3 DEF CallerStep
  <1>3. ASSUME NEW x \in executions, Execute(x)
        PROVE  loaded' \in BOOLEAN /\ UNCHANGED <<credential, faults>>
    BY <1>1, <1>3 DEF Execute, Handle, LoadSecurity, CreatePut, CreateCompleted, UpdatePut,
                      GetRead, DeleteRead, DeleteDelete, DeleteMissing, QueryRead, QueryNext
  <1>4. ASSUME NEW x \in executions, Respond(x)
        PROVE  UNCHANGED <<credential, loaded, faults>>
    BY <1>4 DEF Respond, Answered, clientVars
  <1>5. ASSUME Failure
        PROVE  faults' \in 0 .. MaxFaults /\ UNCHANGED <<credential, loaded>>
    <2>1. Fault => faults' \in 0 .. MaxFaults
      BY <1>1 DEF Fault
    <2> QED BY <1>5, <2>1 DEF Failure, Fails, Throws, GatewayFails, Answered, ConnectionBreaks,
                              Disconnect, FetchFails, ProviderFails, clientVars, apiVars
  <1>6. ASSUME Tick
        PROVE  credential' \in Credentials /\ UNCHANGED <<loaded, faults>>
    BY <1>1, <1>6, CredentialAges DEF Tick, ClientAge
  <1>7. ASSUME Done
        PROVE  UNCHANGED <<credential, loaded, faults>>
    BY <1>7 DEF Done, vars, clientVars, apiVars
  <1> QED BY <1>1, <1>2, <1>3, <1>4, <1>5, <1>6, <1>7 DEF Next, Ongoing, ServiceStep
-----------------------------------------------------------------------------
(* The invariant, and what follows from it.                                *)

LEMMA StepReads ==
  ASSUME ServiceInv, ReadsInv, Next
  PROVE  ReadsKept
  <1>1. ASSUME NEW c \in Callers, CallerStep(c)
        PROVE  ReadsKept
    <2>1. CASE SigningThrows(c)
      <3>1. /\ call[c].pc = "sign" /\ Reject(c, 0)
            /\ UNCHANGED <<listing, table, lagging, executions, effects>>
        BY <2>1 DEF SigningThrows, SignFails, apiVars
      <3> QED BY <1>1, <3>1, SignFailsReads
    <2>2. CASE Begin(c) \/ FetchCredential(c) \/ Send(c) \/ Continue(c)
      BY <2>2, BeginReads, FetchReads, SendReads, ContinueReads
    <2> QED BY <1>1, <2>1, <2>2 DEF CallerStep
  <1>2. ASSUME ServiceStep PROVE ReadsKept
    BY <1>2, ExecuteReads, RespondReads DEF ServiceStep
  <1>3. ASSUME Tick PROVE ReadsKept
    BY <1>3, TickReads
  <1>4. ASSUME Failure PROVE ReadsKept
    <2>1. ASSUME NEW x \in executions, Fails(x) \/ GatewayFails(x) \/ ConnectionBreaks(x)
          PROVE  ReadsKept
      BY <2>1, FailsReads, GatewayReads, BreakReads
    <2>2. ASSUME NEW c \in Callers, FetchFails(c)
          PROVE  ReadsKept
      <3>1. PICK status \in {0, 404, 503} : ProviderFails(c, status)
        BY <2>2 DEF FetchFails
      <3> QED BY <2>2, <3>1, ProviderFailsReads DEF FetchFails, apiVars
    <2> QED BY <1>4, <2>1, <2>2 DEF Failure
  <1>5. ASSUME Done PROVE ReadsKept
    <2>1. UNCHANGED <<call, outcome, listing, executions, table, lagging, effects>>
      BY <1>5 DEF Done, vars, clientVars, apiVars
    <2> QED BY <2>1 DEF ReadsKept, ReadsInv
  <1> QED BY <1>1, <1>2, <1>3, <1>4, <1>5 DEF Next, Ongoing

LEMMA InitReads ==
  ASSUME Init
  PROVE  ReadsInv
  <1>1. /\ deployment \in Deployments /\ executions = {} /\ effects = {} /\ loaded = FALSE
        /\ faults = 0 /\ table = [i \in Ids |-> IF i \in DOMAIN deployment.documents
                                                THEN deployment.documents[i] ELSE NoDoc]
        /\ lagging = [i \in Ids |-> {}]
        /\ call = [c \in Callers |->
                     [pc |-> "idle", attempt |-> 0, headers |-> NoHeaders, wait |-> 0]]
        /\ outcome = [c \in Callers |-> <<>>]
        /\ listing = [c \in Callers |-> [token |-> 0, got |-> {}, twice |-> {}, due |-> {}]]
        /\ credential = [t \in CachedTypes |-> [held |-> FALSE, life |-> 0]]
    BY DEF Init, ClientInit, ApiInit, TableInit
  <1>2. TableOk(table, lagging, effects)
    <2>1. \A i \in Ids \cap DOMAIN deployment.documents : deployment.documents[i] \in Docs
      BY <1>1, DeploymentsAssumption
    <2>2. table \in [Ids -> Docs \cup {NoDoc}]
      BY <1>1, <2>1
    <2> QED BY <1>1, <2>2 DEF TableOk, TableTypes, StoredOk
  <1>3. ASSUME NEW c \in Callers
        PROVE  CallerReads(call[c], outcome[c], listing[c], c, table, lagging, effects)
    <2>1. /\ call[c] = [pc |-> "idle", attempt |-> 0, headers |-> NoHeaders, wait |-> 0]
          /\ outcome[c] = <<>>
          /\ listing[c] = [token |-> 0, got |-> {}, twice |-> {}, due |-> {}]
      BY <1>1
    <2>2. CallerTypes(call[c], outcome[c], c)
      <3>1. deployment.program[c] \in Seq(Requests)
        BY <1>1, DeploymentsAssumption
      <3>2. Len(deployment.program[c]) \in Nat
        BY <3>1
      <3> QED BY <2>1, <3>2, ClientAssumption DEF CallerTypes
    <2>3. CallerPages(call[c], outcome[c], listing[c], c, table, lagging)
      BY <2>1 DEF CallerPages, IsListing, Active
    <2>4. CallerLag(call[c], outcome[c], lagging, effects) /\ AnswersOk(outcome[c], c, effects)
      BY <2>1 DEF CallerLag, AnswersOk, Active
    <2> QED BY <2>2, <2>3, <2>4 DEF CallerReads
  <1>4. credential \in Credentials /\ loaded \in BOOLEAN /\ faults \in 0 .. MaxFaults
    <2>1. [held |-> FALSE, life |-> 0] \in [held : BOOLEAN, life : 0 .. TokenLife]
      BY ClientAssumption
    <2>2. credential \in Credentials
      BY <1>1, <2>1 DEF Credentials
    <2>3. 0 \in 0 .. MaxFaults
      BY ServiceAssumption
    <2> QED BY <1>1, <2>2, <2>3
  <1> QED BY <1>1, <1>2, <1>3, <1>4 DEF ReadsInv, CallersRead, ExecutionsRead

(* Only the deployment is not a parameter of the parts: it stays.           *)
LEMMA ReadsNext ==
  ASSUME ReadsKept, UNCHANGED deployment,
         credential' \in Credentials, loaded' \in BOOLEAN, faults' \in 0 .. MaxFaults
  PROVE  ReadsInv'
  <1>1. ASSUME NEW c \in Callers
        PROVE  CallerReads(call[c], outcome[c], listing[c], c, table, lagging, effects)'
    <2>1. /\ CallerTypes(call'[c], outcome'[c], c)
          /\ CallerPages(call'[c], outcome'[c], listing'[c], c, table', lagging')
          /\ CallerLag(call'[c], outcome'[c], lagging', effects')
          /\ AnswersOk(outcome'[c], c, effects')
      BY DEF ReadsKept, CallersRead, CallerReads
    <2>2. CallerTypes(call[c], outcome[c], c)'
      BY <2>1 DEF CallerTypes, Authenticator
    <2>3. CallerPages(call[c], outcome[c], listing[c], c, table, lagging)'
      <3>1. ASSUME call'[c].pc \in Active
            PROVE  ListingOk(listing[c], c, Len(outcome[c]) + 1)'
        <4>1. ListingOk(listing'[c], c, Len(outcome'[c]) + 1)
          BY <2>1, <3>1 DEF CallerPages
        <4> QED BY <4>1 DEF ListingOk, PageTokens, Upto, Beyond, Order, Paged, Request
      <3>2. ASSUME call'[c].pc \in Active
            PROVE  DueOk(listing[c], c, Len(outcome[c]) + 1, table, lagging)'
        <4>1. DueOk(listing'[c], c, Len(outcome'[c]) + 1, table', lagging')
          BY <2>1, <3>2 DEF CallerPages
        <4> QED BY <4>1 DEF DueOk, VisibleIn, Request
      <3> QED BY <2>1, <3>1, <3>2 DEF CallerPages
    <2>4. CallerLag(call[c], outcome[c], lagging, effects)'
      BY <2>1 DEF CallerLag
    <2>5. AnswersOk(outcome[c], c, effects)'
      BY <2>1 DEF AnswersOk, Request
    <2> QED BY <2>2, <2>3, <2>4, <2>5 DEF CallerReads
  <1>2. ASSUME NEW x \in executions'
        PROVE  ExecutionReads(x, call[x.caller], outcome[x.caller], listing[x.caller], effects)'
    <2>1. /\ x.id \in Ids \cup {0}
          /\ ExecutionPages(x, listing'[x.caller])
          /\ ExecutionLag(x, call'[x.caller], outcome'[x.caller], effects')
      BY DEF ReadsKept, ExecutionsRead, ExecutionReads
    <2>2. ExecutionPages(x, listing[x.caller])'
      BY <2>1 DEF ExecutionPages, PageTokens, Of, TakenOk, PageOk, PageFull, Upto, Beyond, Order,
                  Request
    <2>3. ExecutionLag(x, call[x.caller], outcome[x.caller], effects)'
      BY <2>1 DEF ExecutionLag, Seeks, Request
    <2> QED BY <2>1, <2>2, <2>3 DEF ExecutionReads
  <1>3. TableOk(table, lagging, effects)' /\ listing' = [c \in Callers |-> listing'[c]]
    BY DEF ReadsKept
  <1>4. Credentials' = Credentials
    BY DEF Credentials, CachedTypes
  <1> QED BY <1>1, <1>2, <1>3, <1>4 DEF ReadsInv, CallersRead, ExecutionsRead

(* The invariant: a caller has every due document up to its token and none  *)
(* from beyond it, a page that an execution took fits on to that, and an    *)
(* absence that reads of a created resource still see is gone before the    *)
(* last attempt.                                                           *)
THEOREM ReadsInvariant == Spec => []ReadsInv
  <1>1. Init => ReadsInv
    BY InitReads
  <1>2. ServiceInv /\ ReadsInv /\ [Next]_vars => ReadsInv'
    <2>1. ASSUME ServiceInv, ReadsInv, Next PROVE ReadsInv'
      BY <2>1, StepReads, NextOk, TypesKept, ReadsNext
    <2>2. ASSUME ReadsInv, UNCHANGED vars PROVE ReadsInv'
      <3>1. ReadsKept /\ UNCHANGED <<deployment, credential, loaded, faults>>
        BY <2>2 DEF vars, clientVars, apiVars, ReadsKept, ReadsInv
      <3> QED BY <2>2, <3>1, ReadsNext DEF ReadsInv
    <2> QED BY <2>1, <2>2
  <1> QED BY <1>1, <1>2, ServiceInvariant, PTL DEF Spec

(* The types of the calls, credentials, executions, documents and their     *)
(* older versions that the service and its clients keep.                   *)
THEOREM ServiceTypes == Spec => []TypeOK
  <1>1. ASSUME ServiceInv, ReadsInv PROVE TypeOK
    <2>1. ASSUME NEW c \in Callers
          PROVE  /\ call[c].pc \in {"idle", "sign", "token", "sent", "sleep", "failed"}
                 /\ call[c].attempt \in 0 .. MaxAttempts
                 /\ call[c].wait \in 0 .. 1
                 /\ Len(outcome[c]) <= Len(deployment.program[c])
      BY <1>1, CallerFacts DEF CallOk, CallerTypes
    <2>2. ASSUME NEW x \in executions
          PROVE  x.caller \in Callers /\ x.id \in Ids \cup {0} /\ x.at \in Awaits \cup {"respond"}
      BY <1>1, ExecutionFacts, ExecutionReadFacts DEF HandlingOk
    <2>3. TableTypeOK /\ credential \in Credentials /\ loaded \in BOOLEAN /\ faults \in 0 .. MaxFaults
      BY <1>1 DEF ReadsInv, TableOk, TableTypes, TableTypeOK
    <2> QED BY <2>1, <2>2, <2>3 DEF TypeOK, ClientTypeOK, ApiTypeOK, Credentials
  <1> QED BY <1>1, ServiceInvariant, ReadsInvariant, PTL

(* HttpClient repeats a request on 404, with a pause, more often than reads *)
(* of the table may miss what was written: a caller that created a resource *)
(* finds it later, unless somebody deleted it.                             *)
THEOREM CreatedIsFound == Spec => []CreatedFound
  <1>1. ASSUME ServiceInv, ReadsInv PROVE CreatedFound
    <2>1. ASSUME NEW c \in Callers, NEW k \in DOMAIN outcome[c],
                 outcome[c][k].status = 404, Request(c, k).kind = "item",
                 NEW j \in 1 .. k - 1, outcome[c][j].status = 201, Request(c, k).id = 0
          PROVE  \E e \in effects : e.id = TargetOf(c, k, outcome[c]) /\ e.doc = NoDoc
      <3>1. outcome[c] \in Seq(Results) /\ AnswersOk(outcome[c], c, effects)
        BY <1>1, CallerFacts
      <3>2. Deleted(effects, Own(outcome[c]))
        BY <2>1, <3>1 DEF AnswersOk
      <3>3. j \in Creates(outcome[c])
        <4>1. DOMAIN outcome[c] = 1 .. Len(outcome[c]) /\ Len(outcome[c]) \in Nat
          BY <3>1
        <4>2. j \in DOMAIN outcome[c]
          BY <2>1, <4>1
        <4> QED BY <2>1, <4>2 DEF Creates
      <3>4. TargetOf(c, k, outcome[c]) = Own(outcome[c])
        BY <2>1, <3>3 DEF TargetOf, Own, Creates
      <3> QED BY <3>2, <3>4 DEF Deleted
    <2> QED BY <2>1 DEF CreatedFound
  <1> QED BY <1>1, ServiceInvariant, ReadsInvariant, PTL

(* DynamoDbTable.query goes on after the last document of the page before,   *)
(* and over Cosmos DB and Firestore there is no second page: none repeats a *)
(* document of an earlier one.                                             *)
THEOREM PagesDoNotRepeat == Spec => []PagesOnce
  <1>1. ServiceInv /\ ReadsInv => PagesOnce
    BY CallerFacts DEF PagesOnce
  <1> QED BY <1>1, ServiceInvariant, ReadsInvariant, PTL

-----------------------------------------------------------------------------
(* A query ends when it has listed what is due.                            *)

Completes ==
  \A c \in Callers :
    /\ Len(outcome'[c]) > Len(outcome[c])
    /\ outcome'[c][Step(c)].status = 200
    => listing[c].due \subseteq listing'[c].got

LEMMA NoneSettles ==
  ASSUME ServiceInv, UNCHANGED outcome
  PROVE  Completes
  <1>1. \A c \in Callers : Len(outcome[c]) \in Nat
    BY DEF ServiceInv, ClientInv
  <1> QED BY <1>1 DEF Completes

LEMMA OneSettles ==
  ASSUME ServiceInv, NEW d \in Callers, NEW result \in Results,
         outcome' = Appended(outcome, d, result),
         result.status = 200 => listing[d].due \subseteq listing'[d].got
  PROVE  Completes
  <1>1. outcome \in [Callers -> Seq(Results)]
    BY DEF ServiceInv, ClientInv
  <1>2. outcome'[d][Step(d)] = result /\ \A c \in Callers \ {d} : outcome'[c] = outcome[c]
    BY <1>1, AppendedIs DEF Step
  <1>3. \A c \in Callers : Len(outcome[c]) \in Nat
    BY <1>1
  <1> QED BY <1>2, <1>3 DEF Completes

LEMMA RejectSettles ==
  ASSUME ServiceInv, NEW d \in Callers, NEW status \in Nat \ {200}, Reject(d, status)
  PROVE  Completes
  <1> DEFINE result == [status |-> status, id |-> 0]
  <1>1. result \in Results /\ result.status = status
    BY DEF Results
  <1>2. outcome' = Appended(outcome, d, result)
    BY DEF Reject, Appended
  <1> HIDE DEF result
  <1> QED BY <1>1, <1>2, OneSettles

LEMMA AnsweredSettles ==
  ASSUME ServiceInv, ReadsInv, NEW c \in Callers, call[c].pc = "sent", NEW a, Fits(c, a),
         Answered(c, a)
  PROVE  Completes
  <1>1. a.status \in Nat /\ a.id \in Nat
    BY DEF Fits, IsAnswer
  <1>2. CASE MayRetry(c, a.status)
    <2>1. UNCHANGED outcome
      BY <1>1, <1>2 DEF Answered, MayRetry
    <2> QED BY <2>1, NoneSettles
  <1>3. CASE ~ MayRetry(c, a.status) /\ a.status >= 400
    <2>1. Reject(c, a.status) /\ a.status \in Nat \ {200}
      BY <1>1, <1>3 DEF Answered
    <2> QED BY <2>1, RejectSettles
  <1>4. CASE a.status < 400
    <2>1. ~ MayRetry(c, a.status)
      BY <1>1, <1>4 DEF MayRetry
    <2>2. CASE a.token # 0
      <3>1. UNCHANGED outcome
        BY <1>1, <1>4, <2>1, <2>2 DEF Answered
      <3> QED BY <3>1, NoneSettles
    <2>3. CASE a.token = 0
      <3> DEFINE result == [status |-> a.status, id |-> a.id]
                 l == ListingRecord(a.token, listing[c].got \cup a.results,
                                    listing[c].twice \cup (a.results \cap listing[c].got),
                                    listing[c].due)
      <3>1. TurnPage(c, a) /\ PageFits(c, a) /\ Resolve(c, a.status, a.id)
        BY <1>1, <1>4, <2>1, <2>3 DEF Answered, Fits
      <3>2. result \in Results
        BY <1>1 DEF Results
      <3>3. outcome' = Appended(outcome, c, result)
        BY <3>1 DEF Resolve, Appended
      <3>4. listing' = [listing EXCEPT ![c] = l]
        BY <3>1, TurnedIs
      <3>5. /\ IsListing(l) /\ l.token = a.token /\ l.got = listing[c].got \cup a.results
            /\ l.due = listing[c].due
        BY ListingRecordIs
      <3> HIDE DEF l, result
      <3>6. l.due \subseteq l.got
        BY <2>3, <3>1, <3>5, PageFollows
      <3>7. listing'[c] = l
        <4>1. listing = [d \in Callers |-> listing[d]]
          BY CallerFacts
        <4> QED BY <3>4, <4>1
      <3> QED BY <3>2, <3>3, <3>5, <3>6, <3>7, OneSettles
    <2> QED BY <2>2, <2>3
  <1> QED BY <1>1, <1>2, <1>3, <1>4

LEMMA StepCompletes ==
  ASSUME ServiceInv, ReadsInv, Next
  PROVE  Completes
  <1>1. ASSUME NEW c \in Callers, CallerStep(c) PROVE Completes
    <2>1. CASE Begin(c)
      <3>1. Reject(c, 0) \/ UNCHANGED outcome
        BY <2>1 DEF Begin, Call
      <3> QED BY <3>1, RejectSettles, NoneSettles
    <2>2. CASE SigningThrows(c)
      <3>1. Reject(c, 0)
        BY <2>2 DEF SigningThrows, SignFails
      <3> QED BY <3>1, RejectSettles
    <2>3. CASE FetchCredential(c) \/ Send(c) \/ Continue(c)
      <3>1. UNCHANGED outcome
        BY <2>3 DEF FetchCredential, Fetch, Send, SendHeld, SendFetched, Continue, Wake
      <3> QED BY <3>1, NoneSettles
    <2> QED BY <1>1, <2>1, <2>2, <2>3 DEF CallerStep
  <1>2. ASSUME NEW x \in executions, Respond(x) PROVE Completes
    <2>1. CASE x.orphan
      <3>1. UNCHANGED outcome
        BY <1>2, <2>1 DEF Respond, clientVars
      <3> QED BY <3>1, NoneSettles
    <2>2. CASE ~ x.orphan
      <3>1. Answered(x.caller, x.answer) /\ Fits(x.caller, x.answer)
        BY <1>2, <2>2, AnswerFits DEF Respond
      <3>2. x.caller \in Callers /\ call[x.caller].pc = "sent"
        BY <2>2, LetGo
      <3> QED BY <3>1, <3>2, AnsweredSettles
    <2> QED BY <2>1, <2>2
  <1>3. ASSUME NEW x \in executions, GatewayFails(x) PROVE Completes
    <2>1. Answered(x.caller, Answer(503)) /\ x.caller \in Callers /\ call[x.caller].pc = "sent"
      BY <1>3, LetGo DEF GatewayFails
    <2>2. IsAnswer(Answer(503)) /\ Answer(503).status = 503
      BY PlainAnswer
    <2>3. Fits(x.caller, Answer(503))
      BY <2>2 DEF Fits
    <2> QED BY <2>1, <2>3, AnsweredSettles
  <1>4. ASSUME NEW x \in executions, ConnectionBreaks(x) PROVE Completes
    <2>1. Reject(x.caller, 0) /\ x.caller \in Callers
      BY <1>4, LetGo DEF ConnectionBreaks, Disconnect
    <2> QED BY <2>1, RejectSettles
  <1>5. ASSUME NEW c \in Callers, FetchFails(c) PROVE Completes
    <2>1. Reject(c, 0) \/ UNCHANGED outcome
      BY <1>5 DEF FetchFails, ProviderFails
    <2> QED BY <2>1, RejectSettles, NoneSettles
  <1>6. ASSUME \/ Tick \/ Done
               \/ \E x \in executions : Execute(x) \/ Fails(x)
        PROVE  Completes
    <2>1. UNCHANGED outcome
      BY <1>6 DEF Tick, ClientAge, Done, vars, Execute, Fails, clientVars
    <2> QED BY <2>1, NoneSettles
  <1> QED BY <1>1, <1>2, <1>3, <1>4, <1>5, <1>6
      DEF Next, Ongoing, ServiceStep, Failure

(* A listing that HttpClient pages through and that ends with success has    *)
(* every document that matched it throughout, however its attempts are      *)
(* repeated; one that would take a second page of Firestore does not end so. *)
THEOREM PagesAreComplete == Spec => PagesComplete
  <1>1. ServiceInv /\ ReadsInv /\ [Next]_vars => [Completes]_vars
    BY StepCompletes
  <1> QED BY <1>1, ServiceInvariant, ReadsInvariant, PTL DEF Spec, PagesComplete, Completes

-----------------------------------------------------------------------------
(* Filters.  What an expression means is a recursion over how deep it       *)
(* nests: each such recursion is a function of the depth, and what it is at *)
(* a depth follows by induction over the depth.                            *)

Nested(S) == [logicalOperator : {"&&", "||"}, children : Seq(S)]

LEMMA CriteriaAre ==
  /\ \A x \in FilterCriteria : ~ isFilterCriteriaGroup(x)
  /\ \A S : \A x \in Nested(S) :
       /\ isFilterCriteriaGroup(x) /\ x.logicalOperator \in {"&&", "||"}
       /\ x.children \in Seq(S)
       /\ \A k \in DOMAIN x.children : x.children[k] \in S
  BY DEF FilterCriteria, Nested, isFilterCriteriaGroup

LEMMA ExpressionsAre ==
  /\ Depth \in Nat \ {0}
  /\ Expressions[0] = FilterCriteria
  /\ \A n \in 1 .. Depth : Expressions[n] = FilterCriteria \cup Nested(Expressions[n - 1])
  <1> DEFINE Is(k, f) == f = [n \in 0 .. k |-> FilterCriteria \cup IF n = 0 THEN {}
                                                                 ELSE Nested(f[n - 1])]
             T == {k \in Nat : \E f : Is(k, f)}
  <1>1. 0 \in T
    <2>1. Is(0, [n \in 0 .. 0 |-> FilterCriteria])
      OBVIOUS
    <2> QED BY <2>1
  <1>2. ASSUME NEW k \in Nat, NEW f, Is(k, f) PROVE \E g : Is(k + 1, g)
    <2> DEFINE g == [n \in 0 .. k + 1 |->
                       IF n = k + 1 THEN FilterCriteria \cup Nested(f[k]) ELSE f[n]]
    <2>1. ASSUME NEW n \in 0 .. k + 1
          PROVE  g[n] = FilterCriteria \cup IF n = 0 THEN {} ELSE Nested(g[n - 1])
      <3>1. CASE n = k + 1
        <4>1. k \in 0 .. k + 1 /\ k # k + 1 /\ n - 1 = k /\ n # 0
          BY <3>1
        <4> QED BY <3>1, <4>1
      <3>2. CASE n # k + 1
        <4>1. n \in 0 .. k /\ (n # 0 => n - 1 \in 0 .. k + 1 /\ n - 1 # k + 1)
          BY <3>2
        <4>2. f[n] = FilterCriteria \cup IF n = 0 THEN {} ELSE Nested(f[n - 1])
          BY <1>2, <4>1
        <4> QED BY <3>2, <4>1, <4>2
      <3> QED BY <3>1, <3>2
    <2>2. g = [n \in 0 .. k + 1 |-> g[n]]
      OBVIOUS
    <2> HIDE DEF g
    <2>3. Is(k + 1, g)
      BY <2>1, <2>2
    <2> QED BY <2>3
  <1>3. \A k \in Nat : k \in T => k + 1 \in T
    <2> HIDE DEF Is
    <2> QED BY <1>2
  <1> HIDE DEF T
  <1>4. Depth \in T
    BY <1>1, <1>3, Induction, DepthAssumption
  <1>5. \E f : Is(Depth, f)
    BY <1>4 DEF T
  <1>6. Is(Depth, Expressions)
    <2> DEFINE chosen == CHOOSE f : Is(Depth, f)
    <2>1. Expressions = chosen
      BY DEF Expressions, Nested
    <2> HIDE DEF Is
    <2>2. Is(Depth, chosen)
      BY <1>5
    <2> QED BY <2>1, <2>2
  <1>7. ASSUME NEW n \in 0 .. Depth
        PROVE  Expressions[n] = FilterCriteria \cup IF n = 0 THEN {}
                                                   ELSE Nested(Expressions[n - 1])
    BY <1>6, Zenon
  <1> HIDE DEF Is
  <1>8. 0 \in 0 .. Depth /\ \A n \in 1 .. Depth : n \in 0 .. Depth /\ n # 0
    BY DepthAssumption
  <1>9. Expressions[0] = FilterCriteria
    BY <1>7, <1>8
  <1>10. ASSUME NEW n \in 1 .. Depth
         PROVE  Expressions[n] = FilterCriteria \cup Nested(Expressions[n - 1])
    <2>1. n \in 0 .. Depth /\ n # 0
      BY <1>8
    <2> QED BY <1>7, <2>1, Zenon
  <1> QED BY <1>9, <1>10, DepthAssumption

LEMMA LowestArePlain == \A x \in Expressions[0] : ~ isFilterCriteriaGroup(x)
  BY CriteriaAre, ExpressionsAre

(* A level of what the recursion of Satisfies, of Value and of Nodes makes, *)
(* from the level below it.                                                *)
HoldsLevel(doc, n, below) ==
  [x \in Expressions[n] |->
     IF ~isFilterCriteriaGroup(x) THEN Meets(x, doc)
     ELSE IF x.logicalOperator = "&&"
     THEN \A k \in DOMAIN x.children : below[x.children[k]]
     ELSE x.children = <<>> \/ \E k \in DOMAIN x.children : below[x.children[k]]]

ValueLevel(doc, n, below) ==
  [x \in Expressions[n] |->
     IF ~isFilterCriteriaGroup(x) THEN Meets(x, doc)
     ELSE IF Connective(x) = "or"
     THEN \E k \in DOMAIN x.children : below[x.children[k]]
     ELSE \A k \in DOMAIN x.children : below[x.children[k]]]

NodesLevel(n, below) ==
  [x \in Expressions[n] |->
     {x} \cup IF ~isFilterCriteriaGroup(x) THEN {}
             ELSE UNION {below[x.children[k]] : k \in DOMAIN x.children}]

LEMMA SatisfiesIs ==
  ASSUME NEW doc
  PROVE  \E f : /\ \A n \in 0 .. Depth : f[n] = HoldsLevel(doc, n, f[n - 1])
               /\ \A e : Satisfies(doc, e) = f[Depth][e]
  <1> DEFINE Is(k, f) == f = [n \in 0 .. k |-> HoldsLevel(doc, n, f[n - 1])]
             T == {k \in Nat : \E f : Is(k, f)}
  <1>0. \A p, q : HoldsLevel(doc, 0, p) = HoldsLevel(doc, 0, q)
    BY LowestArePlain DEF HoldsLevel
  <1>1. 0 \in T
    <2> DEFINE f == [n \in 0 .. 0 |-> HoldsLevel(doc, 0, 0)]
    <2>1. f = [n \in 0 .. 0 |-> HoldsLevel(doc, n, f[n - 1])]
      <3> HIDE DEF HoldsLevel
      <3>1. \A n \in 0 .. 0 : n = 0
        OBVIOUS
      <3>2. \A n \in 0 .. 0 : HoldsLevel(doc, 0, 0) = HoldsLevel(doc, n, f[n - 1])
        BY <1>0, <3>1, Zenon
      <3> QED BY <3>2
    <2> QED BY <2>1
  <1>2. ASSUME NEW k \in Nat, NEW f, Is(k, f) PROVE \E g : Is(k + 1, g)
    <2> DEFINE g == [n \in 0 .. k + 1 |->
                       IF n = k + 1 THEN HoldsLevel(doc, k + 1, f[k]) ELSE f[n]]
    <2>1. ASSUME NEW n \in 0 .. k + 1
          PROVE  g[n] = HoldsLevel(doc, n, g[n - 1])
      <3>1. CASE n = k + 1
        <4>1. k \in 0 .. k + 1 /\ k # k + 1 /\ n - 1 = k
          BY <3>1
        <4>2. g[k] = f[k] /\ g[n] = HoldsLevel(doc, k + 1, f[k])
          BY <3>1, <4>1
        <4> HIDE DEF g
        <4> QED BY <3>1, <4>1, <4>2
      <3>2. CASE n # k + 1
        <4>1. n \in 0 .. k /\ (n # 0 => n - 1 \in 0 .. k + 1 /\ n - 1 # k + 1)
          BY <3>2
        <4>2. f[n] = HoldsLevel(doc, n, f[n - 1])
          BY <1>2, <4>1, Zenon
        <4>3. g[n] = f[n] /\ (n # 0 => g[n - 1] = f[n - 1])
          BY <3>2, <4>1
        <4> HIDE DEF g
        <4> QED BY <1>0, <4>2, <4>3
      <3> QED BY <3>1, <3>2
    <2>2. g = [n \in 0 .. k + 1 |-> g[n]]
      OBVIOUS
    <2> HIDE DEF g
    <2>3. Is(k + 1, g)
      BY <2>1, <2>2
    <2> QED BY <2>3
  <1>3. \A k \in Nat : k \in T => k + 1 \in T
    <2> HIDE DEF Is
    <2> QED BY <1>2
  <1> HIDE DEF T
  <1>4. Depth \in T
    BY <1>1, <1>3, Induction, DepthAssumption
  <1>5. \E f : Is(Depth, f)
    BY <1>4 DEF T
  <1> DEFINE chosen == CHOOSE f : Is(Depth, f)
  <1>6. Is(Depth, chosen)
    <2> HIDE DEF Is
    <2> QED BY <1>5
  <1>7. \A e : Satisfies(doc, e) = chosen[Depth][e]
    BY DEF Satisfies, HoldsLevel
  <1> HIDE DEF chosen
  <1>8. \A n \in 0 .. Depth : chosen[n] = HoldsLevel(doc, n, chosen[n - 1])
    BY <1>6, Zenon
  <1> QED BY <1>7, <1>8

LEMMA ValueIs ==
  ASSUME NEW doc
  PROVE  \E f : /\ \A n \in 0 .. Depth : f[n] = ValueLevel(doc, n, f[n - 1])
               /\ \A e : Value(doc, e) = f[Depth][e]
  <1> DEFINE Is(k, f) == f = [n \in 0 .. k |-> ValueLevel(doc, n, f[n - 1])]
             T == {k \in Nat : \E f : Is(k, f)}
  <1>0. \A p, q : ValueLevel(doc, 0, p) = ValueLevel(doc, 0, q)
    BY LowestArePlain DEF ValueLevel
  <1>1. 0 \in T
    <2> DEFINE f == [n \in 0 .. 0 |-> ValueLevel(doc, 0, 0)]
    <2>1. f = [n \in 0 .. 0 |-> ValueLevel(doc, n, f[n - 1])]
      <3> HIDE DEF ValueLevel
      <3>1. \A n \in 0 .. 0 : n = 0
        OBVIOUS
      <3>2. \A n \in 0 .. 0 : ValueLevel(doc, 0, 0) = ValueLevel(doc, n, f[n - 1])
        BY <1>0, <3>1, Zenon
      <3> QED BY <3>2
    <2> QED BY <2>1
  <1>2. ASSUME NEW k \in Nat, NEW f, Is(k, f) PROVE \E g : Is(k + 1, g)
    <2> DEFINE g == [n \in 0 .. k + 1 |->
                       IF n = k + 1 THEN ValueLevel(doc, k + 1, f[k]) ELSE f[n]]
    <2>1. ASSUME NEW n \in 0 .. k + 1
          PROVE  g[n] = ValueLevel(doc, n, g[n - 1])
      <3>1. CASE n = k + 1
        <4>1. k \in 0 .. k + 1 /\ k # k + 1 /\ n - 1 = k
          BY <3>1
        <4>2. g[k] = f[k] /\ g[n] = ValueLevel(doc, k + 1, f[k])
          BY <3>1, <4>1
        <4> HIDE DEF g
        <4> QED BY <3>1, <4>1, <4>2
      <3>2. CASE n # k + 1
        <4>1. n \in 0 .. k /\ (n # 0 => n - 1 \in 0 .. k + 1 /\ n - 1 # k + 1)
          BY <3>2
        <4>2. f[n] = ValueLevel(doc, n, f[n - 1])
          BY <1>2, <4>1, Zenon
        <4>3. g[n] = f[n] /\ (n # 0 => g[n - 1] = f[n - 1])
          BY <3>2, <4>1
        <4> HIDE DEF g
        <4> QED BY <1>0, <4>2, <4>3
      <3> QED BY <3>1, <3>2
    <2>2. g = [n \in 0 .. k + 1 |-> g[n]]
      OBVIOUS
    <2> HIDE DEF g
    <2>3. Is(k + 1, g)
      BY <2>1, <2>2
    <2> QED BY <2>3
  <1>3. \A k \in Nat : k \in T => k + 1 \in T
    <2> HIDE DEF Is
    <2> QED BY <1>2
  <1> HIDE DEF T
  <1>4. Depth \in T
    BY <1>1, <1>3, Induction, DepthAssumption
  <1>5. \E f : Is(Depth, f)
    BY <1>4 DEF T
  <1> DEFINE chosen == CHOOSE f : Is(Depth, f)
  <1>6. Is(Depth, chosen)
    <2> HIDE DEF Is
    <2> QED BY <1>5
  <1>7. \A e : Value(doc, e) = chosen[Depth][e]
    BY DEF Value, ValueLevel
  <1> HIDE DEF chosen
  <1>8. \A n \in 0 .. Depth : chosen[n] = ValueLevel(doc, n, chosen[n - 1])
    BY <1>6, Zenon
  <1> QED BY <1>7, <1>8

LEMMA NodesAre ==
  \E f : /\ \A n \in 0 .. Depth : f[n] = NodesLevel(n, f[n - 1])
        /\ \A e : Nodes(e) = f[Depth][e]
  <1> DEFINE Is(k, f) == f = [n \in 0 .. k |-> NodesLevel(n, f[n - 1])]
             T == {k \in Nat : \E f : Is(k, f)}
  <1>0. \A p, q : NodesLevel(0, p) = NodesLevel(0, q)
    BY LowestArePlain DEF NodesLevel
  <1>1. 0 \in T
    <2> DEFINE f == [n \in 0 .. 0 |-> NodesLevel(0, 0)]
    <2>1. f = [n \in 0 .. 0 |-> NodesLevel(n, f[n - 1])]
      <3> HIDE DEF NodesLevel
      <3>1. \A n \in 0 .. 0 : n = 0
        OBVIOUS
      <3>2. \A n \in 0 .. 0 : NodesLevel(0, 0) = NodesLevel(n, f[n - 1])
        BY <1>0, <3>1, Zenon
      <3> QED BY <3>2
    <2> QED BY <2>1
  <1>2. ASSUME NEW k \in Nat, NEW f, Is(k, f) PROVE \E g : Is(k + 1, g)
    <2> DEFINE g == [n \in 0 .. k + 1 |->
                       IF n = k + 1 THEN NodesLevel(k + 1, f[k]) ELSE f[n]]
    <2>1. ASSUME NEW n \in 0 .. k + 1
          PROVE  g[n] = NodesLevel(n, g[n - 1])
      <3>1. CASE n = k + 1
        <4>1. k \in 0 .. k + 1 /\ k # k + 1 /\ n - 1 = k
          BY <3>1
        <4>2. g[k] = f[k] /\ g[n] = NodesLevel(k + 1, f[k])
          BY <3>1, <4>1
        <4> HIDE DEF g
        <4> QED BY <3>1, <4>1, <4>2
      <3>2. CASE n # k + 1
        <4>1. n \in 0 .. k /\ (n # 0 => n - 1 \in 0 .. k + 1 /\ n - 1 # k + 1)
          BY <3>2
        <4>2. f[n] = NodesLevel(n, f[n - 1])
          BY <1>2, <4>1, Zenon
        <4>3. g[n] = f[n] /\ (n # 0 => g[n - 1] = f[n - 1])
          BY <3>2, <4>1
        <4> HIDE DEF g
        <4> QED BY <1>0, <4>2, <4>3
      <3> QED BY <3>1, <3>2
    <2>2. g = [n \in 0 .. k + 1 |-> g[n]]
      OBVIOUS
    <2> HIDE DEF g
    <2>3. Is(k + 1, g)
      BY <2>1, <2>2
    <2> QED BY <2>3
  <1>3. \A k \in Nat : k \in T => k + 1 \in T
    <2> HIDE DEF Is
    <2> QED BY <1>2
  <1> HIDE DEF T
  <1>4. Depth \in T
    BY <1>1, <1>3, Induction, DepthAssumption
  <1>5. \E f : Is(Depth, f)
    BY <1>4 DEF T
  <1> DEFINE chosen == CHOOSE f : Is(Depth, f)
  <1>6. Is(Depth, chosen)
    <2> HIDE DEF Is
    <2> QED BY <1>5
  <1>7. \A e : Nodes(e) = chosen[Depth][e]
    BY DEF Nodes, NodesLevel
  <1> HIDE DEF chosen
  <1>8. \A n \in 0 .. Depth : chosen[n] = NodesLevel(n, chosen[n - 1])
    BY <1>6, Zenon
  <1> QED BY <1>7, <1>8

(* What an expression of a level is: a criterion, or a group of expressions *)
(* of the level below.                                                     *)
LEMMA Shapes ==
  ASSUME NEW n \in 0 .. Depth, NEW x \in Expressions[n], isFilterCriteriaGroup(x)
  PROVE  /\ n \in 1 .. Depth /\ n - 1 \in 0 .. Depth
         /\ x.logicalOperator \in {"&&", "||"}
         /\ \A k \in DOMAIN x.children : x.children[k] \in Expressions[n - 1]
  <1>1. n # 0
    BY LowestArePlain
  <1>2. n \in 1 .. Depth /\ n - 1 \in 0 .. Depth
    BY <1>1, DepthAssumption
  <1>3. x \in Nested(Expressions[n - 1])
    BY <1>2, CriteriaAre, ExpressionsAre
  <1> QED BY <1>2, <1>3, CriteriaAre

(* The text of an expression that parses means what the expression means.   *)
LEMMA TextIsExact ==
  ASSUME NEW doc, NEW operators, NEW e \in FilterExpressions, Parses(operators, e)
  PROVE  Value(doc, e) <=> Satisfies(doc, e)
  <1>1. PICK f : /\ \A n \in 0 .. Depth : f[n] = HoldsLevel(doc, n, f[n - 1])
                 /\ \A x : Satisfies(doc, x) = f[Depth][x]
    BY SatisfiesIs
  <1>2. PICK g : /\ \A n \in 0 .. Depth : g[n] = ValueLevel(doc, n, g[n - 1])
                 /\ \A x : Value(doc, x) = g[Depth][x]
    BY ValueIs
  <1>3. PICK h : /\ \A n \in 0 .. Depth : h[n] = NodesLevel(n, h[n - 1])
                 /\ \A x : Nodes(x) = h[Depth][x]
    BY NodesAre
  <1> DEFINE Full(n, x) == \A y \in h[n][x] : isFilterCriteriaGroup(y) => y.children # <<>>
             Same(n) == \A x \in Expressions[n] : Full(n, x) => (g[n][x] <=> f[n][x])
             T == {n \in Nat : n <= Depth => Same(n)}
  <1>4. ASSUME NEW n \in 0 .. Depth, n # 0 => Same(n - 1) PROVE Same(n)
    <2> SUFFICES ASSUME NEW x \in Expressions[n], Full(n, x) PROVE g[n][x] <=> f[n][x]
      OBVIOUS
    <2>1. /\ f[n] = HoldsLevel(doc, n, f[n - 1])
          /\ g[n] = ValueLevel(doc, n, g[n - 1])
          /\ h[n] = NodesLevel(n, h[n - 1])
      BY <1>1, <1>2, <1>3
    <2>2. CASE ~ isFilterCriteriaGroup(x)
      <3>1. f[n][x] = Meets(x, doc) /\ g[n][x] = Meets(x, doc)
        BY <2>1, <2>2 DEF HoldsLevel, ValueLevel
      <3> QED BY <3>1
    <2>3. CASE isFilterCriteriaGroup(x)
      <3>1. /\ n # 0
            /\ x.logicalOperator \in {"&&", "||"}
            /\ \A k \in DOMAIN x.children : x.children[k] \in Expressions[n - 1]
        BY <2>3, Shapes
      <3>2. /\ x \in h[n][x]
            /\ \A k \in DOMAIN x.children : h[n - 1][x.children[k]] \subseteq h[n][x]
        BY <2>1, <2>3 DEF NodesLevel
      <3>3. x.children # <<>>
        BY <2>3, <3>2
      <3>4. \A k \in DOMAIN x.children : g[n - 1][x.children[k]] <=> f[n - 1][x.children[k]]
        BY <1>4, <3>1, <3>2
      <3>5. CASE x.logicalOperator = "&&"
        <4>1. f[n][x] <=> \A k \in DOMAIN x.children : f[n - 1][x.children[k]]
          BY <2>1, <2>3, <3>5 DEF HoldsLevel
        <4>2. g[n][x] <=> \A k \in DOMAIN x.children : g[n - 1][x.children[k]]
          BY <2>1, <2>3, <3>5 DEF ValueLevel, Connective
        <4> QED BY <3>4, <4>1, <4>2
      <3>6. CASE x.logicalOperator = "||"
        <4>1. f[n][x] <=> \E k \in DOMAIN x.children : f[n - 1][x.children[k]]
          BY <2>1, <2>3, <3>3, <3>6 DEF HoldsLevel
        <4>2. g[n][x] <=> \E k \in DOMAIN x.children : g[n - 1][x.children[k]]
          BY <2>1, <2>3, <3>6 DEF ValueLevel, Connective
        <4> QED BY <3>4, <4>1, <4>2
      <3> QED BY <3>1, <3>5, <3>6
    <2> QED BY <2>2, <2>3
  <1>5. Same(Depth)
    <2> HIDE DEF Same
    <2>1. 0 \in T
      BY <1>4, DepthAssumption
    <2>2. ASSUME NEW n \in Nat, n \in T PROVE n + 1 \in T
      <3>1. SUFFICES ASSUME n + 1 <= Depth PROVE Same(n + 1)
        OBVIOUS
      <3>2. n + 1 \in 0 .. Depth /\ (n + 1) - 1 = n /\ n <= Depth
        BY <3>1, DepthAssumption
      <3> QED BY <1>4, <2>2, <3>2
    <2> HIDE DEF T
    <2>3. Depth \in T
      BY <2>1, <2>2, Induction, DepthAssumption
    <2> QED BY <2>3, DepthAssumption DEF T
  <1>6. Full(Depth, e)
    BY <1>3 DEF Parses
  <1> QED BY <1>1, <1>2, <1>5, <1>6 DEF FilterExpressions

(* The where clauses for an expression without what Firestore lacks are met *)
(* together by the documents that satisfy the expression.                  *)
LEMMA WheresAreExact ==
  ASSUME NEW doc, NEW e \in FilterExpressions, \A x \in Nodes(e) : ~ Unsupported(x)
  PROVE  Satisfies(doc, e)
           <=> \A x \in Nodes(e) : ~ isFilterCriteriaGroup(x) => Meets(x, doc)
  <1>1. PICK f : /\ \A n \in 0 .. Depth : f[n] = HoldsLevel(doc, n, f[n - 1])
                 /\ \A x : Satisfies(doc, x) = f[Depth][x]
    BY SatisfiesIs
  <1>2. PICK h : /\ \A n \in 0 .. Depth : h[n] = NodesLevel(n, h[n - 1])
                 /\ \A x : Nodes(x) = h[Depth][x]
    BY NodesAre
  <1> DEFINE AllMet(n, x) == \A y \in h[n][x] : ~ isFilterCriteriaGroup(y) => Meets(y, doc)
             Supported(n, x) == \A y \in h[n][x] : ~ Unsupported(y)
             Same(n) == \A x \in Expressions[n] : Supported(n, x) => (f[n][x] <=> AllMet(n, x))
             T == {n \in Nat : n <= Depth => Same(n)}
  <1>3. ASSUME NEW n \in 0 .. Depth, n # 0 => Same(n - 1) PROVE Same(n)
    <2> SUFFICES ASSUME NEW x \in Expressions[n], Supported(n, x)
                 PROVE  f[n][x] <=> AllMet(n, x)
      OBVIOUS
    <2>1. f[n] = HoldsLevel(doc, n, f[n - 1]) /\ h[n] = NodesLevel(n, h[n - 1])
      BY <1>1, <1>2
    <2>2. CASE ~ isFilterCriteriaGroup(x)
      <3>1. f[n][x] = Meets(x, doc)
        BY <2>1, <2>2 DEF HoldsLevel
      <3>2. h[n][x] = {x}
        BY <2>1, <2>2 DEF NodesLevel
      <3> QED BY <2>2, <3>1, <3>2
    <2>3. CASE isFilterCriteriaGroup(x)
      <3>1. /\ n # 0
            /\ x.logicalOperator \in {"&&", "||"}
            /\ \A k \in DOMAIN x.children : x.children[k] \in Expressions[n - 1]
        BY <2>3, Shapes
      <3>2. h[n][x] = {x} \cup UNION {h[n - 1][x.children[k]] : k \in DOMAIN x.children}
        BY <2>1, <2>3 DEF NodesLevel
      <3>3. \A k \in DOMAIN x.children :
              f[n - 1][x.children[k]] <=> AllMet(n - 1, x.children[k])
        BY <1>3, <3>1, <3>2
      <3>4. x.logicalOperator = "&&"
        BY <2>3, <3>1, <3>2 DEF Unsupported
      <3>5. f[n][x] <=> \A k \in DOMAIN x.children : f[n - 1][x.children[k]]
        BY <2>1, <2>3, <3>4 DEF HoldsLevel
      <3>6. AllMet(n, x) <=> \A k \in DOMAIN x.children : AllMet(n - 1, x.children[k])
        BY <2>3, <3>2
      <3> HIDE DEF AllMet
      <3> QED BY <3>3, <3>5, <3>6
    <2> QED BY <2>2, <2>3
  <1>4. Same(Depth)
    <2> HIDE DEF Same
    <2>1. 0 \in T
      BY <1>3, DepthAssumption
    <2>2. ASSUME NEW n \in Nat, n \in T PROVE n + 1 \in T
      <3>1. SUFFICES ASSUME n + 1 <= Depth PROVE Same(n + 1)
        OBVIOUS
      <3>2. n + 1 \in 0 .. Depth /\ (n + 1) - 1 = n /\ n <= Depth
        BY <3>1, DepthAssumption
      <3> QED BY <1>3, <2>2, <3>2
    <2> HIDE DEF T
    <2>3. Depth \in T
      BY <2>1, <2>2, Induction, DepthAssumption
    <2> QED BY <2>3, DepthAssumption DEF T
  <1>5. Supported(Depth, e)
    BY <1>2
  <1> QED BY <1>1, <1>2, <1>4, <1>5 DEF FilterExpressions

LEMMA EmptyIsSatisfied ==
  ASSUME NEW doc, NEW e \in FilterExpressions, ~ hasFilterCriteria(e)
  PROVE  Satisfies(doc, e)
  <1>1. PICK f : /\ \A n \in 0 .. Depth : f[n] = HoldsLevel(doc, n, f[n - 1])
                 /\ \A x : Satisfies(doc, x) = f[Depth][x]
    BY SatisfiesIs
  <1>2. f[Depth] = HoldsLevel(doc, Depth, f[Depth - 1])
    BY <1>1, DepthAssumption
  <1>3. isFilterCriteriaGroup(e) /\ e.children = <<>>
    BY DEF hasFilterCriteria
  <1>4. DOMAIN e.children = {}
    BY <1>3
  <1>5. HoldsLevel(doc, Depth, f[Depth - 1])[e]
    <2>1. (\A k \in DOMAIN e.children : f[Depth - 1][e.children[k]])
      BY <1>4
    <2> QED BY <1>3, <2>1 DEF HoldsLevel, FilterExpressions
  <1> QED BY <1>1, <1>2, <1>5

LEMMA TextsAgree ==
  ASSUME NEW docs, NEW operators, NEW e \in FilterExpressions
  PROVE  Agrees(docs, e, TextFiltered(operators, docs, e))
  <1>1. CASE ~ hasFilterCriteria(e)
    <2>1. \A doc \in docs : Satisfies(doc, e)
      BY <1>1, EmptyIsSatisfied
    <2>2. {doc \in docs : Satisfies(doc, e)} = docs
      BY <2>1, Zenon
    <2> QED BY <1>1, <2>2 DEF Agrees, TextFiltered, Unfiltered
  <1>2. CASE hasFilterCriteria(e) /\ ~ Parses(operators, e)
    BY <1>2 DEF Agrees, TextFiltered, Error
  <1>3. CASE hasFilterCriteria(e) /\ Parses(operators, e)
    <2>1. \A doc \in docs : Value(doc, e) <=> Satisfies(doc, e)
      BY <1>3, TextIsExact
    <2>2. {doc \in docs : Value(doc, e)} = {doc \in docs : Satisfies(doc, e)}
      BY <2>1, Zenon
    <2> QED BY <1>3, <2>2 DEF Agrees, TextFiltered
  <1> QED BY <1>1, <1>2, <1>3

LEMMA ClausesAgree ==
  ASSUME NEW docs, NEW e \in FilterExpressions
  PROVE  Agrees(docs, e, FirestoreResults(docs, e))
  <1>1. CASE \E x \in Nodes(e) : Unsupported(x)
    BY <1>1 DEF Agrees, FirestoreResults, Error
  <1>2. CASE \A x \in Nodes(e) : ~ Unsupported(x)
    <2>1. \A doc \in docs : Satisfies(doc, e)
             <=> \A x \in Nodes(e) : ~ isFilterCriteriaGroup(x) => Meets(x, doc)
      BY <1>2, WheresAreExact
    <2>2. Wheres(docs, e) = {doc \in docs : Satisfies(doc, e)}
      BY <2>1, Zenon DEF Wheres
    <2> QED BY <1>2, <2>2 DEF Agrees, FirestoreResults
  <1> QED BY <1>1, <1>2

(* buildFilterExpression, buildQueryDefinition and buildFirestoreQuery: of   *)
(* any documents a database answers a query with those that satisfy its     *)
(* filter, or refuses it, however deep the filter nests.                   *)
THEOREM FiltersAreAnswered ==
  ASSUME NEW docs, NEW e \in FilterExpressions PROVE AllAgree(docs, e)
  BY TextsAgree, ClausesAgree DEF AllAgree, DynamoDbResults, CosmosDbResults

(* What the query route builds from a query string is an expression of      *)
(* equalities, all of which have to hold.                                  *)
LEMMA PairsAreEqualities ==
  ASSUME NEW names \in Seq(STRING), NEW values,
         \A k \in DOMAIN names : values[names[k]] \in Int,
         NEW e, e = getFilterExpressionFromKeyValuePairs(names, values)
  PROVE  /\ e \in FilterExpressions
         /\ isFilterCriteriaGroup(e) /\ e.logicalOperator = "&&"
         /\ \A x \in Nodes(e) : x = e \/ (~ isFilterCriteriaGroup(x) /\ x.operator = "=")
  <1> DEFINE criterion(k) == [propertyName |-> names[k], operator |-> "=",
                              propertyValue |-> values[names[k]]]
  <1>1. /\ isFilterCriteriaGroup(e) /\ e.logicalOperator = "&&"
        /\ e.children = [k \in DOMAIN names |-> criterion(k)]
        /\ e = [logicalOperator |-> "&&", children |-> e.children]
    BY DEF getFilterExpressionFromKeyValuePairs, isFilterCriteriaGroup
  <1>2. \A k \in DOMAIN names : criterion(k) \in FilterCriteria /\ criterion(k).operator = "="
    BY DEF FilterCriteria
  <1> HIDE DEF criterion
  <1>3. Depth \in 1 .. Depth /\ Depth \in 0 .. Depth /\ Depth - 1 \in 0 .. Depth
    BY DepthAssumption
  <1>4. FilterCriteria \subseteq Expressions[Depth - 1]
    <2>1. Depth - 1 = 0 \/ Depth - 1 \in 1 .. Depth
      BY DepthAssumption
    <2> QED BY <2>1, ExpressionsAre
  <1>5. e.children \in Seq(Expressions[Depth - 1])
    <2>1. Len(names) \in Nat /\ DOMAIN names = 1 .. Len(names)
      OBVIOUS
    <2>2. \A k \in 1 .. Len(names) : criterion(k) \in Expressions[Depth - 1]
      BY <1>2, <1>4, <2>1
    <2> DEFINE S == Expressions[Depth - 1]
    <2>3. \A k \in 1 .. Len(names) : criterion(k) \in S
      BY <2>2
    <2> HIDE DEF S
    <2>4. [k \in 1 .. Len(names) |-> criterion(k)] \in Seq(S)
      BY <2>1, <2>3
    <2> QED BY <1>1, <2>1, <2>4 DEF S
  <1>6. e \in Nested(Expressions[Depth - 1])
    BY <1>1, <1>5 DEF Nested
  <1>7. e \in FilterExpressions
    BY <1>3, <1>6, ExpressionsAre DEF FilterExpressions
  <1>8. PICK h : /\ \A n \in 0 .. Depth : h[n] = NodesLevel(n, h[n - 1])
                 /\ \A x : Nodes(x) = h[Depth][x]
    BY NodesAre
  <1>9. \A c \in FilterCriteria : h[Depth - 1][c] = {c}
    <2>1. h[Depth - 1] = NodesLevel(Depth - 1, h[(Depth - 1) - 1])
      BY <1>3, <1>8
    <2> QED BY <1>4, <2>1, CriteriaAre DEF NodesLevel
  <1>10. Nodes(e) = {e} \cup UNION {h[Depth - 1][e.children[k]] : k \in DOMAIN e.children}
    <2>1. h[Depth] = NodesLevel(Depth, h[Depth - 1])
      BY <1>3, <1>8
    <2>2. Nodes(e) = NodesLevel(Depth, h[Depth - 1])[e] /\ e \in Expressions[Depth]
      BY <1>7, <1>8, <2>1 DEF FilterExpressions
    <2> QED BY <1>1, <2>2, Zenon DEF NodesLevel
  <1>11. \A k \in DOMAIN e.children : h[Depth - 1][e.children[k]] = {criterion(k)}
    BY <1>1, <1>2, <1>9
  <1>12. ASSUME NEW x \in Nodes(e), x # e
         PROVE  ~ isFilterCriteriaGroup(x) /\ x.operator = "="
    <2>1. PICK k \in DOMAIN e.children : x \in h[Depth - 1][e.children[k]]
      BY <1>10, <1>12
    <2>2. x = criterion(k) /\ k \in DOMAIN names
      BY <1>1, <1>11, <2>1
    <2> QED BY <1>2, <2>2, CriteriaAre
  <1>13. \A x \in Nodes(e) : x = e \/ (~ isFilterCriteriaGroup(x) /\ x.operator = "=")
    BY <1>12, Zenon
  <1> QED BY <1>1, <1>7, <1>13

LEMMA PairsNeverFail ==
  ASSUME NEW docs, NEW names \in Seq(STRING), NEW values,
         \A k \in DOMAIN names : values[names[k]] \in Int,
         NEW e, e = getFilterExpressionFromKeyValuePairs(names, values)
  PROVE  NoneFails(docs, e)
  <1>1. /\ isFilterCriteriaGroup(e) /\ e.logicalOperator = "&&"
        /\ \A x \in Nodes(e) : x = e \/ (~ isFilterCriteriaGroup(x) /\ x.operator = "=")
    BY PairsAreEqualities
  <1>2. ASSUME NEW operators, "=" \in operators
        PROVE  ~ TextFiltered(operators, docs, e).error
    <2>1. hasFilterCriteria(e) => Parses(operators, e)
      BY <1>1, <1>2 DEF hasFilterCriteria, Parses
    <2> QED BY <2>1 DEF TextFiltered, Unfiltered
  <1>3. \A x \in Nodes(e) : ~ Unsupported(x)
    BY <1>1 DEF Unsupported
  <1> QED BY <1>2, <1>3 DEF NoneFails, DynamoDbResults, CosmosDbResults, FirestoreResults

LEMMA SamplesAgree ==
  ASSUME deployment \in Deployments PROVE FiltersAgree
  <1> DEFINE s == deployment.sample
  <1>1. ASSUME s.of = "filter" PROVE AllAgree(s.docs, s.filter)
    <2>1. s.filter \in FilterExpressions
      BY <1>1, SamplesAssumption
    <2> QED BY <2>1, FiltersAreAnswered
  <1>2. ASSUME s.of = "pairs"
        PROVE  LET filter == getFilterExpressionFromKeyValuePairs(s.names, s.values)
               IN  AllAgree(s.docs, filter) /\ NoneFails(s.docs, filter)
    <2> DEFINE filter == getFilterExpressionFromKeyValuePairs(s.names, s.values)
    <2>1. s.names \in Seq(STRING) /\ \A k \in DOMAIN s.names : s.values[s.names[k]] \in Int
      BY <1>2, SamplesAssumption
    <2> HIDE DEF s
    <2>2. filter = getFilterExpressionFromKeyValuePairs(s.names, s.values)
      OBVIOUS
    <2> HIDE DEF filter
    <2>3. filter \in FilterExpressions /\ NoneFails(s.docs, filter)
      BY <2>1, <2>2, PairsAreEqualities, PairsNeverFail
    <2>4. AllAgree(s.docs, filter)
      BY <2>3, FiltersAreAnswered
    <2> QED BY <2>2, <2>3, <2>4
  <1> QED BY <1>1, <1>2 DEF FiltersAgree

(* A query of a deployment that is answered has the documents that satisfy  *)
(* its filter, and what getFilterExpressionFromKeyValuePairs makes of a     *)
(* query string is answered by each database.                              *)
THEOREM FiltersAreExact == Spec => []FiltersAgree
  <1>1. ServiceInv => FiltersAgree
    BY SamplesAgree DEF ServiceInv
  <1> QED BY <1>1, ServiceInvariant, PTL
==============================================================================
