----------------------------- MODULE DocumentTable -----------------------------
(***************************************************************************)
(* A table of documents over DynamoDB, Cosmos DB or Firestore (DynamoDbTable,
   CosmosDbTable, FirestoreTable): get, put, delete and query.

   A document is one of Docs, its identifier a number; identifiers sort as
   numbers.  An eventually consistent read of a document may return a value
   that was overwritten less than Lag units of time ago, and each document
   of a query is read like that.                                           *)
(***************************************************************************)
EXTENDS Naturals, FiniteSets

CONSTANTS
  Ids,       \* identifiers of documents
  Docs,      \* contents of a document
  NoDoc,     \* no document
  Lag        \* time after which every read sees a write

ASSUME TableAssumption ==
  Ids \subseteq Nat \ {0} /\ IsFiniteSet(Ids) /\ NoDoc \notin Docs /\ Lag \in Nat

VARIABLES
  table,     \* the documents
  lagging    \* overwritten values that reads still return, with the time left

tableVars == <<table, lagging>>

TableTypeOK ==
  /\ table \in [Ids -> Docs \cup {NoDoc}]
  /\ lagging \in [Ids -> SUBSET ((Docs \cup {NoDoc}) \X (1 .. Lag))]

TableInit(documents) ==
  /\ table = [i \in Ids |-> IF i \in DOMAIN documents THEN documents[i] ELSE NoDoc]
  /\ lagging = [i \in Ids |-> {}]

(* The options consistentGet and consistentQuery of DynamoDB are off, and   *)
(* sessions of Cosmos DB do not span instances of a service.               *)
Eventual(backend) == backend \in {"DynamoDB", "CosmosDB"}

Visible(backend, i) ==
  {table[i]} \cup IF Eventual(backend) THEN {old[1] : old \in lagging[i]} ELSE {}

(* put replaces whatever the table holds, as delete does; delete of a       *)
(* document that does not exist fails over Cosmos DB only.                  *)
Write(i, doc) ==
  /\ table' = [table EXCEPT ![i] = doc]
  /\ lagging' = IF Lag = 0 THEN lagging
                ELSE [lagging EXCEPT ![i] = @ \cup {<<table[i], Lag>>}]

DeleteThrows(backend, i) == backend = "CosmosDB" /\ table[i] = NoDoc

TableAge ==
  lagging' = [i \in Ids |->
               {<<old[1], old[2] - 1>> : old \in {o \in lagging[i] : o[2] > 1}}]

-----------------------------------------------------------------------------
(* Queries.  A query has a filter on the content, or "any", a page size, or *)
(* 0 for none, and a sort order; a page starts after the identifier of its  *)
(* token, or with the first document for token 0.                           *)

Matches(filter, doc) == doc # NoDoc /\ filter \in {"any", doc}

Precedes(order, i, j) == IF order = "desc" THEN i > j ELSE i < j

(* The identifiers of S after the token, at most size of them.              *)
Page_Inclusive(S, token, size, order) ==
  LET rest == {i \in S : token = 0 \/ ~Precedes(order, i, token)}
  IN  {i \in rest : size = 0 \/ Cardinality({j \in rest : Precedes(order, j, i)}) < size}

Page(S, token, size, order) ==
  LET rest == {i \in S : token = 0 \/ Precedes(order, token, i)}
  IN  {i \in rest : size = 0 \/ Cardinality({j \in rest : Precedes(order, j, i)}) < size}

LastOf(page, order) == CHOOSE i \in page : \A j \in page : i = j \/ Precedes(order, j, i)

(* DynamoDB takes a page before it filters, and a token whenever the page   *)
(* is full.                                                                 *)
DynamoDbQuery_NoEmptyPage(view, q, token) ==
  LET page == Page({i \in Ids : view[i] # NoDoc}, token, q.size, q.order)
      results == {i \in page : Matches(q.filter, view[i])}
  IN  [results |-> results,
       token   |-> IF Cardinality(page) = q.size /\ results # {}
                   THEN LastOf(page, q.order) ELSE 0]

DynamoDbQuery(view, q, token) ==
  LET page == Page({i \in Ids : view[i] # NoDoc}, token, q.size, q.order)
  IN  [results |-> {i \in page : Matches(q.filter, view[i])},
       token   |-> IF q.size > 0 /\ Cardinality(page) = q.size
                   THEN LastOf(page, q.order) ELSE 0]

(* fetchAll() of Cosmos DB gathers every page.                              *)
CosmosDbQuery(view, q) ==
  [results |-> {i \in Ids : Matches(q.filter, view[i])}, token |-> 0]

(* Firestore filters first; the sort order is not handed on.  A token that  *)
(* is a string belongs to a query with an order: a query has none, and is   *)
(* refused with any token.                                                  *)
FirestoreThrows(token) == token # 0

FirestoreQuery(view, q) ==
  Page({i \in Ids : Matches(q.filter, view[i])}, 0, q.size, "asc")

(* getNextPageStartToken asks for one document after the last of the page,  *)
(* of which it has a snapshot, not a token.                                 *)
NextPageStartToken(view, q, page) ==
  IF \/ page = {}
     \/ Page({i \in Ids : Matches(q.filter, view[i])}, LastOf(page, "asc"), 1, "asc") = {}
  THEN 0 ELSE LastOf(page, "asc")
=============================================================================
