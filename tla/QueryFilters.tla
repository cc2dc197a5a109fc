------------------------------ MODULE QueryFilters ------------------------------
(***************************************************************************)
(* Filter expressions of queries, and what the three databases make of them
   (hasFilterCriteria, buildFilterExpression of DynamoDB, buildQueryDefinition
   of Cosmos DB, buildFirestoreQuery, getFilterExpressionFromKeyValuePairs).

   An expression is a criterion [propertyName, operator, propertyValue] or a
   group [logicalOperator, children]; a document is a function from the names
   of its properties to their values.                                      *)
(***************************************************************************)
EXTENDS Integers, Sequences

CONSTANT Depth  \* how deep groups nest

ASSUME DepthAssumption == Depth \in Nat \ {0}

FilterCriteria ==
  [propertyName : STRING, operator : {"=", "!=", "<", "<=", ">", ">="}, propertyValue : Int]

(* The expressions that nest at most n deep.                                *)
Expressions[n \in 0 .. Depth] ==
  FilterCriteria \cup
    IF n = 0 THEN {}
    ELSE [logicalOperator : {"&&", "||"}, children : Seq(Expressions[n - 1])]
FilterExpressions == Expressions[Depth]

isFilterCriteriaGroup(e) == "logicalOperator" \in DOMAIN e
hasFilterCriteria(e) == isFilterCriteriaGroup(e) => e.children # <<>>

getFilterExpressionFromKeyValuePairs(names, pairs) ==
  [logicalOperator |-> "&&",
   children |-> [k \in DOMAIN names |-> [propertyName |-> names[k], operator |-> "=",
                                         propertyValue |-> pairs[names[k]]]]]

Compare(operator, a, b) ==
  CASE operator = "=" -> a = b [] operator = "!=" -> a # b
    [] operator = "<" -> a < b [] operator = "<=" -> a <= b
    [] operator = ">" -> a > b [] operator = ">=" -> a >= b

(* A document without the property meets no criterion.                      *)
Meets(criterion, doc) ==
  /\ criterion.propertyName \in DOMAIN doc
  /\ Compare(criterion.operator, doc[criterion.propertyName], criterion.propertyValue)

(* The meaning of an expression; a group without children does not filter.  *)
Satisfies(doc, e) ==
  LET holds[n \in 0 .. Depth] ==
        [x \in Expressions[n] |->
           IF ~isFilterCriteriaGroup(x) THEN Meets(x, doc)
           ELSE IF x.logicalOperator = "&&"
           THEN \A k \in DOMAIN x.children : holds[n - 1][x.children[k]]
           ELSE x.children = <<>> \/ \E k \in DOMAIN x.children : holds[n - 1][x.children[k]]]
  IN  holds[Depth][e]

(* An expression and all that it is made of.                                *)
Nodes(e) ==
  LET nodes[n \in 0 .. Depth] ==
        [x \in Expressions[n] |->
           {x} \cup IF ~isFilterCriteriaGroup(x) THEN {}
                   ELSE UNION {nodes[n - 1][x.children[k]] : k \in DOMAIN x.children}]
  IN  nodes[Depth][e]

Unfiltered(docs) == [error |-> FALSE, docs |-> docs]
Error == [error |-> TRUE, docs |-> {}]

-----------------------------------------------------------------------------
(* DynamoDB and Cosmos DB: the expression as a text, with the children of a *)
(* group in parentheses and nothing at all for an empty group.              *)

Connective_AlwaysAnd(e) == "and"
Connective(e) == IF e.logicalOperator = "||" THEN "or" ELSE "and"

(* The text is in the language of the database.                             *)
Parses(operators, e) ==
  \A x \in Nodes(e) :
    IF isFilterCriteriaGroup(x) THEN x.children # <<>> ELSE x.operator \in operators

Value(doc, e) ==
  LET value[n \in 0 .. Depth] ==
        [x \in Expressions[n] |->
           IF ~isFilterCriteriaGroup(x) THEN Meets(x, doc)
           ELSE IF Connective(x) = "or"
           THEN \E k \in DOMAIN x.children : value[n - 1][x.children[k]]
           ELSE \A k \in DOMAIN x.children : value[n - 1][x.children[k]]]
  IN  value[Depth][e]

TextFiltered(operators, docs, e) ==
  IF ~hasFilterCriteria(e) THEN Unfiltered(docs)
  ELSE IF ~Parses(operators, e) THEN Error
  ELSE [error |-> FALSE, docs |-> {doc \in docs : Value(doc, e)}]

(* The inequality of DynamoDB is <>; the text has the operator as it is.    *)
DynamoDbResults(docs, e) == TextFiltered({"=", "<", "<=", ">", ">="}, docs, e)
CosmosDbResults(docs, e) == TextFiltered({"=", "!=", "<", "<=", ">", ">="}, docs, e)

-----------------------------------------------------------------------------
(* Firestore: one where clause after the other, all of which have to hold;  *)
(* not every operator.                                                      *)
Unsupported(x) == IF isFilterCriteriaGroup(x) THEN x.logicalOperator = "||" ELSE x.operator = "!="

Wheres(docs, e) ==
  {doc \in docs : \A x \in Nodes(e) : ~isFilterCriteriaGroup(x) => Meets(x, doc)}

FirestoreResults(docs, e) ==
  IF \E x \in Nodes(e) : Unsupported(x) THEN Error
  ELSE [error |-> FALSE, docs |-> Wheres(docs, e)]

-----------------------------------------------------------------------------
Agrees(docs, e, results) == results.error \/ results.docs = {doc \in docs : Satisfies(doc, e)}

AllAgree(docs, e) ==
  /\ Agrees(docs, e, DynamoDbResults(docs, e))
  /\ Agrees(docs, e, CosmosDbResults(docs, e))
  /\ Agrees(docs, e, FirestoreResults(docs, e))

NoneFails(docs, e) ==
  ~DynamoDbResults(docs, e).error /\ ~CosmosDbResults(docs, e).error
    /\ ~FirestoreResults(docs, e).error
=============================================================================
