------------------------------ MODULE Deployment ------------------------------
(***************************************************************************)
(* What a service and the callers of its API are configured with.  It is
   fixed in a behaviour: a variable only because a run checks several.

     backend     the database: "DynamoDB", "CosmosDB" or "Firestore"
     secured     the controller has the McmaApiKeySecurityMiddleware
     hook        the create route has an onCompleted that calls a service
     endpoint    per caller, the authType of the resource endpoint, or ""
     service     per caller, the authType of the service, or ""
     tracked     per caller, whether its requests carry a tracker
     key         per caller, its API key
     program     per caller, the sequence of requests it makes
     documents   the documents in the table
     sample      an input of the functions without a state                 *)
(***************************************************************************)
EXTENDS Naturals, Sequences, FiniteSets

CONSTANTS
  Callers,     \* concurrent callers in one process
  Registered,  \* auth types of the AuthProvider of that process
  Foreign      \* a URL outside the endpoint of a caller

VARIABLE deployment

(* AuthProvider.get: the type of the endpoint comes before the type of the  *)
(* service; for an unknown type requests are not signed.                    *)
AuthenticatorIn(d, c) ==
  LET type == IF d.endpoint[c] # "" THEN d.endpoint[c] ELSE d.service[c]
  IN  IF type \in Registered THEN type ELSE "none"

Authenticator(c) == AuthenticatorIn(deployment, c)

ApiKey(c) == IF Authenticator(c) = "McmaApiKey" THEN deployment.key[c] ELSE "none"

Request(c, step) == deployment.program[c][step]

(* Identifier 0 in a program stands for the document that the caller        *)
(* created: the Location of the answer.                                    *)
TargetOf(c, step, answers) ==
  LET created == {k \in DOMAIN answers : answers[k].status = 201}
      id      == Request(c, step).id
  IN  IF id # 0 \/ created = {} THEN id
      ELSE answers[CHOOSE k \in created : \A l \in created : k <= l].id
=============================================================================
