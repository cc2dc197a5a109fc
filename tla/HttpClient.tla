------------------------------ MODULE HttpClient ------------------------------
(***************************************************************************)
(* Requests of concurrent callers (HttpClient, ResourceEndpointClient) and
   the credentials they share (AccessTokenAuthenticator,
   McmaApiKeyAuthenticator, AwsV4Authenticator, AzureFunctionKeyAuthenticator).

   Every await is a step boundary: the credential that is fetched, the answer
   of the service, the pause before the next attempt.  Signing and sending
   are one step, as there is no other await between them.  A unit of time is
   the retry interval.                                                     *)
(***************************************************************************)
EXTENDS Deployment, AwsV4

CONSTANTS
  MaxAttempts,  \* HttpClientConfig.maxAttempts
  TokenLife     \* validity of a new access token

ASSUME ClientAssumption == MaxAttempts \in Nat \ {0} /\ TokenLife \in Nat \ {0, 1}

VARIABLES
  call,        \* per caller, where its current request is
  credential,  \* per type, the credential the authenticator holds and its validity
  outcome,     \* per caller, the answers to its finished requests
  listing      \* per caller, the pages of its current query

clientVars == <<call, credential, outcome, listing>>

CachedTypes == {"AccessToken", "McmaApiKey"}
NoHeaders == [h \in {} |-> 0]

ClientTypeOK ==
  /\ \A c \in Callers :
       /\ call[c].pc \in {"idle", "sign", "token", "sent", "sleep", "failed"}
       /\ call[c].attempt \in 0 .. MaxAttempts
       /\ call[c].wait \in 0 .. 1
       /\ Len(outcome[c]) <= Len(deployment.program[c])
  /\ credential \in [CachedTypes -> [held : BOOLEAN, life : 0 .. TokenLife]]

ClientInit ==
  /\ call = [c \in Callers |->
               [pc |-> "idle", attempt |-> 0, headers |-> NoHeaders, wait |-> 0]]
  /\ credential = [t \in CachedTypes |-> [held |-> FALSE, life |-> 0]]
  /\ outcome = [c \in Callers |-> <<>>]
  /\ listing = [c \in Callers |-> [token |-> 0, got |-> {}, twice |-> {}, due |-> {}]]

Step(c) == Len(outcome[c]) + 1

Target(c) == TargetOf(c, Step(c), outcome[c])

(* The promise of the caller is rejected, or resolved.                      *)
Reject(c, status) ==
  /\ outcome' = [outcome EXCEPT ![c] = Append(@, [status |-> status, id |-> 0])]
  /\ call' = [call EXCEPT ![c].pc = "failed"]

Resolve(c, status, id) ==
  /\ outcome' = [outcome EXCEPT ![c] = Append(@, [status |-> status, id |-> id])]
  /\ call' = [call EXCEPT ![c].pc = "idle"]

(* A request with a configuration of its own; the headers are copied once,  *)
(* before the first attempt.                                                *)
Prepared(c) ==
  [call[c] EXCEPT !.pc = "sign", !.attempt = 1,
     !.headers = IF deployment.tracked[c] THEN [h \in {"mcma-tracker"} |-> 0]
                 ELSE NoHeaders]

(* A caller makes its next request.  One for a URL that does not match the  *)
(* base URL is rejected before it is sent.                                  *)
Call_AnyUrl(c, due) ==
  /\ call[c].pc = "idle"
  /\ Step(c) \in DOMAIN deployment.program[c]
  /\ call' = [call EXCEPT ![c] = Prepared(c)]
  /\ listing' = [listing EXCEPT ![c] = [token |-> 0, got |-> {}, twice |-> {}, due |-> due]]
  /\ UNCHANGED <<credential, outcome>>

Call(c, due) ==
  /\ call[c].pc = "idle"
  /\ Step(c) \in DOMAIN deployment.program[c]
  /\ IF Target(c) = Foreign
     THEN Reject(c, 0)
     ELSE call' = [call EXCEPT ![c] = Prepared(c)] /\ UNCHANGED outcome
  /\ listing' = [listing EXCEPT ![c] = [token |-> 0, got |-> {}, twice |-> {}, due |-> due]]
  /\ UNCHANGED credential

(* What is retried, after a pause: 404 and 5xx, up to the last attempt.     *)
MayRetry_No404(c, status) == status >= 500 /\ call[c].attempt < MaxAttempts
MayRetry_NoBound(c, status) == status = 404 \/ status >= 500
MayRetry(c, status) ==
  (status = 404 \/ status >= 500) /\ call[c].attempt < MaxAttempts

Pause(c) == call' = [call EXCEPT ![c].pc = "sleep", ![c].wait = 1]

-----------------------------------------------------------------------------
(* sign().                                                                  *)

(* An expired access token is dropped; an API key does not expire.          *)
MustFetch_NoExpiry(c) ==
  Authenticator(c) \in CachedTypes /\ ~credential[Authenticator(c)].held

MustFetch(c) ==
  /\ Authenticator(c) \in CachedTypes
  /\ \/ ~credential[Authenticator(c)].held
     \/ Authenticator(c) = "AccessToken" /\ credential["AccessToken"].life = 0

(* AzureFunctionKeyAuthenticator writes into headers that need not exist.   *)
SignThrows(c) == Authenticator(c) = "FunctionKey" /\ call[c].headers = NoHeaders

(* The headers an attempt is sent with; config.headers keeps them for the   *)
(* next one if there were headers to copy.                                  *)
Signed(c) ==
  IF Authenticator(c) = "AWS4" THEN Sent(call[c].headers, call[c].attempt)
  ELSE call[c].headers

(* What the API gateway or the cloud function may find a credential to be   *)
(* when the request arrives: a token may expire on the way.                 *)
OnArrival(c, life) ==
  CASE Authenticator(c) = "AccessToken" ->
         IF life = 0 THEN {"invalid"} ELSE IF life = 1 THEN {"valid", "late"} ELSE {"valid"}
    [] Authenticator(c) = "AWS4" ->
         IF Verifies(Canonical(call[c].headers, call[c].attempt), Signed(c))
         THEN {"valid"} ELSE {"invalid"}
    [] OTHER -> {"valid"}

Transmit(c) ==
  call' = [call EXCEPT ![c].pc = "sent",
                       ![c].headers = IF @ = NoHeaders THEN NoHeaders ELSE Signed(c)]

(* A credential at hand: the attempt is sent.                               *)
SendHeld(c) ==
  /\ call[c].pc = "sign"
  /\ ~MustFetch(c) /\ ~SignThrows(c)
  /\ Transmit(c)
  /\ UNCHANGED <<credential, outcome, listing>>

HeldLife(c) == IF Authenticator(c) \in CachedTypes
               THEN credential[Authenticator(c)].life ELSE 0

Fetch(c) ==
  /\ call[c].pc = "sign"
  /\ MustFetch(c)
  /\ call' = [call EXCEPT ![c].pc = "token"]
  /\ credential' = [credential EXCEPT ![Authenticator(c)] = [held |-> FALSE, life |-> 0]]
  /\ UNCHANGED <<outcome, listing>>

(* Another caller may have fetched one as well: the later answer is kept.   *)
SendFetched(c, life) ==
  /\ call[c].pc = "token"
  /\ credential' = [credential EXCEPT ![Authenticator(c)] = [held |-> TRUE, life |-> life]]
  /\ Transmit(c)
  /\ UNCHANGED <<outcome, listing>>

(* An error without a response is not retried.                              *)
SignFails(c) ==
  /\ call[c].pc = "sign" /\ SignThrows(c)
  /\ Reject(c, 0)
  /\ UNCHANGED <<credential, listing>>

(* sign() is inside the try: when the provider of a credential answers with *)
(* a status that is retried, so is the attempt.  Otherwise, or in the last  *)
(* one, the caller gets an error that is no answer of the service.          *)
ProviderFails(c, status) ==
  /\ call[c].pc = "token"
  /\ IF MayRetry(c, status) THEN Pause(c) /\ UNCHANGED outcome ELSE Reject(c, 0)
  /\ UNCHANGED <<credential, listing>>

-----------------------------------------------------------------------------
(* The answer of the service.                                               *)

(* A page with a token is followed by a request for the next page.          *)
TurnPage(c, answer) ==
  listing' = [listing EXCEPT ![c].token = answer.token,
                             ![c].got = @ \cup answer.results,
                             ![c].twice = @ \cup (answer.results \cap listing[c].got)]

Answered(c, answer) ==
  /\ UNCHANGED credential
  /\ \/ /\ MayRetry(c, answer.status)
        /\ Pause(c)
        /\ UNCHANGED <<outcome, listing>>
     \/ /\ ~MayRetry(c, answer.status) /\ answer.status >= 400
        /\ Reject(c, answer.status)
        /\ UNCHANGED listing
     \/ /\ answer.status < 400
        /\ TurnPage(c, answer)
        /\ IF answer.token = 0 THEN Resolve(c, answer.status, answer.id)
           ELSE call' = [call EXCEPT ![c] = Prepared(c)] /\ UNCHANGED outcome

Wake(c) ==
  /\ call[c].pc = "sleep"
  /\ call[c].wait = 0
  /\ call' = [call EXCEPT ![c].pc = "sign",
                          ![c].attempt = IF @ < MaxAttempts THEN @ + 1 ELSE @]
  /\ UNCHANGED <<credential, outcome, listing>>

(* The connection breaks: no response.                                      *)
Disconnect(c) ==
  /\ call[c].pc = "sent"
  /\ Reject(c, 0)
  /\ UNCHANGED <<credential, listing>>

ClientAge ==
  /\ call' = [c \in Callers |-> [call[c] EXCEPT !.wait = IF @ > 0 THEN @ - 1 ELSE 0]]
  /\ credential' = [credential EXCEPT !["AccessToken"].life = IF @ > 0 THEN @ - 1 ELSE 0]
  /\ UNCHANGED <<outcome, listing>>

Ended(c) ==
  \/ call[c].pc = "failed"
  \/ call[c].pc = "idle" /\ Step(c) \notin DOMAIN deployment.program[c]
=============================================================================
