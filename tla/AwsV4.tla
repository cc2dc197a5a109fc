-------------------------------- MODULE AwsV4 --------------------------------
(***************************************************************************)
(* Signatures of requests for AWS (AwsV4Authenticator).

   Headers are functions from names to values.  A signature is what it was
   computed over; values that are the same in every attempt are 0, and those
   of attempt n are n.                                                     *)
(***************************************************************************)
EXTENDS Naturals

SigningHeaders == {"x-amz-date", "x-amz-content-sha256", "host"}

(* The headers that sign() puts into the canonical request of attempt n:    *)
(* all that the request has by then.                                        *)
Canonical(headers, n) ==
  [h \in DOMAIN headers \cup SigningHeaders |->
     CASE h = "x-amz-date"                               -> n
       [] h \in SigningHeaders \ {"x-amz-date"}          -> 0
       [] h \notin SigningHeaders                        -> headers[h]]

(* The headers that are sent: with the signature and the session token, and *)
(* without the host, which the transport sets.                              *)
Sent(headers, n) ==
  LET canonical == Canonical(headers, n)
  IN  [h \in (DOMAIN canonical \cup {"Authorization", "x-amz-security-token"}) \ {"host"} |->
         CASE h = "Authorization"         -> n
           [] h = "x-amz-security-token"  -> 0
           [] OTHER                       -> canonical[h]]

(* The service recomputes the signature over the headers it received.       *)
Verifies(canonical, sent) ==
  \A h \in DOMAIN canonical \ {"host"} : h \in DOMAIN sent /\ sent[h] = canonical[h]

=============================================================================
