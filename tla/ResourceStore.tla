----------------------------- MODULE ResourceStore -----------------------------
(***************************************************************************)
(* What a collection of resources behind an API promises to its callers.

   A write takes effect for a request that its caller made, is permitted to
   make and names the resource; a create, which its client repeats, takes
   effect at most once per attempt and on a new resource each time.  A write
   that is answered with success has taken effect.                         *)
(***************************************************************************)
EXTENDS Deployment

CONSTANTS Ids, NoDoc, MaxAttempts, Permitted

VARIABLES
  docs,      \* the resources
  effects,   \* the writes that took effect, with caller and step of the request
  answers    \* per caller, the answers to its finished requests

storeVars == <<docs, effects, answers>>

Effects(c, step) == {e \in effects : e.caller = c /\ e.step = step}

MayWrite(c, step) ==
  LET r == Request(c, step)
  IN  /\ step \in 1 .. Len(answers[c]) + 1
      /\ r.method \in {"POST", "PUT", "DELETE"}
      /\ deployment.secured => <<ApiKey(c), r.kind, r.method>> \in Permitted

Apply(c, step, i) ==
  LET doc == IF Request(c, step).method = "DELETE" THEN NoDoc ELSE Request(c, step).doc
  IN  /\ docs' = [docs EXCEPT ![i] = doc]
      /\ effects' = effects \cup {[caller |-> c, step |-> step, id |-> i, doc |-> doc]}
      /\ MayWrite(c, step)
      /\ IF Request(c, step).method = "POST"
         THEN /\ \A e \in effects : e.id # i
              /\ Cardinality(Effects(c, step)) < MaxAttempts
         ELSE i = TargetOf(c, step, SubSeq(answers[c], 1, step - 1))
      /\ UNCHANGED answers

Conclude(c) ==
  LET step == Len(answers[c]) + 1
  IN  /\ step \in DOMAIN deployment.program[c]
      /\ Len(answers'[c]) = step
      /\ \A k \in 1 .. step - 1 : answers'[c][k] = answers[c][k]
      /\ \A d \in Callers \ {c} : answers'[d] = answers[d]
      /\ answers'[c][step].status \in {200, 201} =>
           CASE Request(c, step).method = "POST" ->
                  \E e \in Effects(c, step) : e.id = answers'[c][step].id
             [] Request(c, step).method \in {"PUT", "DELETE"} -> Effects(c, step) # {}
             [] OTHER -> TRUE
      /\ UNCHANGED <<docs, effects>>

StoreInit == effects = {} /\ answers = [c \in Callers |-> <<>>]

StoreNext ==
  /\ UNCHANGED deployment
  /\ \E c \in Callers :
       \/ \E step \in DOMAIN deployment.program[c], i \in Ids : Apply(c, step, i)
       \/ Conclude(c)

StoreSpec == StoreInit /\ [][StoreNext]_storeVars
=============================================================================
