----------------------------- MODULE Service_proofs -----------------------------
(***************************************************************************)
(* Proofs about Service, for any callers, documents, programs, rules and
   databases, and any number of attempts and failures; and about the
   requests of each platform.

   The parts of the invariant are operators of the values that they relate,
   so that they can be stated of the state before and after a step:
   C stands for call, O for outcome, E for executions, F for effects.      *)
(***************************************************************************)
EXTENDS Service, LeastElement, FiniteSetTheorems, SequenceTheorems

MethodOf(c, step) == Request(c, step).method

(* A caller: where its current request is, and what it was answered.       *)
Results == [status : Nat, id : Nat]

IsCall(r) ==
  r = [pc |-> r.pc, attempt |-> r.attempt, headers |-> r.headers, wait |-> r.wait]

(* Of r = C[c] and s = O[c]: as long as a caller goes on, its creates       *)
(* succeeded.                                                              *)
Succeeded(r, s, c) ==
  \A k \in DOMAIN s :
    /\ (k < Len(s) \/ r.pc # "failed") /\ MethodOf(c, k) = "POST" => s[k].status = 201
    /\ s[k].status = 201 => s[k].id \in Ids

(* Where no request that is signed for AWS has a tracker, a caller has no    *)
(* headers that a signature could be left in.                              *)
Untracked ==
  \A d \in Deployments : \A c \in Callers : AuthenticatorIn(d, c) = "AWS4" => ~ d.tracked[c]

HeadersOk(r, c) == Untracked /\ Authenticator(c) = "AWS4" => r.headers = NoHeaders

CallOk(r, s, c) ==
  /\ IsCall(r) /\ r.attempt \in Nat /\ HeadersOk(r, c)
  /\ r.pc \in {"idle", "sign", "token", "sent", "sleep", "failed"}
  /\ r.pc \in {"sign", "token", "sent", "sleep"} =>
       /\ Len(s) + 1 \in DOMAIN deployment.program[c]
       /\ TargetOf(c, Len(s) + 1, s) # Foreign
       /\ r.attempt \in 1 .. MaxAttempts
  /\ r.pc = "sleep" => r.attempt < MaxAttempts

ClientInv(C, O) ==
  /\ C = [c \in Callers |-> C[c]]
  /\ O \in [Callers -> Seq(Results)]
  /\ \A c \in Callers : CallOk(C[c], O[c], c) /\ Succeeded(C[c], O[c], c)

(* The writes that took effect for a request.                              *)
Written(F, c, step) == {e \in F : e.caller = c /\ e.step = step}

IsAnswer(a) ==
  /\ a = [status |-> a.status, id |-> a.id, results |-> a.results, token |-> a.token]
  /\ a.status \in Nat /\ a.id \in Nat

IsExecution(x) ==
  /\ x = [caller |-> x.caller, step |-> x.step, attempt |-> x.attempt, id |-> x.id,
          token |-> x.token, page |-> x.page, found |-> x.found, orphan |-> x.orphan,
          at |-> x.at, answer |-> x.answer]
  /\ IsAnswer(x.answer)

(* An execution: the request it belongs to.                                *)
BelongsOk(x, C, O) ==
  /\ IsExecution(x) /\ x.caller \in Callers /\ x.orphan \in BOOLEAN
  /\ Untracked => x.found # "invalid"
  /\ x.step \in 1 .. Len(O[x.caller]) + 1
  /\ x.step \in DOMAIN deployment.program[x.caller]
  /\ ~ x.orphan => C[x.caller].pc = "sent" /\ x.step = Len(O[x.caller]) + 1
  /\ Of(x).method # "POST" =>
       x.id = TargetOf(x.caller, x.step, SubSeq(O[x.caller], 1, x.step - 1))
  /\ Of(x).kind = "item" /\ Of(x).method \in {"PUT", "DELETE"} => x.id \in Ids

(* ... where it is, and what its answer says of the writes.                *)
HandlingOk(x, F) ==
  /\ x.at \in Awaits \cup {"respond"}
  /\ x.at = "secret" => deployment.secured
  /\ x.at \in {"create", "completed"} => Of(x).method = "POST"
  /\ x.at = "update" => Of(x).method = "PUT" /\ Of(x).kind = "item"
  /\ x.at \in {"delete-get", "delete"} => Of(x).method = "DELETE" /\ Of(x).kind = "item"
  /\ x.at \in {"get", "query", "next"} => Of(x).method = "GET"
  /\ x.at = "completed" =>
       x.id \in Ids /\ \E e \in Written(F, x.caller, x.step) : e.id = x.id
  /\ x.at = "respond" =>
       /\ x.answer.status = 201 => Of(x).method = "POST"
       /\ Of(x).method = "POST" /\ x.answer.status < 400 =>
            /\ x.answer.status = 201 /\ x.answer.token = 0 /\ x.answer.id \in Ids
            /\ \E e \in Written(F, x.caller, x.step) : e.id = x.answer.id
       /\ Of(x).method \in {"PUT", "DELETE"} /\ x.answer.status < 400 =>
            Written(F, x.caller, x.step) # {}

(* ... and what the middleware found.                                      *)
Allowed(x) == <<ApiKey(x.caller), Of(x).kind, Of(x).method>> \in Permitted

AccessOk(x) ==
  deployment.secured =>
    /\ x.answer.status \in {401, 403} /\ x.at = "respond" => ~ Allowed(x)
    /\ x.at # "secret" /\ x.answer.status \in {200, 201, 400, 404, 405} => Allowed(x)
    /\ x.at \notin {"secret", "respond"} => Allowed(x)

ExecutionOk(x, C, O, F) == BelongsOk(x, C, O) /\ HandlingOk(x, F) /\ AccessOk(x)

(* A caller awaits one execution at most.                                  *)
Single(E) == \A x, y \in E : ~ x.orphan /\ ~ y.orphan /\ x.caller = y.caller => x = y

ExecutionsInv(C, O, E, F) == Single(E) /\ \A x \in E : ExecutionOk(x, C, O, F)

(* Creates: each attempt takes effect at most once.                        *)
Unspent(E, c, step) ==
  {x \in E : x.caller = c /\ x.step = step /\ x.at \in {"secret", "create"}}

Credit(r) ==
  IF r.pc \in {"sent", "sleep"} THEN r.attempt
  ELSE IF r.pc \in {"sign", "token"} THEN r.attempt - 1
  ELSE 0

Made(C, O, c, step) ==
  IF step <= Len(O[c]) THEN MaxAttempts
  ELSE IF step = Len(O[c]) + 1 THEN Credit(C[c])
  ELSE 0

AttemptsOk(C, O, E, F, c, step) ==
  Cardinality(Written(F, c, step)) + Cardinality(Unspent(E, c, step)) <= Made(C, O, c, step)

AttemptsInv(C, O, E, F) ==
  /\ IsFiniteSet(E) /\ IsFiniteSet(F)
  /\ \A c \in Callers : \A step \in Nat \ {0} :
       MethodOf(c, step) = "POST" => AttemptsOk(C, O, E, F, c, step)

ServiceInv ==
  /\ deployment \in Deployments
  /\ ClientInv(call, outcome)
  /\ ExecutionsInv(call, outcome, executions, effects)
  /\ AttemptsInv(call, outcome, executions, effects)

-----------------------------------------------------------------------------
(* An execution that goes on: another place, another answer.               *)

Follows(x, y) ==
  /\ IsExecution(y)
  /\ y.caller = x.caller /\ y.step = x.step /\ y.found = x.found

Fields ==
  {"caller", "step", "attempt", "id", "token", "page", "found", "orphan", "at", "answer"}

Rewritten(x, at, id, page, orphan, answer) ==
  [f \in Fields |-> CASE f = "at"     -> at
                      [] f = "id"     -> id
                      [] f = "page"   -> page
                      [] f = "orphan" -> orphan
                      [] f = "answer" -> answer
                      [] OTHER        -> x[f]]

LEMMA FieldsAre ==
  ASSUME NEW x, IsExecution(x)
  PROVE  DOMAIN x = Fields /\ IsAnswer(x.answer)
  BY DEF IsExecution, Fields

LEMMA RewrittenIs ==
  ASSUME NEW x, NEW at, NEW id, NEW page, NEW orphan, NEW answer, IsAnswer(answer)
  PROVE  LET y == Rewritten(x, at, id, page, orphan, answer)
         IN  Follows(x, y) /\ y.orphan = orphan /\ y.id = id /\ y.at = at /\ y.answer = answer
  <1> DEFINE y == Rewritten(x, at, id, page, orphan, answer)
  <1>1. y = [caller |-> x.caller, step |-> x.step, attempt |-> x.attempt, id |-> id,
             token |-> x.token, page |-> page, found |-> x.found, orphan |-> orphan,
             at |-> at, answer |-> answer]
    BY DEF Rewritten, Fields
  <1> HIDE DEF y
  <1>2. Follows(x, y) /\ y.orphan = orphan /\ y.id = id /\ y.at = at /\ y.answer = answer
    BY <1>1 DEF Follows, IsExecution
  <1> QED BY <1>2 DEF y

LEMMA Moved ==
  ASSUME NEW x, IsExecution(x), NEW p
  PROVE  LET y == [x EXCEPT !.at = p]
         IN  Follows(x, y) /\ y.orphan = x.orphan /\ y.id = x.id
               /\ y.at = p /\ y.answer = x.answer
  <1>1. DOMAIN x = Fields /\ IsAnswer(x.answer)
    BY FieldsAre
  <1>2. [x EXCEPT !.at = p] = Rewritten(x, p, x.id, x.page, x.orphan, x.answer)
    BY <1>1 DEF Rewritten
  <1> QED BY <1>1, <1>2, RewrittenIs

LEMMA MovedToHook ==
  ASSUME NEW x, IsExecution(x), NEW i
  PROVE  LET y == [x EXCEPT !.at = "completed", !.id = i]
         IN  Follows(x, y) /\ y.orphan = x.orphan /\ y.id = i
               /\ y.at = "completed" /\ y.answer = x.answer
  <1>1. DOMAIN x = Fields /\ IsAnswer(x.answer)
    BY FieldsAre
  <1>2. [x EXCEPT !.at = "completed", !.id = i] = Rewritten(x, "completed", i, x.page, x.orphan, x.answer)
    BY <1>1 DEF Rewritten
  <1> QED BY <1>1, <1>2, RewrittenIs

LEMMA MovedToNext ==
  ASSUME NEW x, IsExecution(x), NEW page
  PROVE  LET y == [x EXCEPT !.at = "next", !.page = page]
         IN  Follows(x, y) /\ y.orphan = x.orphan /\ y.id = x.id
               /\ y.at = "next" /\ y.answer = x.answer
  <1>1. DOMAIN x = Fields /\ IsAnswer(x.answer)
    BY FieldsAre
  <1>2. [x EXCEPT !.at = "next", !.page = page] = Rewritten(x, "next", x.id, page, x.orphan, x.answer)
    BY <1>1 DEF Rewritten
  <1> QED BY <1>1, <1>2, RewrittenIs

LEMMA Orphaned ==
  ASSUME NEW x, IsExecution(x)
  PROVE  LET y == [x EXCEPT !.orphan = TRUE]
         IN  Follows(x, y) /\ y.orphan = TRUE /\ y.id = x.id
               /\ y.at = x.at /\ y.answer = x.answer
  <1>1. DOMAIN x = Fields /\ IsAnswer(x.answer)
    BY FieldsAre
  <1>2. [x EXCEPT !.orphan = TRUE] = Rewritten(x, x.at, x.id, x.page, TRUE, x.answer)
    BY <1>1 DEF Rewritten
  <1>3. \A b : LET y == Rewritten(x, x.at, x.id, x.page, b, x.answer)
               IN  Follows(x, y) /\ y.orphan = b /\ y.id = x.id
                     /\ y.at = x.at /\ y.answer = x.answer
    BY <1>1, RewrittenIs
  <1>4. LET y == Rewritten(x, x.at, x.id, x.page, TRUE, x.answer)
        IN  Follows(x, y) /\ y.orphan = TRUE /\ y.id = x.id
              /\ y.at = x.at /\ y.answer = x.answer
    BY <1>3, Zenon
  <1> QED BY <1>2, <1>4, Zenon

LEMMA Responded ==
  ASSUME NEW x, IsExecution(x), NEW a, IsAnswer(a)
  PROVE  LET y == Responding(x, a)
         IN  Follows(x, y) /\ y.orphan = x.orphan /\ y.id = x.id
               /\ y.at = "respond" /\ y.answer = a
  <1>1. DOMAIN x = Fields /\ IsAnswer(x.answer)
    BY FieldsAre
  <1>2. Responding(x, a) = Rewritten(x, "respond", x.id, x.page, x.orphan, a)
    BY <1>1 DEF Rewritten, Responding
  <1> QED BY <1>1, <1>2, RewrittenIs

LEMMA AnswerIs ==
  ASSUME NEW status \in Nat
  PROVE  IsAnswer(Answer(status)) /\ Answer(status).status = status
           /\ Answer(status).token = 0
  BY DEF IsAnswer, Answer

-----------------------------------------------------------------------------
(* The pipeline up to its first await.                                     *)

Refusals == {400, 404, 405}

Continues(x, y) == Follows(x, y) /\ y.orphan = x.orphan /\ y.id = x.id

Routed(x, y) ==
  \/ y.at = "respond" /\ y.answer.status \in Refusals
  \/ y.at = "respond" /\ y.answer.status = 200 /\ Of(x).method = "OPTIONS"
  \/ y.at = "create" /\ Of(x).method = "POST"
  \/ y.at = "update" /\ Of(x).method = "PUT" /\ Of(x).kind = "item"
  \/ y.at = "delete-get" /\ Of(x).method = "DELETE" /\ Of(x).kind = "item"
  \/ y.at \in {"get", "query"} /\ Of(x).method = "GET"

LEMMA Processed ==
  ASSUME NEW x, IsExecution(x)
  PROVE  Continues(x, Process(x)) /\ Routed(x, Process(x))
  <1> DEFINE r == Of(x)
             matched == {route \in Routes : route[1] = r.kind}
             y == Process(x)
  <1>0. IsAnswer(Answer(400)) /\ IsAnswer(Answer(404)) /\ IsAnswer(Answer(405))
          /\ IsAnswer(Answer(200)) /\ Answer(400).status = 400 /\ Answer(404).status = 404
          /\ Answer(405).status = 405 /\ Answer(200).status = 200
    BY DEF IsAnswer, Answer
  <1>1. CASE r.body = "malformed"
    <2>1. y = Responding(x, Answer(400))
      BY <1>1 DEF Process
    <2> QED BY <2>1, <1>0, Responded DEF Refusals, Continues, Routed
  <1>2. CASE r.body # "malformed" /\ matched = {}
    <2>1. y = Responding(x, Answer(404))
      BY <1>2 DEF Process
    <2> QED BY <2>1, <1>0, Responded DEF Refusals, Continues, Routed
  <1>3. CASE r.body # "malformed" /\ matched # {} /\ <<r.kind, r.method>> \notin matched
    <2>1. y = Responding(x, Answer(IF r.method = "OPTIONS" THEN 200 ELSE 405))
      BY <1>3 DEF Process
    <2>2. CASE r.method = "OPTIONS"
      <3>1. y = Responding(x, Answer(200))
        BY <2>1, <2>2
      <3> QED BY <3>1, <2>2, <1>0, Responded DEF Continues, Routed
    <2>3. CASE r.method # "OPTIONS"
      <3>1. y = Responding(x, Answer(405))
        BY <2>1, <2>3
      <3> QED BY <3>1, <1>0, Responded DEF Refusals, Continues, Routed
    <2> QED BY <2>2, <2>3
  <1>4. CASE r.body = "none" /\ <<r.kind, r.method>> \in matched /\ r.method \in {"POST", "PUT"}
    <2>1. y = Responding(x, Answer(400))
      BY <1>4 DEF Process
    <2> QED BY <2>1, <1>0, Responded DEF Refusals, Continues, Routed
  <1>5. CASE r.body # "malformed" /\ <<r.kind, r.method>> \in matched
               /\ ~ (r.body = "none" /\ r.method \in {"POST", "PUT"})
    <2>1. y = [x EXCEPT !.at = Handler(r.kind, r.method)]
      BY <1>5 DEF Process
    <2>2. <<r.kind, r.method>> \in Routes
      BY <1>5
    <2>3. \/ r.kind = "items" /\ r.method = "GET" /\ Handler(r.kind, r.method) = "query"
          \/ r.kind = "items" /\ r.method = "POST" /\ Handler(r.kind, r.method) = "create"
          \/ r.kind = "item" /\ r.method = "GET" /\ Handler(r.kind, r.method) = "get"
          \/ r.kind = "item" /\ r.method = "PUT" /\ Handler(r.kind, r.method) = "update"
          \/ r.kind = "item" /\ r.method = "DELETE" /\ Handler(r.kind, r.method) = "delete-get"
      BY <2>2 DEF Routes, Handler
    <2> HIDE DEF r
    <2> QED BY <2>1, <2>3, Moved DEF r, Continues, Routed
  <1> QED BY <1>1, <1>2, <1>3, <1>4, <1>5

LEMMA RoutedOk ==
  ASSUME NEW x, NEW y, Follows(x, y), Routed(x, y), deployment.secured => Allowed(x), NEW F
  PROVE  HandlingOk(y, F) /\ AccessOk(y)
  <1>1. Of(y) = Of(x) /\ Allowed(y) = Allowed(x)
    BY DEF Follows, Of, Allowed
  <1>2. y.at \in {"respond", "create", "update", "delete-get", "get", "query"}
    BY DEF Routed
  <1>3. y.at = "respond" => /\ y.answer.status \in {400, 404, 405, 200}
                            /\ y.answer.status < 400 => Of(x).method = "OPTIONS"
                            /\ y.answer.status # 201
    BY DEF Routed, Refusals
  <1>4. HandlingOk(y, F)
    BY <1>1, <1>2, <1>3 DEF HandlingOk, Awaits, Routed
  <1>5. AccessOk(y)
    <2>1. SUFFICES ASSUME deployment.secured
                   PROVE  y.answer.status \in {401, 403} /\ y.at = "respond" => ~ Allowed(y)
      BY <1>1 DEF AccessOk
    <2> QED BY <1>3
  <1> QED BY <1>4, <1>5

(* The loop of configAllowsAccess: what it returns with some rules left.    *)
Verdict(rules, left, r, rest) ==
  IF left = 0 THEN FALSE
  ELSE LET rule == rules[Len(rules) - left + 1]
       IN  IF r.kind \in rule.paths THEN rule.methods \cap {"ANY", r.method} # {} ELSE rest

IsLoop(f, rules, r) == f = [left \in 0 .. Len(rules) |-> Verdict(rules, left, r, f[left - 1])]

(* The first rule of those from the number n on that has the path.          *)
Decides(rules, n, r) ==
  \E k \in n .. Len(rules) :
    /\ r.kind \in rules[k].paths
    /\ \A l \in n .. k - 1 : r.kind \notin rules[l].paths
    /\ \E method \in rules[k].methods : method \in {"ANY", r.method}

LEMMA LoopExists ==
  ASSUME NEW rules, Len(rules) \in Nat, NEW r
  PROVE  \E f : IsLoop(f, rules, r)
  <1> DEFINE m == Len(rules)
             step == [p \in (1 .. m) \X BOOLEAN |-> Verdict(rules, p[1], r, p[2])]
  <1>1. \A n \in 1 .. m, b \in BOOLEAN : Verdict(rules, n, r, b) \in BOOLEAN
    BY Zenon DEF Verdict
  <1>2. step \in RecursiveSteps(m, BOOLEAN)
    <2>1. \A p \in (1 .. m) \X BOOLEAN : p[1] \in 1 .. m /\ p[2] \in BOOLEAN
      BY Zenon
    <2>2. \A p \in (1 .. m) \X BOOLEAN : Verdict(rules, p[1], r, p[2]) \in BOOLEAN
      BY <1>1, <2>1, Zenon
    <2> QED BY <2>2, Zenon DEF RecursiveSteps
  <1>3. m \in Nat /\ FALSE \in BOOLEAN
    OBVIOUS
  <1>4. PICK f : IsRecursive(f, m, BOOLEAN, FALSE, step)
    <2> HIDE DEF step, m
    <2> QED BY <1>2, <1>3, RecursionExists
  <1>5. ASSUME NEW n \in 1 .. m
        PROVE  f[n] = Verdict(rules, n, r, f[n - 1])
    <2>1. n - 1 \in 0 .. m
      BY <1>3
    <2>2. f[n - 1] \in BOOLEAN /\ f[n] = step[<<n, f[n - 1]>>]
      BY <1>4, <2>1, Zenon DEF IsRecursive
    <2>3. <<n, f[n - 1]>> \in (1 .. m) \X BOOLEAN
      BY <2>2, Zenon
    <2>4. step[<<n, f[n - 1]>>] = Verdict(rules, <<n, f[n - 1]>>[1], r, <<n, f[n - 1]>>[2])
      BY <2>3, Zenon
    <2> QED BY <2>2, <2>4, Zenon
  <1>6. f = [n \in 0 .. m |-> f[n]] /\ f[0] = FALSE
    BY <1>4, Zenon DEF IsRecursive
  <1>7. ASSUME NEW n \in 0 .. m PROVE f[n] = Verdict(rules, n, r, f[n - 1])
    <2>1. n = 0 \/ n \in 1 .. m
      BY <1>3
    <2>2. CASE n = 0
      BY <1>6, <2>2, Zenon DEF Verdict
    <2> QED BY <1>5, <2>1, <2>2, Zenon
  <1>8. [n \in 0 .. m |-> f[n]] = [n \in 0 .. m |-> Verdict(rules, n, r, f[n - 1])]
    BY <1>7, Zenon
  <1> QED BY <1>6, <1>8, Zenon DEF IsLoop

LEMMA LoopDecides ==
  ASSUME NEW rules, Len(rules) \in Nat, NEW r, NEW f, IsLoop(f, rules, r)
  PROVE  f[Len(rules)] <=> Decides(rules, 1, r)
  <1> DEFINE m == Len(rules)
             T == {n \in Nat : n <= m => (f[n] <=> Decides(rules, m - n + 1, r))}
  <1>1. \A n \in 0 .. m : f[n] = Verdict(rules, n, r, f[n - 1])
    BY Zenon DEF IsLoop
  <1>2. 0 \in T
    <2>1. 0 \in 0 .. m /\ m - 0 + 1 = m + 1 /\ (m + 1) .. m = {}
      OBVIOUS
    <2>2. f[0] = FALSE
      BY <1>1, <2>1, Zenon DEF Verdict
    <2>3. ~ Decides(rules, m - 0 + 1, r)
      BY <2>1, Zenon DEF Decides
    <2> QED BY <2>2, <2>3
  <1>3. ASSUME NEW n \in Nat, n \in T, n + 1 <= m
        PROVE  f[n + 1] <=> Decides(rules, m - (n + 1) + 1, r)
    <2> DEFINE k == m - n
    <2>1. /\ n + 1 \in 0 .. m /\ n + 1 # 0 /\ (n + 1) - 1 = n /\ k \in 1 .. m
          /\ m - (n + 1) + 1 = k /\ m - n + 1 = k + 1
          /\ k .. m = {k} \cup (k + 1 .. m) /\ k .. k - 1 = {}
      BY <1>3
    <2>2. \A j \in k + 1 .. m : k .. j - 1 = {k} \cup (k + 1 .. j - 1)
      BY <2>1
    <2>3. f[n] <=> Decides(rules, k + 1, r)
      <3>1. n <= m
        BY <1>3
      <3> QED BY <1>3, <2>1, <3>1, Zenon
    <2> HIDE DEF k
    <2>4. f[n + 1] = Verdict(rules, n + 1, r, f[n])
      BY <1>1, <2>1, Zenon
    <2>5. CASE r.kind \in rules[k].paths
      <3>1. f[n + 1] <=> rules[k].methods \cap {"ANY", r.method} # {}
        BY <2>1, <2>4, <2>5, Zenon DEF Verdict
      <3>2. \A j \in k + 1 .. m : k \in k .. j - 1
        BY <2>2, Zenon
      <3>3. Decides(rules, k, r) <=> \E method \in rules[k].methods : method \in {"ANY", r.method}
        <4>1. ASSUME Decides(rules, k, r)
              PROVE  \E method \in rules[k].methods : method \in {"ANY", r.method}
          <5>1. PICK j \in k .. m :
                  /\ \A l \in k .. j - 1 : r.kind \notin rules[l].paths
                  /\ \E method \in rules[j].methods : method \in {"ANY", r.method}
            BY <4>1, Zenon DEF Decides
          <5>2. j = k
            BY <2>1, <2>5, <3>2, <5>1, Zenon
          <5> QED BY <5>1, <5>2, Zenon
        <4>2. ASSUME \E method \in rules[k].methods : method \in {"ANY", r.method}
              PROVE  Decides(rules, k, r)
          <5>1. k \in k .. m /\ \A l \in k .. k - 1 : r.kind \notin rules[l].paths
            BY <2>1, Zenon
          <5> QED BY <2>5, <4>2, <5>1, Zenon DEF Decides
        <4> QED BY <4>1, <4>2
      <3> QED BY <2>1, <3>1, <3>3, Zenon
    <2>6. CASE r.kind \notin rules[k].paths
      <3>1. f[n + 1] = f[n]
        BY <2>1, <2>4, <2>6, Zenon DEF Verdict
      <3>2. ASSUME Decides(rules, k + 1, r) PROVE Decides(rules, k, r)
        <4>1. PICK j \in k + 1 .. m :
                /\ r.kind \in rules[j].paths
                /\ \A l \in k + 1 .. j - 1 : r.kind \notin rules[l].paths
                /\ \E method \in rules[j].methods : method \in {"ANY", r.method}
          BY <3>2, Zenon DEF Decides
        <4>2. j \in k .. m /\ \A l \in k .. j - 1 : r.kind \notin rules[l].paths
          BY <2>1, <2>2, <2>6, <4>1, Zenon
        <4> QED BY <4>1, <4>2, Zenon DEF Decides
      <3>3. ASSUME Decides(rules, k, r) PROVE Decides(rules, k + 1, r)
        <4>1. PICK j \in k .. m :
                /\ r.kind \in rules[j].paths
                /\ \A l \in k .. j - 1 : r.kind \notin rules[l].paths
                /\ \E method \in rules[j].methods : method \in {"ANY", r.method}
          BY <3>3, Zenon DEF Decides
        <4>2. j \in k + 1 .. m
          BY <2>1, <2>6, <4>1, Zenon
        <4>3. \A l \in k + 1 .. j - 1 : r.kind \notin rules[l].paths
          BY <2>2, <4>1, <4>2, Zenon
        <4> QED BY <4>1, <4>2, <4>3, Zenon DEF Decides
      <3> QED BY <2>1, <2>3, <3>1, <3>2, <3>3, Zenon
    <2> QED BY <2>5, <2>6
  <1>4. \A n \in Nat : n \in T => n + 1 \in T
    <2> SUFFICES ASSUME NEW n \in Nat, n \in T, n + 1 <= m
                 PROVE  f[n + 1] <=> Decides(rules, m - (n + 1) + 1, r)
      OBVIOUS
    <2> HIDE DEF T
    <2> QED BY <1>3
  <1>5. m \in T
    <2> HIDE DEF T
    <2> QED BY <1>2, <1>4, Induction
  <1>6. m - m + 1 = 1 /\ m <= m
    OBVIOUS
  <1> QED BY <1>5, <1>6, Zenon

(* The first rule with the path decides.                                   *)
LEMMA LoopGrants ==
  ASSUME NEW entry, NEW r
  PROVE  ConfigAllowsAccess(entry, r) <=> Grants(entry, r)
  <1> DEFINE rules == IF entry \in DOMAIN SecurityConfig THEN SecurityConfig[entry] ELSE <<>>
             chosen == CHOOSE f : IsLoop(f, rules, r)
  <1>1. Len(rules) \in Nat
    <2>1. CASE entry \in DOMAIN SecurityConfig
      BY <2>1, ConfigAssumption
    <2>2. CASE entry \notin DOMAIN SecurityConfig
      <3>1. Len(<<>>) = 0
        OBVIOUS
      <3> QED BY <2>2, <3>1
    <2> QED BY <2>1, <2>2
  <1>2. ConfigAllowsAccess(entry, r) = chosen[Len(rules)]
    BY Zenon DEF ConfigAllowsAccess, IsLoop, Verdict
  <1>3. IsLoop(chosen, rules, r)
    <2> HIDE DEF rules
    <2> QED BY <1>1, LoopExists
  <1>4. chosen[Len(rules)] <=> Decides(rules, 1, r)
    <2> HIDE DEF rules, chosen
    <2> QED BY <1>1, <1>3, LoopDecides
  <1>5. Decides(rules, 1, r) <=> Grants(entry, r)
    <2>1. CASE entry \in DOMAIN SecurityConfig
      <3>1. DOMAIN SecurityConfig[entry] = 1 .. Len(SecurityConfig[entry])
        BY <2>1, ConfigAssumption
      <3>2. rules = SecurityConfig[entry]
        BY <2>1
      <3> QED BY <2>1, <3>1, <3>2, Zenon DEF Decides, Grants
    <2>2. CASE entry \notin DOMAIN SecurityConfig
      <3>1. 1 .. Len(<<>>) = {}
        OBVIOUS
      <3>2. rules = <<>>
        BY <2>2
      <3> QED BY <2>2, <3>1, <3>2, Zenon DEF Decides, Grants
    <2> QED BY <2>1, <2>2
  <1> QED BY <1>2, <1>4, <1>5, Zenon

(* What the middleware lets pass is what the configuration grants.          *)
RulesPermit(key, r) ==
  \/ ConfigAllowsAccess("no-auth", r)
  \/ KnownKey(key) /\ (ConfigAllowsAccess("valid-auth", r) \/ ConfigAllowsAccess(key, r))

LEMMA RulesGrant ==
  ASSUME NEW key, NEW r
  PROVE  RulesPermit(key, r) <=> \E entry \in Entries(key) : Grants(entry, r)
  <1>1. \A entry : ConfigAllowsAccess(entry, r) <=> Grants(entry, r)
    BY LoopGrants
  <1>2. KnownKey(key) <=> key \in (DOMAIN SecurityConfig \cup Inherited) \ {"no-auth", "valid-auth"}
    BY ConfigAssumption DEF KnownKey
  <1>3. CASE KnownKey(key)
    <2>1. Entries(key) = {"no-auth", "valid-auth", key}
      BY <1>2, <1>3 DEF Entries
    <2> QED BY <1>1, <1>3, <2>1, Zenon DEF RulesPermit
  <1>4. CASE ~ KnownKey(key)
    <2>1. Entries(key) = {"no-auth"}
      BY <1>2, <1>4 DEF Entries
    <2> QED BY <1>1, <1>4, <2>1, Zenon DEF RulesPermit
  <1> QED BY <1>3, <1>4

(* Callers of a secured service are permitted what the rules permit.        *)
LEMMA RulesMean ==
  ASSUME deployment \in Deployments, deployment.secured, NEW x, x.caller \in Callers,
         x.step \in DOMAIN deployment.program[x.caller]
  PROVE  Allowed(x) <=> RulesPermit(ApiKey(x.caller), Of(x))
  <1>1. Authenticator(x.caller) = "McmaApiKey"
    BY DeploymentsAssumption DEF Authenticator
  <1>2. Allowed(x) <=> \E entry \in Entries(ApiKey(x.caller)) : Grants(entry, Of(x))
    BY <1>1, DeploymentsAssumption DEF Allowed, ApiKey, Of, Request
  <1> QED BY <1>2, RulesGrant

LEMMA SecuredOk ==
  ASSUME deployment \in Deployments, deployment.secured, NEW x, IsExecution(x),
         x.caller \in Callers, x.step \in DOMAIN deployment.program[x.caller], NEW F
  PROVE  LET y == Secured(x) IN Continues(x, y) /\ HandlingOk(y, F) /\ AccessOk(y)
  <1> DEFINE key == ApiKey(x.caller)
             r == Of(x)
             y == Secured(x)
  <1>1. ASSUME RulesPermit(key, r)
        PROVE  Continues(x, y) /\ HandlingOk(y, F) /\ AccessOk(y)
    <2>1. y = Process(x)
      BY <1>1 DEF Secured, RulesPermit
    <2>2. Allowed(x)
      BY <1>1, RulesMean
    <2> QED BY <2>1, <2>2, Processed, RoutedOk DEF Continues
  <1>2. ASSUME ~ RulesPermit(key, r)
        PROVE  Continues(x, y) /\ HandlingOk(y, F) /\ AccessOk(y)
    <2>1. PICK status \in {401, 403} : y = Responding(x, Answer(status))
      BY <1>2 DEF Secured, RulesPermit
    <2>2. IsAnswer(Answer(status)) /\ Answer(status).status = status
      BY AnswerIs
    <2>3. Continues(x, y) /\ y.at = "respond" /\ y.answer.status = status
      BY <2>1, <2>2, Responded DEF Continues
    <2>4. ~ Allowed(x)
      BY <1>2, RulesMean
    <2>5. Of(y) = Of(x) /\ ~ Allowed(y)
      BY <2>3, <2>4 DEF Continues, Follows, Of, Allowed
    <2>6. HandlingOk(y, F)
      BY <2>3, <2>5 DEF HandlingOk
    <2>7. AccessOk(y)
      BY <2>3, <2>5 DEF AccessOk
    <2> QED BY <2>3, <2>6, <2>7
  <1> QED BY <1>1, <1>2

LEMMA HandleRequestOk ==
  ASSUME deployment \in Deployments, NEW x, IsExecution(x), x.caller \in Callers,
         x.step \in DOMAIN deployment.program[x.caller], NEW F
  PROVE  LET y == HandleRequest(x) IN Continues(x, y) /\ HandlingOk(y, F) /\ AccessOk(y)
  <1>1. CASE ~ deployment.secured
    <2>1. HandleRequest(x) = Process(x)
      BY <1>1 DEF HandleRequest
    <2> QED BY <1>1, <2>1, Processed, RoutedOk DEF Continues
  <1>2. CASE deployment.secured /\ loaded
    <2>1. HandleRequest(x) = Secured(x)
      BY <1>2 DEF HandleRequest
    <2> QED BY <1>2, <2>1, SecuredOk
  <1>3. CASE deployment.secured /\ ~ loaded
    <2> DEFINE y == [x EXCEPT !.at = "secret"]
    <2>1. HandleRequest(x) = y
      BY <1>3 DEF HandleRequest
    <2>2. Continues(x, y) /\ y.at = "secret"
      BY Moved DEF Continues
    <2> HIDE DEF y
    <2>3. HandlingOk(y, F) /\ AccessOk(y)
      BY <1>3, <2>2 DEF HandlingOk, AccessOk, Awaits
    <2> QED BY <2>1, <2>2, <2>3
  <1> QED BY <1>1, <1>2, <1>3

-----------------------------------------------------------------------------
(* Counting the attempts of a create.                                      *)

LEMMA Shrinks ==
  ASSUME NEW S, NEW T, IsFiniteSet(S), T \subseteq S
  PROVE  IsFiniteSet(T) /\ Cardinality(T) \in Nat /\ Cardinality(S) \in Nat
           /\ Cardinality(T) <= Cardinality(S)
  BY FS_Subset, FS_CardinalityType

LEMMA GrowsByOne ==
  ASSUME NEW S, NEW T, NEW e, IsFiniteSet(S), T \subseteq S \cup {e}
  PROVE  IsFiniteSet(T) /\ Cardinality(T) \in Nat /\ Cardinality(S) \in Nat
           /\ Cardinality(T) <= Cardinality(S) + 1
  <1>1. IsFiniteSet(S \cup {e}) /\ Cardinality(S \cup {e}) <= Cardinality(S) + 1
          /\ Cardinality(S) \in Nat /\ Cardinality(S \cup {e}) \in Nat
    BY FS_AddElement, FS_CardinalityType
  <1>2. IsFiniteSet(T) /\ Cardinality(T) \in Nat /\ Cardinality(T) <= Cardinality(S \cup {e})
    BY <1>1, Shrinks
  <1> QED BY <1>1, <1>2

LEMMA ShrinksByOne ==
  ASSUME NEW S, NEW T, NEW e \in S, IsFiniteSet(S), T \subseteq S \ {e}
  PROVE  IsFiniteSet(T) /\ Cardinality(T) \in Nat /\ Cardinality(S) \in Nat
           /\ Cardinality(T) + 1 <= Cardinality(S)
  <1>1. IsFiniteSet(S \ {e}) /\ Cardinality(S \ {e}) = Cardinality(S) - 1
          /\ Cardinality(S) \in Nat /\ Cardinality(S \ {e}) \in Nat
    BY FS_RemoveElement, FS_CardinalityType
  <1>2. IsFiniteSet(T) /\ Cardinality(T) \in Nat /\ Cardinality(T) <= Cardinality(S \ {e})
    BY <1>1, Shrinks
  <1> QED BY <1>1, <1>2

Waits(x) == x.at \in {"secret", "create"}

(* An execution goes on without an effect.                                 *)
LEMMA ReplacedCount ==
  ASSUME NEW E, IsFiniteSet(E), NEW x \in E, NEW y, Follows(x, y), Waits(y) => Waits(x),
         NEW c, NEW step
  PROVE  LET U == Unspent((E \ {x}) \cup {y}, c, step)
         IN  /\ Cardinality(U) \in Nat /\ Cardinality(Unspent(E, c, step)) \in Nat
             /\ Cardinality(U) <= Cardinality(Unspent(E, c, step))
  <1> DEFINE U == Unspent((E \ {x}) \cup {y}, c, step)
             V == Unspent(E, c, step)
  <1>1. IsFiniteSet(V) /\ V \subseteq E
    <2>1. V \subseteq E
      BY DEF Unspent
    <2> QED BY <2>1, Shrinks
  <1>2. CASE y \in U
    <2>1. x \in V
      BY <1>2 DEF Unspent, Follows, Waits
    <2>2. U \subseteq (V \ {x}) \cup {y}
      BY DEF Unspent
    <2>3. IsFiniteSet(V \ {x}) /\ Cardinality(V \ {x}) + 1 <= Cardinality(V)
            /\ Cardinality(V \ {x}) \in Nat /\ Cardinality(V) \in Nat
      BY <1>1, <2>1, ShrinksByOne
    <2>4. Cardinality(U) <= Cardinality(V \ {x}) + 1 /\ Cardinality(U) \in Nat
      <3> HIDE DEF U, V
      <3> QED BY <2>2, <2>3, GrowsByOne
    <2> QED BY <2>3, <2>4
  <1>3. CASE y \notin U
    <2>1. U \subseteq V
      BY <1>3 DEF Unspent
    <2> QED BY <1>1, <2>1, Shrinks
  <1> QED BY <1>2, <1>3

(* An execution takes effect, or ends.                                     *)
LEMMA SpentCount ==
  ASSUME NEW E, IsFiniteSet(E), NEW x \in E, x.at = "create", NEW y, ~ Waits(y)
  PROVE  LET U == Unspent((E \ {x}) \cup {y}, x.caller, x.step)
         IN  /\ Cardinality(U) \in Nat /\ Cardinality(Unspent(E, x.caller, x.step)) \in Nat
             /\ Cardinality(U) + 1 <= Cardinality(Unspent(E, x.caller, x.step))
  <1> DEFINE U == Unspent((E \ {x}) \cup {y}, x.caller, x.step)
             V == Unspent(E, x.caller, x.step)
  <1>1. IsFiniteSet(V) /\ x \in V
    <2>1. V \subseteq E /\ x \in V
      BY DEF Unspent
    <2> QED BY <2>1, Shrinks
  <1>2. U \subseteq V \ {x}
    BY DEF Unspent, Waits
  <1>3. Cardinality(U) \in Nat /\ Cardinality(V) \in Nat /\ Cardinality(U) + 1 <= Cardinality(V)
    <2> HIDE DEF U, V
    <2> QED BY <1>1, <1>2, ShrinksByOne
  <1> QED BY <1>3

LEMMA SmallerCount ==
  ASSUME NEW E, IsFiniteSet(E), NEW D, D \subseteq E, NEW c, NEW step
  PROVE  /\ Cardinality(Unspent(D, c, step)) \in Nat
         /\ Cardinality(Unspent(E, c, step)) \in Nat
         /\ Cardinality(Unspent(D, c, step)) <= Cardinality(Unspent(E, c, step))
  <1>1. Unspent(E, c, step) \subseteq E /\ Unspent(D, c, step) \subseteq Unspent(E, c, step)
    BY DEF Unspent
  <1> QED BY <1>1, Shrinks

LEMMA LargerCount ==
  ASSUME NEW E, IsFiniteSet(E), NEW y, NEW c, NEW step
  PROVE  LET U == Unspent(E \cup {y}, c, step)
         IN  /\ Cardinality(U) \in Nat /\ Cardinality(Unspent(E, c, step)) \in Nat
             /\ Cardinality(U) <= Cardinality(Unspent(E, c, step)) + 1
             /\ y.caller # c \/ y.step # step =>
                  Cardinality(U) = Cardinality(Unspent(E, c, step))
  <1> DEFINE U == Unspent(E \cup {y}, c, step)
             V == Unspent(E, c, step)
  <1>1. V \subseteq E /\ U \subseteq V \cup {y} /\ (y.caller # c \/ y.step # step => U = V)
    BY DEF Unspent
  <1>2. IsFiniteSet(V)
    BY <1>1, Shrinks
  <1> QED BY <1>1, <1>2, GrowsByOne

LEMMA WrittenCount ==
  ASSUME NEW F, IsFiniteSet(F), NEW e, NEW c, NEW step
  PROVE  LET W == Written(F \cup {e}, c, step)
         IN  /\ Cardinality(W) \in Nat /\ Cardinality(Written(F, c, step)) \in Nat
             /\ Cardinality(W) <= Cardinality(Written(F, c, step)) + 1
             /\ e.caller # c \/ e.step # step =>
                  Cardinality(W) = Cardinality(Written(F, c, step))
  <1> DEFINE W == Written(F \cup {e}, c, step)
             V == Written(F, c, step)
  <1>1. V \subseteq F /\ W \subseteq V \cup {e} /\ (e.caller # c \/ e.step # step => W = V)
    BY DEF Written
  <1>2. IsFiniteSet(V)
    BY <1>1, Shrinks
  <1> QED BY <1>1, <1>2, GrowsByOne

-----------------------------------------------------------------------------
(* A caller goes on while nothing is executed for it.                      *)

Updated(C, c, r) == [d \in Callers |-> IF d = c THEN r ELSE C[d]]
Appended(O, c, result) == [O EXCEPT ![c] = Append(@, result)]

LEMMA PrefixKept ==
  ASSUME NEW S, NEW s \in Seq(S), NEW e \in S, NEW k \in 0 .. Len(s)
  PROVE  SubSeq(Append(s, e), 1, k) = SubSeq(s, 1, k)
  OBVIOUS

LEMMA AppendedIs ==
  ASSUME NEW O \in [Callers -> Seq(Results)], NEW c \in Callers, NEW result \in Results
  PROVE  LET P == Appended(O, c, result)
         IN  /\ P \in [Callers -> Seq(Results)]
             /\ P[c] = Append(O[c], result)
             /\ \A d \in Callers \ {c} : P[d] = O[d]
             /\ Len(P[c]) = Len(O[c]) + 1 /\ Len(O[c]) \in Nat
             /\ \A k \in 1 .. Len(O[c]) : P[c][k] = O[c][k]
             /\ P[c][Len(O[c]) + 1] = result
  BY DEF Appended

LEMMA BelongsKept ==
  ASSUME NEW C, NEW O \in [Callers -> Seq(Results)], NEW c \in Callers, NEW x,
         BelongsOk(x, C, O), x.orphan \/ x.caller # c,
         NEW B, \A d \in Callers \ {c} : B[d] = C[d],
         NEW P, P = O \/ \E result \in Results : P = Appended(O, c, result)
  PROVE  BelongsOk(x, B, P)
  <1>1. CASE x.caller # c
    <2>1. P[x.caller] = O[x.caller] /\ B[x.caller] = C[x.caller]
      BY <1>1, AppendedIs DEF BelongsOk
    <2> QED BY <2>1 DEF BelongsOk
  <1>2. CASE x.caller = c /\ P = O
    BY <1>2 DEF BelongsOk
  <1>3. ASSUME x.caller = c, NEW result \in Results, P = Appended(O, c, result)
        PROVE  BelongsOk(x, B, P)
    <2>1. P[c] = Append(O[c], result) /\ Len(P[c]) = Len(O[c]) + 1 /\ Len(O[c]) \in Nat
      <3>1. Appended(O, c, result)[c] = Append(O[c], result)
              /\ Len(Appended(O, c, result)[c]) = Len(O[c]) + 1 /\ Len(O[c]) \in Nat
        BY AppendedIs
      <3> QED BY <1>3, <3>1
    <2>2. x.step \in 1 .. Len(O[c]) + 1 /\ x.orphan
      BY <1>3 DEF BelongsOk
    <2>3. SubSeq(P[c], 1, x.step - 1) = SubSeq(O[c], 1, x.step - 1)
      <3>1. O[c] \in Seq(Results) /\ x.step - 1 \in 0 .. Len(O[c])
        BY <2>1, <2>2
      <3> QED BY <2>1, <3>1, PrefixKept
    <2>4. x.step \in 1 .. Len(P[c]) + 1
      BY <2>1, <2>2
    <2> QED BY <1>3, <2>2, <2>3, <2>4 DEF BelongsOk
  <1> QED BY <1>1, <1>2, <1>3

LEMMA NotAwaited ==
  ASSUME NEW C, NEW O, NEW E, NEW F, ExecutionsInv(C, O, E, F), NEW c, C[c].pc # "sent",
         NEW x \in E
  PROVE  x.orphan \/ x.caller # c
  BY DEF ExecutionsInv, ExecutionOk, BelongsOk

Inv(C, O, E, F) == ClientInv(C, O) /\ ExecutionsInv(C, O, E, F) /\ AttemptsInv(C, O, E, F)

LEMMA MadeIs ==
  ASSUME NEW C, NEW O, ClientInv(C, O), NEW c \in Callers, NEW step
  PROVE  /\ Made(C, O, c, step) \in Int /\ Made(C, O, c, step) <= MaxAttempts
         /\ Credit(C[c]) \in Int /\ Credit(C[c]) <= MaxAttempts
  <1>1. C[c].attempt \in Nat /\ CallOk(C[c], O[c], c) /\ MaxAttempts \in Nat
    BY ClientAssumption DEF ClientInv, CallOk
  <1>2. Credit(C[c]) \in Int /\ Credit(C[c]) <= MaxAttempts
    BY <1>1 DEF Credit, CallOk
  <1> QED BY <1>1, <1>2 DEF Made

(* The callers made more attempts of the creates, the executions are the    *)
(* same.                                                                   *)
LEMMA MoreMade ==
  ASSUME NEW C, NEW O, NEW E, NEW F, ClientInv(C, O), AttemptsInv(C, O, E, F),
         NEW B, NEW P, ClientInv(B, P),
         \A d \in Callers : \A step \in Nat \ {0} :
           MethodOf(d, step) = "POST" => Made(C, O, d, step) <= Made(B, P, d, step)
  PROVE  AttemptsInv(B, P, E, F)
  <1>1. ASSUME NEW d \in Callers, NEW step \in Nat \ {0}, MethodOf(d, step) = "POST"
        PROVE  AttemptsOk(B, P, E, F, d, step)
    <2>1. AttemptsOk(C, O, E, F, d, step) /\ Made(C, O, d, step) <= Made(B, P, d, step)
      BY <1>1 DEF AttemptsInv
    <2>2. Made(C, O, d, step) \in Int /\ Made(B, P, d, step) \in Int
      BY MadeIs
    <2>3. Cardinality(Written(F, d, step)) \in Nat /\ Cardinality(Unspent(E, d, step)) \in Nat
      <3>1. Written(F, d, step) \subseteq F /\ Unspent(E, d, step) \subseteq E
        BY DEF Written, Unspent
      <3> QED BY <3>1, Shrinks DEF AttemptsInv
    <2> QED BY <2>1, <2>2, <2>3 DEF AttemptsOk
  <1> QED BY <1>1 DEF AttemptsInv

LEMMA MoveKeeps ==
  ASSUME NEW C, NEW O, NEW E, NEW F, Inv(C, O, E, F), NEW c \in Callers,
         \A x \in E : x.orphan \/ x.caller # c,
         C[c].pc # "failed", NEW r, CallOk(r, O[c], c), r.pc # "failed",
         MethodOf(c, Len(O[c]) + 1) = "POST" => Credit(C[c]) <= Credit(r)
  PROVE  Inv(Updated(C, c, r), O, E, F)
  <1> DEFINE B == Updated(C, c, r)
  <1>1. B[c] = r /\ \A d \in Callers \ {c} : B[d] = C[d]
    BY DEF Updated
  <1>2. O \in [Callers -> Seq(Results)]
    BY DEF Inv, ClientInv
  <1>3. ClientInv(B, O)
    <2>1. B = [d \in Callers |-> B[d]]
      BY DEF Updated
    <2>2. ASSUME NEW d \in Callers
          PROVE  CallOk(B[d], O[d], d) /\ Succeeded(B[d], O[d], d)
      <3>1. CASE d = c
        BY <1>1, <3>1 DEF Inv, ClientInv, Succeeded
      <3>2. CASE d # c
        BY <1>1, <3>2 DEF Inv, ClientInv
      <3> QED BY <3>1, <3>2
    <2> HIDE DEF B
    <2> QED BY <1>2, <2>1, <2>2 DEF ClientInv
  <1>4. ExecutionsInv(B, O, E, F)
    <2>1. ASSUME NEW x \in E PROVE ExecutionOk(x, B, O, F)
      <3>1. BelongsOk(x, C, O) /\ HandlingOk(x, F) /\ AccessOk(x)
        BY DEF Inv, ExecutionsInv, ExecutionOk
      <3>2. BelongsOk(x, B, O)
        <4> HIDE DEF B
        <4> QED BY <1>1, <1>2, <3>1, BelongsKept
      <3> QED BY <3>1, <3>2 DEF ExecutionOk
    <2> QED BY <2>1 DEF Inv, ExecutionsInv
  <1>5. AttemptsInv(B, O, E, F)
    <2>1. ASSUME NEW d \in Callers, NEW step \in Nat \ {0}, MethodOf(d, step) = "POST"
          PROVE  Made(C, O, d, step) <= Made(B, O, d, step)
      <3>1. Made(C, O, d, step) \in Int /\ Made(B, O, d, step) \in Int
        BY <1>3, MadeIs DEF Inv
      <3> HIDE DEF B
      <3>2. CASE d # c
        BY <1>1, <3>1, <3>2 DEF Made
      <3>3. CASE d = c
        BY <1>1, <3>1, <3>3, <2>1 DEF Made
      <3> QED BY <3>2, <3>3
    <2> HIDE DEF B
    <2> QED BY <1>3, <2>1, MoreMade DEF Inv
  <1> QED BY <1>3, <1>4, <1>5 DEF Inv

LEMMA ConcludeKeeps ==
  ASSUME NEW C, NEW O, NEW E, NEW F, Inv(C, O, E, F), NEW c \in Callers,
         \A x \in E : x.orphan \/ x.caller # c,
         C[c].pc # "failed", NEW r, IsCall(r), r.attempt \in Nat, HeadersOk(r, c),
         NEW result \in Results, result.status = 201 => result.id \in Ids,
         \/ r.pc = "failed"
         \/ r.pc = "idle" /\ (MethodOf(c, Len(O[c]) + 1) = "POST" => result.status = 201)
  PROVE  Inv(Updated(C, c, r), Appended(O, c, result), E, F)
  <1> DEFINE B == Updated(C, c, r)
             P == Appended(O, c, result)
  <1>1. B[c] = r /\ \A d \in Callers \ {c} : B[d] = C[d]
    BY DEF Updated
  <1>2. O \in [Callers -> Seq(Results)]
    BY DEF Inv, ClientInv
  <1>3. /\ P \in [Callers -> Seq(Results)]
        /\ \A d \in Callers \ {c} : P[d] = O[d]
        /\ Len(P[c]) = Len(O[c]) + 1 /\ Len(O[c]) \in Nat
        /\ \A k \in 1 .. Len(O[c]) : P[c][k] = O[c][k]
        /\ P[c][Len(O[c]) + 1] = result
    BY <1>2, AppendedIs
  <1> HIDE DEF P
  <1>4. ClientInv(B, P)
    <2>1. B = [d \in Callers |-> B[d]]
      BY DEF Updated
    <2> HIDE DEF B
    <2>2. ASSUME NEW d \in Callers
          PROVE  CallOk(B[d], P[d], d) /\ Succeeded(B[d], P[d], d)
      <3>1. CASE d = c
        <4>1. CallOk(r, P[c], c)
          BY DEF CallOk
        <4>2. ASSUME NEW k \in DOMAIN P[c]
              PROVE  /\ (k < Len(P[c]) \/ r.pc # "failed") /\ MethodOf(c, k) = "POST"
                          => P[c][k].status = 201
                     /\ P[c][k].status = 201 => P[c][k].id \in Ids
          <5>1. P[c] \in Seq(Results) /\ O[c] \in Seq(Results)
            BY <1>2, <1>3
          <5>2. k \in 1 .. Len(O[c]) + 1 /\ DOMAIN O[c] = 1 .. Len(O[c])
            BY <1>3, <5>1
          <5>3. CASE k \in 1 .. Len(O[c])
            <6>1. /\ C[c].pc # "failed" /\ MethodOf(c, k) = "POST" => O[c][k].status = 201
                  /\ O[c][k].status = 201 => O[c][k].id \in Ids
              BY <5>2, <5>3 DEF Inv, ClientInv, Succeeded
            <6> QED BY <1>3, <5>3, <6>1
          <5>4. CASE k = Len(O[c]) + 1
            BY <1>3, <5>4
          <5> QED BY <5>2, <5>3, <5>4
        <4> QED BY <1>1, <3>1, <4>1, <4>2 DEF Succeeded
      <3>2. CASE d # c
        BY <1>1, <1>3, <3>2 DEF Inv, ClientInv
      <3> QED BY <3>1, <3>2
    <2> QED BY <1>3, <2>1, <2>2 DEF ClientInv
  <1> HIDE DEF B
  <1>5. ExecutionsInv(B, P, E, F)
    <2>1. ASSUME NEW x \in E PROVE ExecutionOk(x, B, P, F)
      <3>1. BelongsOk(x, C, O) /\ HandlingOk(x, F) /\ AccessOk(x)
        BY DEF Inv, ExecutionsInv, ExecutionOk
      <3>2. BelongsOk(x, B, P)
        <4>1. P = O \/ \E q \in Results : P = Appended(O, c, q)
          BY DEF P
        <4> QED BY <1>1, <1>2, <3>1, <4>1, BelongsKept
      <3> QED BY <3>1, <3>2 DEF ExecutionOk
    <2> QED BY <2>1 DEF Inv, ExecutionsInv
  <1>6. AttemptsInv(B, P, E, F)
    <2>1. ASSUME NEW d \in Callers, NEW step \in Nat \ {0}
          PROVE  Made(C, O, d, step) <= Made(B, P, d, step)
      <3>1. /\ Made(C, O, d, step) \in Int /\ Made(B, P, d, step) \in Int
            /\ Credit(C[d]) <= MaxAttempts /\ Credit(C[d]) \in Int /\ MaxAttempts \in Nat
        BY <1>4, MadeIs, ClientAssumption DEF Inv
      <3>2. CASE d # c
        BY <1>1, <1>3, <3>1, <3>2 DEF Made
      <3>3. CASE d = c
        <4>1. Credit(r) = 0
          BY DEF Credit
        <4> QED BY <1>1, <1>3, <3>1, <3>3, <4>1 DEF Made
      <3> QED BY <3>2, <3>3
    <2> QED BY <1>4, <2>1, MoreMade DEF Inv
  <1> QED BY <1>4, <1>5, <1>6 DEF Inv, B, P

-----------------------------------------------------------------------------
(* An execution ends, is orphaned, goes on, or begins.                     *)

LEMMA FewerKeep ==
  ASSUME NEW C, NEW O, NEW E, NEW F, Inv(C, O, E, F), NEW D, D \subseteq E
  PROVE  Inv(C, O, D, F)
  <1>1. ExecutionsInv(C, O, D, F)
    BY DEF Inv, ExecutionsInv, Single
  <1>2. AttemptsInv(C, O, D, F)
    <2>1. IsFiniteSet(D)
      BY FS_Subset DEF Inv, AttemptsInv
    <2>2. ASSUME NEW d \in Callers, NEW step \in Nat \ {0}, MethodOf(d, step) = "POST"
          PROVE  AttemptsOk(C, O, D, F, d, step)
      <3>1. AttemptsOk(C, O, E, F, d, step) /\ IsFiniteSet(E) /\ IsFiniteSet(F)
        BY <2>2 DEF Inv, AttemptsInv
      <3>2. Cardinality(Unspent(D, d, step)) \in Nat /\ Cardinality(Unspent(E, d, step)) \in Nat
              /\ Cardinality(Unspent(D, d, step)) <= Cardinality(Unspent(E, d, step))
        BY <3>1, SmallerCount
      <3>3. Cardinality(Written(F, d, step)) \in Nat
        <4>1. Written(F, d, step) \subseteq F
          BY DEF Written
        <4> QED BY <3>1, <4>1, Shrinks
      <3>4. Made(C, O, d, step) \in Int
        BY MadeIs DEF Inv
      <3> QED BY <3>1, <3>2, <3>3, <3>4 DEF AttemptsOk
    <2> QED BY <2>1, <2>2 DEF Inv, AttemptsInv
  <1> QED BY <1>1, <1>2 DEF Inv

(* The writes are the same.                                                *)
LEMMA ReplaceKeeps ==
  ASSUME NEW C, NEW O, NEW E, NEW F, Inv(C, O, E, F), NEW x \in E,
         NEW y, Follows(x, y), ExecutionOk(y, C, O, F), Waits(y) => Waits(x),
         y.orphan \/ ~ x.orphan
  PROVE  Inv(C, O, (E \ {x}) \cup {y}, F)
  <1> DEFINE D == (E \ {x}) \cup {y}
  <1>1. ExecutionsInv(C, O, D, F)
    <2>1. Single(D)
      BY DEF Inv, ExecutionsInv, Single, Follows
    <2> QED BY <2>1 DEF Inv, ExecutionsInv
  <1>2. IsFiniteSet(E) /\ IsFiniteSet(F) /\ IsFiniteSet(D)
    BY FS_RemoveElement, FS_AddElement DEF Inv, AttemptsInv
  <1>3. ASSUME NEW d \in Callers, NEW step \in Nat \ {0}, MethodOf(d, step) = "POST"
        PROVE  AttemptsOk(C, O, D, F, d, step)
    <2>1. AttemptsOk(C, O, E, F, d, step)
      BY <1>3 DEF Inv, AttemptsInv
    <2>2. Cardinality(Unspent(D, d, step)) \in Nat /\ Cardinality(Unspent(E, d, step)) \in Nat
            /\ Cardinality(Unspent(D, d, step)) <= Cardinality(Unspent(E, d, step))
      BY <1>2, ReplacedCount
    <2>3. Cardinality(Written(F, d, step)) \in Nat
      <3>1. Written(F, d, step) \subseteq F
        BY DEF Written
      <3> QED BY <1>2, <3>1, Shrinks
    <2>4. Made(C, O, d, step) \in Int
      BY MadeIs DEF Inv
    <2> HIDE DEF D
    <2> QED BY <2>1, <2>2, <2>3, <2>4 DEF AttemptsOk
  <1> HIDE DEF D
  <1>4. Inv(C, O, D, F)
    BY <1>1, <1>2, <1>3 DEF Inv, AttemptsInv
  <1> QED BY <1>4 DEF D

(* A write takes effect.                                                   *)
LEMMA EffectKeeps ==
  ASSUME NEW C, NEW O, NEW E, NEW F, Inv(C, O, E, F), NEW x \in E,
         NEW e, e.caller = x.caller, e.step = x.step,
         NEW y, Follows(x, y), ExecutionOk(y, C, O, F \cup {e}), ~ Waits(y),
         Of(x).method = "POST" => x.at = "create", y.orphan \/ ~ x.orphan
  PROVE  Inv(C, O, (E \ {x}) \cup {y}, F \cup {e})
  <1> DEFINE D == (E \ {x}) \cup {y}
             G == F \cup {e}
  <1>1. ExecutionsInv(C, O, D, G)
    <2>1. Single(D)
      BY DEF Inv, ExecutionsInv, Single, Follows
    <2>2. ASSUME NEW z \in E PROVE ExecutionOk(z, C, O, G)
      <3>1. ExecutionOk(z, C, O, F)
        BY DEF Inv, ExecutionsInv
      <3>2. Written(F, z.caller, z.step) \subseteq Written(G, z.caller, z.step)
        BY DEF Written
      <3>3. HandlingOk(z, G)
        <4> HIDE DEF G
        <4> QED BY <3>1, <3>2 DEF ExecutionOk, HandlingOk
      <3> QED BY <3>1, <3>3 DEF ExecutionOk
    <2> QED BY <2>1, <2>2 DEF ExecutionsInv
  <1>2. IsFiniteSet(E) /\ IsFiniteSet(F) /\ IsFiniteSet(D) /\ IsFiniteSet(G)
    BY FS_RemoveElement, FS_AddElement DEF Inv, AttemptsInv
  <1>3. ASSUME NEW d \in Callers, NEW step \in Nat \ {0}, MethodOf(d, step) = "POST"
        PROVE  AttemptsOk(C, O, D, G, d, step)
    <2>1. AttemptsOk(C, O, E, F, d, step) /\ Made(C, O, d, step) \in Int
      BY <1>3, MadeIs DEF Inv, AttemptsInv
    <2>2. /\ Cardinality(Written(G, d, step)) \in Nat /\ Cardinality(Written(F, d, step)) \in Nat
          /\ Cardinality(Written(G, d, step)) <= Cardinality(Written(F, d, step)) + 1
          /\ x.caller # d \/ x.step # step =>
               Cardinality(Written(G, d, step)) = Cardinality(Written(F, d, step))
      BY <1>2, WrittenCount
    <2>3. CASE x.caller = d /\ x.step = step
      <3>1. x.at = "create"
        BY <1>3, <2>3 DEF Of, MethodOf
      <3>2. Cardinality(Unspent(D, d, step)) \in Nat /\ Cardinality(Unspent(E, d, step)) \in Nat
              /\ Cardinality(Unspent(D, d, step)) + 1 <= Cardinality(Unspent(E, d, step))
        BY <1>2, <2>3, <3>1, SpentCount
      <3> HIDE DEF D, G
      <3> QED BY <2>1, <2>2, <3>2 DEF AttemptsOk
    <2>4. CASE x.caller # d \/ x.step # step
      <3>1. Cardinality(Unspent(D, d, step)) \in Nat /\ Cardinality(Unspent(E, d, step)) \in Nat
              /\ Cardinality(Unspent(D, d, step)) <= Cardinality(Unspent(E, d, step))
        BY <1>2, ReplacedCount
      <3> HIDE DEF D, G
      <3> QED BY <2>1, <2>2, <2>4, <3>1 DEF AttemptsOk
    <2> QED BY <2>3, <2>4
  <1> HIDE DEF D, G
  <1>4. Inv(C, O, D, G)
    BY <1>1, <1>2, <1>3 DEF Inv, AttemptsInv
  <1> QED BY <1>4 DEF D, G

(* An attempt is sent.                                                     *)
LEMMA SendKeeps ==
  ASSUME NEW C, NEW O, NEW E, NEW F, Inv(C, O, E, F), NEW c \in Callers,
         C[c].pc \in {"sign", "token"}, NEW r, IsCall(r), r.pc = "sent",
         r.attempt = C[c].attempt, HeadersOk(r, c),
         NEW y, y.caller = c, y.step = Len(O[c]) + 1, ~ y.orphan,
         ExecutionOk(y, Updated(C, c, r), O, F)
  PROVE  Inv(Updated(C, c, r), O, E \cup {y}, F)
  <1> DEFINE B == Updated(C, c, r)
             D == E \cup {y}
  <1>1. B[c] = r /\ \A d \in Callers \ {c} : B[d] = C[d]
    BY DEF Updated
  <1>2. \A x \in E : x.orphan \/ x.caller # c
    BY NotAwaited DEF Inv
  <1>3. C[c].attempt \in 1 .. MaxAttempts /\ MaxAttempts \in Nat
    BY ClientAssumption DEF Inv, ClientInv, CallOk
  <1>4. CallOk(r, O[c], c) /\ Credit(r) = Credit(C[c]) + 1 /\ Credit(C[c]) \in Nat
    <2>1. CallOk(C[c], O[c], c)
      BY DEF Inv, ClientInv
    <2> QED BY <1>3, <2>1 DEF CallOk, Credit
  <1>5. Inv(B, O, E, F)
    BY <1>2, <1>4, MoveKeeps
  <1> HIDE DEF B
  <1>6. ExecutionsInv(B, O, D, F)
    <2>1. Single(D)
      BY <1>2 DEF Inv, ExecutionsInv, Single
    <2> QED BY <2>1, <1>5 DEF Inv, ExecutionsInv, B
  <1>7. IsFiniteSet(E) /\ IsFiniteSet(F) /\ IsFiniteSet(D)
    BY FS_AddElement DEF Inv, AttemptsInv
  <1>8. ASSUME NEW d \in Callers, NEW step \in Nat \ {0}, MethodOf(d, step) = "POST"
        PROVE  AttemptsOk(B, O, D, F, d, step)
    <2>1. /\ AttemptsOk(C, O, E, F, d, step) /\ AttemptsOk(B, O, E, F, d, step)
          /\ Made(C, O, d, step) \in Int /\ Made(B, O, d, step) \in Int
      BY <1>5, <1>8, MadeIs DEF Inv, AttemptsInv
    <2>2. /\ Cardinality(Unspent(D, d, step)) \in Nat /\ Cardinality(Unspent(E, d, step)) \in Nat
          /\ Cardinality(Unspent(D, d, step)) <= Cardinality(Unspent(E, d, step)) + 1
          /\ c # d \/ Len(O[c]) + 1 # step =>
               Cardinality(Unspent(D, d, step)) = Cardinality(Unspent(E, d, step))
      BY <1>7, LargerCount
    <2>3. Cardinality(Written(F, d, step)) \in Nat
      <3>1. Written(F, d, step) \subseteq F
        BY DEF Written
      <3> QED BY <1>7, <3>1, Shrinks
    <2> HIDE DEF D
    <2>4. CASE c = d /\ Len(O[c]) + 1 = step
      <3>1. Made(B, O, d, step) = Made(C, O, d, step) + 1
        <4>1. O[c] \in Seq(Results) /\ Len(O[c]) \in Nat
          BY DEF Inv, ClientInv
        <4> QED BY <1>1, <1>4, <2>4, <4>1 DEF Made
      <3> QED BY <2>1, <2>2, <2>3, <3>1 DEF AttemptsOk
    <2>5. CASE c # d \/ Len(O[c]) + 1 # step
      BY <2>1, <2>2, <2>3, <2>5 DEF AttemptsOk
    <2> QED BY <2>4, <2>5
  <1> HIDE DEF D
  <1>9. Inv(B, O, D, F)
    BY <1>5, <1>6, <1>7, <1>8 DEF Inv, AttemptsInv
  <1> QED BY <1>9 DEF B, D

-----------------------------------------------------------------------------
(* The steps of the callers.                                               *)

CallFields == {"pc", "attempt", "headers", "wait"}

CallRecord(pc, attempt, headers, wait) ==
  [f \in CallFields |-> CASE f = "pc"      -> pc
                          [] f = "attempt" -> attempt
                          [] f = "headers" -> headers
                          [] f = "wait"    -> wait]

LEMMA CallRecordIs ==
  ASSUME NEW pc, NEW attempt, NEW headers, NEW wait
  PROVE  LET r == CallRecord(pc, attempt, headers, wait)
         IN  IsCall(r) /\ r.pc = pc /\ r.attempt = attempt /\ r.headers = headers
               /\ r.wait = wait
  <1>1. CallRecord(pc, attempt, headers, wait) =
          [pc |-> pc, attempt |-> attempt, headers |-> headers, wait |-> wait]
    BY DEF CallRecord, CallFields
  <1> QED BY <1>1 DEF IsCall

LEMMA CallFieldsAre ==
  ASSUME NEW r, IsCall(r)
  PROVE  DOMAIN r = CallFields
  BY DEF IsCall, CallFields

(* The promise of a caller settles: of the store, its request concludes.    *)
LEMMA SettlesKeeps ==
  ASSUME ServiceInv, NEW c \in Callers, NEW p \in {"idle", "failed"},
         call[c].pc # "failed", Step(c) \in DOMAIN deployment.program[c],
         NEW result \in Results, result.status = 201 => result.id \in Ids,
         p = "idle" /\ MethodOf(c, Step(c)) = "POST" => result.status = 201,
         call' = [call EXCEPT ![c].pc = p], outcome' = Appended(outcome, c, result),
         UNCHANGED effects,
         Inv(call, outcome, executions', effects),
         \A x \in executions' : x.orphan \/ x.caller # c
  PROVE  Inv(call', outcome', executions', effects')
  <1> DEFINE r == CallRecord(p, call[c].attempt, call[c].headers, call[c].wait)
  <1>1. IsCall(call[c]) /\ call[c].attempt \in Nat /\ call = [d \in Callers |-> call[d]]
          /\ HeadersOk(call[c], c)
    BY DEF ServiceInv, ClientInv, CallOk
  <1>2. call' = Updated(call, c, [call[c] EXCEPT !.pc = p])
    BY <1>1 DEF Updated
  <1>3. [call[c] EXCEPT !.pc = p] = r
    BY <1>1, CallFieldsAre DEF CallRecord, CallFields
  <1>4. call' = Updated(call, c, r)
    BY <1>2, <1>3
  <1>5. IsCall(r) /\ r.pc = p /\ r.attempt = call[c].attempt /\ r.headers = call[c].headers
    BY CallRecordIs
  <1> HIDE DEF r
  <1>6. \/ r.pc = "failed"
        \/ r.pc = "idle" /\ (MethodOf(c, Len(outcome[c]) + 1) = "POST" => result.status = 201)
    BY <1>5 DEF Step
  <1>7. Inv(Updated(call, c, r), Appended(outcome, c, result), executions', effects)
    <2>1. HeadersOk(r, c)
      BY <1>1, <1>5 DEF HeadersOk
    <2> QED BY <1>1, <1>5, <1>6, <2>1, ConcludeKeeps
  <1> QED BY <1>4, <1>7

LEMMA SettlesMaps ==
  ASSUME ServiceInv, NEW c \in Callers, Step(c) \in DOMAIN deployment.program[c],
         NEW result \in Results, outcome' = Appended(outcome, c, result),
         UNCHANGED <<deployment, table, effects>>,
         result.status \in {200, 201} =>
           /\ MethodOf(c, Step(c)) = "POST" =>
                \E e \in Written(effects, c, Step(c)) : e.id = result.id
           /\ MethodOf(c, Step(c)) \in {"PUT", "DELETE"} => Written(effects, c, Step(c)) # {}
  PROVE  Store!StoreNext
  <1>1. /\ Len(outcome'[c]) = Len(outcome[c]) + 1 /\ Len(outcome[c]) \in Nat
        /\ \A d \in Callers \ {c} : outcome'[d] = outcome[d]
        /\ \A k \in 1 .. Len(outcome[c]) : outcome'[c][k] = outcome[c][k]
        /\ outcome'[c][Len(outcome[c]) + 1] = result
    <2>1. outcome \in [Callers -> Seq(Results)]
      BY DEF ServiceInv, ClientInv
    <2> QED BY <2>1, AppendedIs
  <1>2. Store!Effects(c, Step(c)) = Written(effects, c, Step(c))
    BY DEF Store!Effects, Written
  <1>3. Store!Request(c, Step(c)).method = MethodOf(c, Step(c))
    BY DEF Store!Request, MethodOf, Request
  <1>4. Store!Conclude(c)
    BY <1>1, <1>2, <1>3 DEF Store!Conclude, Step
  <1> QED BY <1>4 DEF Store!StoreNext

Kept == Inv(call', outcome', executions', effects')
Mapped == Store!StoreNext \/ UNCHANGED <<table, effects, outcome>>

LEMMA RejectOk ==
  ASSUME ServiceInv, NEW c \in Callers, NEW status \in Nat \ {200, 201}, Reject(c, status),
         call[c].pc # "failed", Step(c) \in DOMAIN deployment.program[c],
         UNCHANGED <<deployment, table, effects>>,
         Inv(call, outcome, executions', effects),
         \A x \in executions' : x.orphan \/ x.caller # c
  PROVE  Kept /\ Mapped
  <1> DEFINE result == [status |-> status, id |-> 0]
  <1>1. result \in Results /\ result.status = status
    BY DEF Results
  <1>2. outcome' = Appended(outcome, c, result) /\ call' = [call EXCEPT ![c].pc = "failed"]
    BY DEF Reject, Appended
  <1> HIDE DEF result
  <1>3. Kept
    BY <1>1, <1>2, SettlesKeeps DEF Kept
  <1>4. Store!StoreNext
    BY <1>1, <1>2, SettlesMaps
  <1> QED BY <1>3, <1>4 DEF Mapped

LEMMA RunOk ==
  ASSUME ServiceInv, NEW c \in Callers, call[c].pc # "failed",
         NEW r, call' = [call EXCEPT ![c] = r], CallOk(r, outcome[c], c), r.pc # "failed",
         MethodOf(c, Step(c)) = "POST" => Credit(call[c]) <= Credit(r),
         UNCHANGED <<table, effects, outcome>>,
         Inv(call, outcome, executions', effects),
         \A x \in executions' : x.orphan \/ x.caller # c
  PROVE  Kept /\ Mapped
  <1>1. call' = Updated(call, c, r)
    BY DEF Updated, ServiceInv, ClientInv
  <1>2. Inv(Updated(call, c, r), outcome, executions', effects)
    BY MoveKeeps DEF Step
  <1> QED BY <1>1, <1>2 DEF Kept, Mapped

LEMMA PreparedIs ==
  ASSUME NEW c \in Callers, IsCall(call[c]), deployment \in Deployments
  PROVE  IsCall(Prepared(c)) /\ Prepared(c).pc = "sign" /\ Prepared(c).attempt = 1
           /\ HeadersOk(Prepared(c), c)
  <1> DEFINE h == IF deployment.tracked[c] THEN [k \in {"mcma-tracker"} |-> 0] ELSE NoHeaders
  <1>1. Prepared(c) = [call[c] EXCEPT !.pc = "sign", !.attempt = 1, !.headers = h]
    BY DEF Prepared
  <1>2. Prepared(c) = CallRecord("sign", 1, h, call[c].wait)
    BY <1>1, CallFieldsAre DEF CallRecord, CallFields
  <1>3. Untracked /\ Authenticator(c) = "AWS4" => h = NoHeaders
    BY DEF Untracked, Authenticator
  <1> HIDE DEF h
  <1> QED BY <1>2, <1>3, CallRecordIs DEF HeadersOk

(* An answer says the truth about the writes of its request.               *)
Truthful(c, a) ==
  /\ IsAnswer(a)
  /\ a.status = 201 => MethodOf(c, Step(c)) = "POST"
  /\ MethodOf(c, Step(c)) = "POST" /\ a.status < 400 =>
       /\ a.status = 201 /\ a.token = 0 /\ a.id \in Ids
       /\ \E e \in Written(effects, c, Step(c)) : e.id = a.id
  /\ MethodOf(c, Step(c)) \in {"PUT", "DELETE"} /\ a.status < 400 =>
       Written(effects, c, Step(c)) # {}

(* A pause before the next attempt.                                        *)
LEMMA PauseOk ==
  ASSUME ServiceInv, NEW c \in Callers, call[c].pc \in {"token", "sent"}, Pause(c),
         call[c].attempt < MaxAttempts,
         UNCHANGED <<deployment, table, effects, outcome>>,
         Inv(call, outcome, executions', effects),
         \A x \in executions' : x.orphan \/ x.caller # c
  PROVE  Kept /\ Mapped
  <1> DEFINE r == [call[c] EXCEPT !.pc = "sleep", !.wait = 1]
  <1>1. /\ CallOk(call[c], outcome[c], c) /\ IsCall(call[c])
        /\ Step(c) \in DOMAIN deployment.program[c]
        /\ TargetOf(c, Step(c), outcome[c]) # Foreign
        /\ call[c].attempt \in 1 .. MaxAttempts /\ MaxAttempts \in Nat \ {0}
        /\ call = [d \in Callers |-> call[d]]
    BY ClientAssumption DEF ServiceInv, ClientInv, CallOk, Step
  <1>2. call' = [call EXCEPT ![c] = r]
    BY <1>1 DEF Pause
  <1>3. r = CallRecord("sleep", call[c].attempt, call[c].headers, 1)
    BY <1>1, CallFieldsAre DEF CallRecord, CallFields
  <1>4. IsCall(r) /\ r.pc = "sleep" /\ r.attempt = call[c].attempt
          /\ r.headers = call[c].headers
    BY <1>3, CallRecordIs
  <1> HIDE DEF r
  <1>5. CallOk(r, outcome[c], c)
    BY <1>1, <1>4 DEF CallOk, HeadersOk, Step
  <1>6. Credit(call[c]) <= Credit(r)
    BY <1>1, <1>4 DEF Credit
  <1> QED BY <1>2, <1>4, <1>5, <1>6, RunOk

LEMMA AnsweredOk ==
  ASSUME ServiceInv, NEW c \in Callers, call[c].pc = "sent", NEW a, Truthful(c, a),
         Answered(c, a),
         UNCHANGED <<deployment, table, effects>>,
         Inv(call, outcome, executions', effects),
         \A x \in executions' : x.orphan \/ x.caller # c
  PROVE  Kept /\ Mapped
  <1>1. /\ CallOk(call[c], outcome[c], c) /\ IsCall(call[c])
        /\ Step(c) \in DOMAIN deployment.program[c]
        /\ TargetOf(c, Step(c), outcome[c]) # Foreign
        /\ call[c].attempt \in 1 .. MaxAttempts /\ MaxAttempts \in Nat \ {0}
        /\ call = [d \in Callers |-> call[d]]
    BY ClientAssumption DEF ServiceInv, ClientInv, CallOk, Step
  <1>2. a.status \in Nat /\ a.id \in Nat
    BY DEF Truthful, IsAnswer
  <1>3. CASE MayRetry(c, a.status)
    <2>1. Pause(c) /\ UNCHANGED outcome /\ call[c].attempt < MaxAttempts
      BY <1>2, <1>3 DEF Answered, MayRetry
    <2> QED BY <2>1, PauseOk
  <1>4. CASE ~ MayRetry(c, a.status) /\ a.status >= 400
    <2>1. Reject(c, a.status) /\ a.status \in Nat \ {200, 201}
      BY <1>2, <1>4 DEF Answered
    <2> QED BY <1>1, <2>1, RejectOk
  <1>5. CASE a.status < 400
    <2>1. ~ MayRetry(c, a.status)
      BY <1>2, <1>5 DEF MayRetry
    <2>2. CASE a.token = 0
      <3> DEFINE result == [status |-> a.status, id |-> a.id]
      <3>1. Resolve(c, a.status, a.id)
        BY <1>2, <1>5, <2>1, <2>2 DEF Answered
      <3>2. result \in Results /\ result.status = a.status /\ result.id = a.id
        BY <1>2 DEF Results
      <3>3. outcome' = Appended(outcome, c, result) /\ call' = [call EXCEPT ![c].pc = "idle"]
        BY <3>1 DEF Resolve, Appended
      <3> HIDE DEF result
      <3>4. Kept
        BY <1>1, <1>5, <3>2, <3>3, SettlesKeeps DEF Kept, Truthful
      <3>5. Store!StoreNext
        BY <1>1, <1>5, <3>2, <3>3, SettlesMaps DEF Truthful
      <3> QED BY <3>4, <3>5 DEF Mapped
    <2>3. CASE a.token # 0
      <3> DEFINE r == Prepared(c)
      <3>1. call' = [call EXCEPT ![c] = r] /\ UNCHANGED outcome
        BY <1>2, <1>5, <2>1, <2>3 DEF Answered
      <3>4. IsCall(r) /\ r.pc = "sign" /\ r.attempt = 1 /\ HeadersOk(r, c)
        BY <1>1, PreparedIs DEF ServiceInv
      <3> HIDE DEF r
      <3>5. CallOk(r, outcome[c], c)
        BY <1>1, <3>4 DEF CallOk, Step
      <3>6. MethodOf(c, Step(c)) # "POST"
        BY <1>5, <2>3 DEF Truthful
      <3> QED BY <3>1, <3>4, <3>5, <3>6, RunOk
    <2> QED BY <2>2, <2>3
  <1> QED BY <1>2, <1>3, <1>4, <1>5

-----------------------------------------------------------------------------
(* The steps of the callers, one by one.                                   *)

LEMMA IdleFacts ==
  ASSUME ServiceInv, NEW c \in Callers
  PROVE  /\ Inv(call, outcome, executions, effects)
         /\ call = [d \in Callers |-> call[d]] /\ IsCall(call[c])
         /\ CallOk(call[c], outcome[c], c) /\ call[c].attempt \in Nat
         /\ MaxAttempts \in Nat \ {0}
         /\ call[c].pc # "sent" => \A x \in executions : x.orphan \/ x.caller # c
  <1>1. Inv(call, outcome, executions, effects)
    BY DEF ServiceInv, Inv
  <1>2. call[c].pc # "sent" => \A x \in executions : x.orphan \/ x.caller # c
    BY <1>1, NotAwaited DEF Inv
  <1> QED BY <1>1, <1>2, ClientAssumption DEF Inv, ClientInv, CallOk

LEMMA BeginOk ==
  ASSUME ServiceInv, NEW c \in Callers, Begin(c)
  PROVE  Kept /\ Mapped
  <1>1. /\ call[c].pc = "idle" /\ Step(c) \in DOMAIN deployment.program[c]
        /\ UNCHANGED <<deployment, table, executions, effects>>
    BY DEF Begin, Call, apiVars
  <1>2. CASE Target(c) = Foreign
    <2>1. Reject(c, 0)
      BY <1>2 DEF Begin, Call
    <2> QED BY <1>1, <2>1, RejectOk, IdleFacts
  <1>3. CASE Target(c) # Foreign
    <2> DEFINE r == Prepared(c)
    <2>1. call' = [call EXCEPT ![c] = r] /\ UNCHANGED outcome
      BY <1>3 DEF Begin, Call
    <2>4. IsCall(r) /\ r.pc = "sign" /\ r.attempt = 1 /\ HeadersOk(r, c)
      BY IdleFacts, PreparedIs DEF ServiceInv
    <2> HIDE DEF r
    <2>5. CallOk(r, outcome[c], c)
      BY <1>1, <1>3, <2>4, IdleFacts DEF CallOk, Step, Target
    <2>6. Credit(call[c]) <= Credit(r)
      BY <1>1, <2>4 DEF Credit
    <2> QED BY <1>1, <2>1, <2>4, <2>5, <2>6, RunOk, IdleFacts
  <1> QED BY <1>2, <1>3

LEMMA FetchOk ==
  ASSUME ServiceInv, NEW c \in Callers, FetchCredential(c)
  PROVE  Kept /\ Mapped
  <1> DEFINE r == [call[c] EXCEPT !.pc = "token"]
  <1>1. /\ call[c].pc = "sign" /\ call' = [call EXCEPT ![c].pc = "token"]
        /\ UNCHANGED <<deployment, table, executions, effects, outcome>>
    BY DEF FetchCredential, Fetch, apiVars
  <1>2. call' = [call EXCEPT ![c] = r]
    BY <1>1, IdleFacts
  <1>3. r = CallRecord("token", call[c].attempt, call[c].headers, call[c].wait)
    BY CallFieldsAre, IdleFacts DEF CallRecord, CallFields
  <1>4. IsCall(r) /\ r.pc = "token" /\ r.attempt = call[c].attempt
          /\ r.headers = call[c].headers
    BY <1>3, CallRecordIs
  <1> HIDE DEF r
  <1>5. CallOk(r, outcome[c], c)
    BY <1>1, <1>4, IdleFacts DEF CallOk, HeadersOk
  <1>6. Credit(call[c]) <= Credit(r)
    BY <1>1, <1>4, IdleFacts DEF Credit
  <1> QED BY <1>1, <1>2, <1>4, <1>5, <1>6, RunOk, IdleFacts

LEMMA ContinueOk ==
  ASSUME ServiceInv, NEW c \in Callers, Continue(c)
  PROVE  Kept /\ Mapped
  <1> DEFINE a == IF call[c].attempt < MaxAttempts THEN call[c].attempt + 1 ELSE call[c].attempt
             r == [call[c] EXCEPT !.pc = "sign", !.attempt = a]
  <1>1. /\ call[c].pc = "sleep"
        /\ call' = [call EXCEPT ![c].pc = "sign",
                                ![c].attempt = IF @ < MaxAttempts THEN @ + 1 ELSE @]
        /\ UNCHANGED <<deployment, table, executions, effects, outcome>>
    BY DEF Continue, Wake, apiVars
  <1>2. call' = [call EXCEPT ![c] = r]
    BY <1>1, IdleFacts
  <1>3. r = CallRecord("sign", a, call[c].headers, call[c].wait)
    BY CallFieldsAre, IdleFacts DEF CallRecord, CallFields
  <1>4. IsCall(r) /\ r.pc = "sign" /\ r.attempt = call[c].attempt + 1
          /\ call[c].attempt < MaxAttempts /\ r.headers = call[c].headers
    BY <1>1, <1>3, CallRecordIs, IdleFacts DEF CallOk
  <1> HIDE DEF r
  <1>5. CallOk(r, outcome[c], c)
    BY <1>1, <1>4, IdleFacts DEF CallOk, HeadersOk
  <1>6. Credit(call[c]) <= Credit(r)
    BY <1>1, <1>4, IdleFacts DEF Credit
  <1> QED BY <1>1, <1>2, <1>4, <1>5, <1>6, RunOk, IdleFacts

LEMMA SignFailsOk ==
  ASSUME ServiceInv, NEW c \in Callers, SignFails(c),
         UNCHANGED <<deployment, table, executions, effects>>
  PROVE  Kept /\ Mapped
  <1>1. call[c].pc = "sign" /\ Reject(c, 0)
    BY DEF SignFails
  <1>2. Step(c) \in DOMAIN deployment.program[c]
    BY <1>1, IdleFacts DEF CallOk, Step
  <1> QED BY <1>1, <1>2, RejectOk, IdleFacts

LEMMA ProviderFailsOk ==
  ASSUME ServiceInv, NEW c \in Callers, NEW status \in Nat, ProviderFails(c, status),
         UNCHANGED <<deployment, table, executions, effects>>
  PROVE  Kept /\ Mapped
  <1>1. call[c].pc = "token"
    BY DEF ProviderFails
  <1>2. Step(c) \in DOMAIN deployment.program[c]
    BY <1>1, IdleFacts DEF CallOk, Step
  <1>3. CASE MayRetry(c, status)
    <2>1. Pause(c) /\ UNCHANGED outcome /\ call[c].attempt < MaxAttempts
      BY <1>3 DEF ProviderFails, MayRetry
    <2> QED BY <1>1, <2>1, PauseOk, IdleFacts
  <1>4. CASE ~ MayRetry(c, status)
    <2>1. Reject(c, 0)
      BY <1>4 DEF ProviderFails
    <2> QED BY <1>1, <1>2, <2>1, RejectOk, IdleFacts
  <1> QED BY <1>3, <1>4

(* What a request writes to exists: its identifier is that of a document,   *)
(* or that of the first one that its caller created.                       *)
LEMMA TargetInIds ==
  ASSUME ServiceInv, NEW c \in Callers, call[c].pc \in {"sign", "token"},
         Request(c, Step(c)).kind = "item", MethodOf(c, Step(c)) \in {"PUT", "DELETE"}
  PROVE  Target(c) \in Ids
  <1> DEFINE k == Step(c)
             created == {j \in DOMAIN outcome[c] : outcome[c][j].status = 201}
             id == Request(c, k).id
  <1>1. /\ k \in DOMAIN deployment.program[c] /\ Target(c) # Foreign
        /\ outcome[c] \in Seq(Results) /\ k = Len(outcome[c]) + 1
        /\ Succeeded(call[c], outcome[c], c)
    BY DEF ServiceInv, ClientInv, CallOk, Step, Target
  <1>2. WritesTo(deployment.program[c], k)
    BY <1>1, DeploymentsAssumption DEF ServiceInv, Request, MethodOf
  <1>3. CASE id # 0
    <2>1. Target(c) = id
      BY <1>3 DEF Target, TargetOf
    <2>2. id \in Ids \cup {Foreign}
      BY <1>2, <1>3 DEF WritesTo, Request
    <2> QED BY <1>1, <2>1, <2>2
  <1>4. CASE id = 0 /\ created # {}
    <2>1. created \subseteq Nat
      BY <1>1
    <2>2. \E j \in created : \A l \in created : j <= l
      BY <1>4, <2>1, LeastExists
    <2> DEFINE first == CHOOSE j \in created : \A l \in created : j <= l
    <2>3. first \in created
      BY <2>2
    <2>4. Target(c) = outcome[c][first].id
      BY <1>4 DEF Target, TargetOf
    <2>5. outcome[c][first].id \in Ids
      BY <1>1, <2>3 DEF Succeeded
    <2> QED BY <2>4, <2>5
  <1>5. CASE id = 0 /\ created = {}
    <2>1. Target(c) = 0
      BY <1>5 DEF Target, TargetOf
    <2>2. \A j \in 1 .. k - 1 : MethodOf(c, j) # "POST"
      BY <1>1, <1>5 DEF Succeeded
    <2>3. 0 \in Ids \cup {Foreign}
      BY <1>2, <1>5, <2>2 DEF WritesTo, Request, MethodOf
    <2> QED BY <1>1, <2>1, <2>3, TableAssumption
  <1> QED BY <1>3, <1>4, <1>5

LEMMA TransmitIs ==
  ASSUME ServiceInv, NEW c \in Callers, Transmit(c)
  PROVE  \E r : call' = Updated(call, c, r) /\ IsCall(r) /\ r.pc = "sent"
                  /\ r.attempt = call[c].attempt /\ HeadersOk(r, c)
  <1> DEFINE h == IF call[c].headers = NoHeaders THEN NoHeaders ELSE Signed(c)
             r == [call[c] EXCEPT !.pc = "sent", !.headers = h]
  <1>1. call' = [call EXCEPT ![c] = r]
    BY IdleFacts DEF Transmit
  <1>2. call' = Updated(call, c, r)
    BY <1>1, IdleFacts DEF Updated
  <1>3. r = CallRecord("sent", call[c].attempt, h, call[c].wait)
    BY CallFieldsAre, IdleFacts DEF CallRecord, CallFields
  <1>4. IsCall(r) /\ r.pc = "sent" /\ r.attempt = call[c].attempt /\ r.headers = h
    BY <1>3, CallRecordIs
  <1>5. HeadersOk(r, c)
    BY <1>4, IdleFacts DEF CallOk, HeadersOk
  <1> QED BY <1>2, <1>4, <1>5

Arriving(c, found) ==
  [caller |-> c, step |-> Step(c), attempt |-> call[c].attempt, id |-> Target(c),
   token |-> listing[c].token, page |-> {}, found |-> found, orphan |-> FALSE,
   at |-> "respond", answer |-> Answer(Refused(c))]

LEMMA ArrivingIs ==
  ASSUME NEW c \in Callers, NEW found
  PROVE  LET x == Arriving(c, found)
         IN  /\ IsExecution(x) /\ x.caller = c /\ x.step = Step(c) /\ x.id = Target(c)
             /\ x.found = found /\ x.orphan \in BOOLEAN /\ ~ x.orphan
             /\ x.at = "respond" /\ x.answer.status \in {401, 403}
  <1>1. IsAnswer(Answer(Refused(c))) /\ Answer(Refused(c)).status \in {401, 403}
    <2>1. Refused(c) \in Nat /\ Refused(c) \in {401, 403}
      BY DEF Refused
    <2> QED BY <2>1, AnswerIs
  <1> QED BY <1>1 DEF Arriving, IsExecution

(* A signature without headers left from an earlier attempt is good, and so *)
(* is a token that is not expired.                                         *)
LEMMA SignatureGood ==
  ASSUME NEW n
  PROVE  Verifies(Canonical(NoHeaders, n), Sent(NoHeaders, n))
  <1>1. DOMAIN NoHeaders = {}
    BY DEF NoHeaders
  <1>2. DOMAIN Canonical(NoHeaders, n) = SigningHeaders
    BY <1>1 DEF Canonical
  <1>3. DOMAIN Sent(NoHeaders, n) =
          (SigningHeaders \cup {"Authorization", "x-amz-security-token"}) \ {"host"}
    BY <1>2 DEF Sent
  <1>4. ASSUME NEW h \in SigningHeaders \ {"host"}
        PROVE  Sent(NoHeaders, n)[h] = Canonical(NoHeaders, n)[h]
    BY <1>2 DEF Sent, SigningHeaders
  <1>5. SigningHeaders \ {"host"} \subseteq DOMAIN Sent(NoHeaders, n)
    BY <1>3 DEF SigningHeaders
  <1> QED BY <1>2, <1>4, <1>5 DEF Verifies

LEMMA ArrivesGood ==
  ASSUME ServiceInv, Untracked, NEW c \in Callers, NEW life,
         Authenticator(c) = "AccessToken" => life # 0, NEW found \in OnArrival(c, life)
  PROVE  found # "invalid"
  <1>1. CASE Authenticator(c) = "AccessToken"
    BY <1>1 DEF OnArrival
  <1>2. CASE Authenticator(c) = "AWS4"
    <2>1. call[c].headers = NoHeaders
      BY <1>2, IdleFacts DEF CallOk, HeadersOk
    <2>2. Verifies(Canonical(call[c].headers, call[c].attempt), Signed(c))
      BY <1>2, <2>1, SignatureGood DEF Signed
    <2>3. OnArrival(c, life) = {"valid"}
      BY <1>2, <2>2 DEF OnArrival
    <2> QED BY <2>3
  <1>3. CASE Authenticator(c) \notin {"AccessToken", "AWS4"}
    BY <1>3 DEF OnArrival
  <1> QED BY <1>1, <1>2, <1>3

LEMMA SendOk ==
  ASSUME ServiceInv, NEW c \in Callers, Send(c)
  PROVE  Kept /\ Mapped
  <1>1. PICK life : /\ call[c].pc \in {"sign", "token"} /\ Transmit(c)
                    /\ \E found \in OnArrival(c, life) : Arrived(c, found)
                    /\ Authenticator(c) = "AccessToken" => life # 0
                    /\ UNCHANGED <<deployment, table, effects, outcome>>
    <2>1. /\ call[c].pc \in {"sign", "token"} /\ Transmit(c)
          /\ UNCHANGED <<deployment, table, effects, outcome>>
      BY DEF Send, SendHeld, SendFetched
    <2>2. CASE SendHeld(c) /\ \E found \in OnArrival(c, HeldLife(c)) : Arrived(c, found)
      <3>1. Authenticator(c) = "AccessToken" => HeldLife(c) # 0
        BY <2>2 DEF SendHeld, MustFetch, HeldLife, CachedTypes
      <3> QED BY <2>1, <2>2, <3>1
    <2>3. ASSUME NEW life \in FetchedLives(c), \E found \in OnArrival(c, life) : Arrived(c, found)
          PROVE  /\ \E found \in OnArrival(c, life) : Arrived(c, found)
                 /\ Authenticator(c) = "AccessToken" => life # 0
      BY <2>3, ClientAssumption DEF FetchedLives
    <2> QED BY <2>1, <2>2, <2>3 DEF Send
  <1>2. PICK found \in OnArrival(c, life) : Arrived(c, found)
    BY <1>1
  <1> DEFINE x == Arriving(c, found)
             y == IF found = "valid" THEN HandleRequest(x) ELSE x
  <1>3. executions' = executions \cup {y}
    BY <1>2 DEF Arrived, Arriving
  <1>4. PICK r : call' = Updated(call, c, r) /\ IsCall(r) /\ r.pc = "sent"
                   /\ r.attempt = call[c].attempt /\ HeadersOk(r, c)
    BY <1>1, TransmitIs
  <1>5. /\ IsExecution(x) /\ x.caller = c /\ x.step = Step(c) /\ x.id = Target(c)
        /\ x.orphan \in BOOLEAN /\ ~ x.orphan
        /\ x.at = "respond" /\ x.answer.status \in {401, 403} /\ x.found = found
    BY ArrivingIs
  <1> HIDE DEF x
  <1>6. /\ Step(c) \in DOMAIN deployment.program[c] /\ outcome[c] \in Seq(Results)
        /\ Len(outcome[c]) \in Nat /\ Step(c) = Len(outcome[c]) + 1
        /\ deployment \in Deployments
    BY <1>1 DEF ServiceInv, ClientInv, CallOk, Step
  <1>7. BelongsOk(x, Updated(call, c, r), outcome)
    <2>1. Updated(call, c, r)[c].pc = "sent"
      BY <1>4 DEF Updated
    <2>2. SubSeq(outcome[c], 1, Step(c) - 1) = outcome[c]
      BY <1>6
    <2>3. x.id = TargetOf(c, Step(c), SubSeq(outcome[c], 1, Step(c) - 1))
      BY <1>5, <2>2 DEF Target
    <2>4. Of(x).kind = "item" /\ Of(x).method \in {"PUT", "DELETE"} => x.id \in Ids
      BY <1>1, <1>5, TargetInIds DEF Of, MethodOf
    <2>5. Untracked => x.found # "invalid"
      BY <1>1, <1>5, ArrivesGood
    <2> QED BY <1>5, <1>6, <2>1, <2>3, <2>4, <2>5 DEF BelongsOk
  <1>8. Continues(x, y) /\ HandlingOk(y, effects) /\ AccessOk(y)
    <2>1. CASE found = "valid"
      BY <1>5, <1>6, <2>1, HandleRequestOk
    <2>2. CASE found # "valid"
      <3>1. y = x
        BY <2>2
      <3>2. ~ deployment.secured
        <4>1. ASSUME deployment.secured PROVE FALSE
          <5>1. Authenticator(c) = "McmaApiKey"
            BY <1>6, <4>1, DeploymentsAssumption DEF Authenticator
          <5>2. OnArrival(c, life) = {"valid"}
            BY <5>1 DEF OnArrival
          <5> QED BY <1>2, <2>2, <5>2
        <4> QED BY <4>1
      <3>3. Continues(x, x) /\ HandlingOk(x, effects) /\ AccessOk(x)
        BY <1>5, <3>2 DEF Continues, Follows, HandlingOk, AccessOk
      <3> QED BY <3>1, <3>3
    <2> QED BY <2>1, <2>2
  <1> HIDE DEF y
  <1>9. BelongsOk(y, Updated(call, c, r), outcome)
    BY <1>7, <1>8 DEF BelongsOk, Continues, Follows, Of
  <1>10. y.caller = c /\ y.step = Len(outcome[c]) + 1 /\ ~ y.orphan
    BY <1>5, <1>6, <1>8 DEF Continues, Follows
  <1>11. ExecutionOk(y, Updated(call, c, r), outcome, effects)
    BY <1>8, <1>9 DEF ExecutionOk
  <1>12. Inv(Updated(call, c, r), outcome, executions \cup {y}, effects)
    BY <1>1, <1>4, <1>10, <1>11, SendKeeps, IdleFacts
  <1> QED BY <1>1, <1>3, <1>4, <1>12 DEF Kept, Mapped

-----------------------------------------------------------------------------
(* The steps of the executions.                                            *)

LEMMA BelongsFollows ==
  ASSUME NEW C, NEW O, NEW x, BelongsOk(x, C, O), NEW y, Follows(x, y),
         y.orphan = x.orphan, y.id = x.id \/ Of(x).method = "POST"
  PROVE  BelongsOk(y, C, O) /\ Of(y) = Of(x) /\ (Allowed(y) <=> Allowed(x))
  BY DEF BelongsOk, Follows, Of, Allowed

LEMMA MoreWritten ==
  ASSUME NEW C, NEW O, NEW F, NEW G, F \subseteq G, NEW x, ExecutionOk(x, C, O, F)
  PROVE  ExecutionOk(x, C, O, G)
  <1>1. Written(F, x.caller, x.step) \subseteq Written(G, x.caller, x.step)
    BY DEF Written
  <1> QED BY <1>1 DEF ExecutionOk, HandlingOk

LEMMA RespondsOk ==
  ASSUME NEW C, NEW O, NEW F, NEW x, ExecutionOk(x, C, O, F), x.at \in Awaits,
         NEW a, IsAnswer(a), a.status = 500 \/ (x.at # "secret" /\ a.status \in {200, 201, 404}),
         a.status = 201 => Of(x).method = "POST",
         Of(x).method = "POST" /\ a.status < 400 =>
           /\ a.status = 201 /\ a.token = 0 /\ a.id \in Ids
           /\ \E e \in Written(F, x.caller, x.step) : e.id = a.id,
         Of(x).method \in {"PUT", "DELETE"} /\ a.status < 400 =>
           Written(F, x.caller, x.step) # {}
  PROVE  LET y == Responding(x, a)
         IN  Follows(x, y) /\ y.orphan = x.orphan /\ ExecutionOk(y, C, O, F) /\ ~ Waits(y)
  <1> DEFINE y == Responding(x, a)
  <1>1. IsExecution(x) /\ BelongsOk(x, C, O) /\ AccessOk(x)
    BY DEF ExecutionOk, BelongsOk
  <1>2. Follows(x, y) /\ y.orphan = x.orphan /\ y.id = x.id /\ y.at = "respond" /\ y.answer = a
    BY <1>1, Responded
  <1> HIDE DEF y
  <1>3. BelongsOk(y, C, O) /\ Of(y) = Of(x) /\ (Allowed(y) <=> Allowed(x))
    BY <1>1, <1>2, BelongsFollows
  <1>4. y.caller = x.caller /\ y.step = x.step
    BY <1>2 DEF Follows
  <1>5. HandlingOk(y, F)
    BY <1>2, <1>3, <1>4 DEF HandlingOk
  <1>6. AccessOk(y)
    BY <1>1, <1>2, <1>3 DEF AccessOk, Awaits
  <1>7. ~ Waits(y)
    BY <1>2 DEF Waits
  <1>8. ExecutionOk(y, C, O, F)
    BY <1>3, <1>5, <1>6 DEF ExecutionOk
  <1> QED BY <1>2, <1>7, <1>8 DEF y

LEMMA ExecutionFacts ==
  ASSUME ServiceInv, NEW x \in executions
  PROVE  /\ Inv(call, outcome, executions, effects)
         /\ ExecutionOk(x, call, outcome, effects) /\ BelongsOk(x, call, outcome)
         /\ HandlingOk(x, effects) /\ AccessOk(x) /\ IsExecution(x)
         /\ x.caller \in Callers /\ x.step \in DOMAIN deployment.program[x.caller]
         /\ deployment \in Deployments
  BY DEF ServiceInv, Inv, ExecutionsInv, ExecutionOk, BelongsOk

(* A step of an execution without an effect.                               *)
LEMMA QuietOk ==
  ASSUME ServiceInv, NEW x \in executions, NEW y, Replace(x, y), Follows(x, y),
         y.orphan = x.orphan, ExecutionOk(y, call, outcome, effects), Waits(y) => Waits(x),
         UNCHANGED <<call, outcome, table, effects>>
  PROVE  Kept /\ Mapped
  <1>1. y.orphan \/ ~ x.orphan
    BY ExecutionFacts DEF BelongsOk
  <1>2. Inv(call, outcome, (executions \ {x}) \cup {y}, effects)
    BY <1>1, ExecutionFacts, ReplaceKeeps
  <1> QED BY <1>2 DEF Replace, Kept, Mapped

LEMMA QuietAnswerOk ==
  ASSUME ServiceInv, NEW x \in executions, x.at \in Awaits, NEW a, Replace(x, Responding(x, a)),
         IsAnswer(a), a.status = 500 \/ (x.at # "secret" /\ a.status \in {200, 201, 404}),
         a.status = 201 => Of(x).method = "POST",
         Of(x).method = "POST" /\ a.status < 400 =>
           /\ a.status = 201 /\ a.token = 0 /\ a.id \in Ids
           /\ \E e \in Written(effects, x.caller, x.step) : e.id = a.id,
         Of(x).method \in {"PUT", "DELETE"} /\ a.status < 400 =>
           Written(effects, x.caller, x.step) # {},
         UNCHANGED <<call, outcome, table, effects>>
  PROVE  Kept /\ Mapped
  <1> DEFINE y == Responding(x, a)
  <1>1. Follows(x, y) /\ y.orphan = x.orphan /\ ExecutionOk(y, call, outcome, effects)
          /\ ~ Waits(y)
    BY ExecutionFacts, RespondsOk
  <1> HIDE DEF y
  <1>2. Replace(x, y)
    BY DEF y
  <1> QED BY <1>1, <1>2, QuietOk

LEMMA MovesOk ==
  ASSUME ServiceInv, NEW x \in executions, x.at \notin {"secret", "respond"},
         NEW y, Follows(x, y), y.orphan = x.orphan, y.id = x.id,
         \/ x.at = "delete-get" /\ y.at = "delete"
         \/ x.at = "query" /\ y.at = "next",
         Replace(x, y), UNCHANGED <<call, outcome, table, effects>>
  PROVE  Kept /\ Mapped
  <1>1. BelongsOk(y, call, outcome) /\ Of(y) = Of(x) /\ (Allowed(y) <=> Allowed(x))
    BY ExecutionFacts, BelongsFollows
  <1>2. HandlingOk(y, effects)
    BY <1>1, ExecutionFacts DEF HandlingOk, Awaits
  <1>3. AccessOk(y)
    BY <1>1, ExecutionFacts DEF AccessOk
  <1>4. ~ Waits(y)
    BY DEF Waits
  <1>5. ExecutionOk(y, call, outcome, effects)
    BY <1>1, <1>2, <1>3 DEF ExecutionOk
  <1> QED BY <1>4, <1>5, QuietOk

(* A write is one of the store.                                            *)
LEMMA WriteMaps ==
  ASSUME ServiceInv, NEW x \in executions, x.at \in {"create", "update", "delete"},
         NEW i \in Ids, NEW doc,
         doc = IF Of(x).method = "DELETE" THEN NoDoc ELSE Of(x).doc,
         Write(i, doc), Effect(x, i, doc), UNCHANGED <<deployment, outcome>>,
         x.at = "create" => \A e \in effects : e.id # i,
         x.at # "create" => i = x.id
  PROVE  Store!StoreNext
  <1> DEFINE c == x.caller
             step == x.step
  <1>1. /\ c \in Callers /\ step \in DOMAIN deployment.program[c]
        /\ step \in 1 .. Len(outcome[c]) + 1 /\ (deployment.secured => Allowed(x))
        /\ (x.at = "create" <=> Of(x).method = "POST")
        /\ Of(x).method \in {"POST", "PUT", "DELETE"}
    BY ExecutionFacts DEF BelongsOk, HandlingOk, AccessOk
  <1>2. Store!Request(c, step) = Of(x) /\ Store!ApiKey(c) = ApiKey(c)
    BY DEF Store!Request, Of, Request, Store!ApiKey, ApiKey, Store!Authenticator,
           Authenticator, Store!AuthenticatorIn, AuthenticatorIn
  <1>3. Store!MayWrite(c, step)
    BY <1>1, <1>2 DEF Store!MayWrite, Allowed
  <1>4. ASSUME x.at = "create"
        PROVE  Cardinality(Store!Effects(c, step)) < MaxAttempts
    <2>1. /\ AttemptsOk(call, outcome, executions, effects, c, step)
          /\ IsFiniteSet(executions) /\ IsFiniteSet(effects)
      <3>1. step \in Nat \ {0} /\ MethodOf(c, step) = "POST"
        <4>1. outcome[c] \in Seq(Results) /\ Len(outcome[c]) \in Nat
          BY <1>1 DEF ServiceInv, ClientInv
        <4> QED BY <1>1, <1>4, <4>1 DEF MethodOf, Of
      <3> QED BY <1>1, <3>1 DEF ServiceInv, AttemptsInv
    <2>2. Made(call, outcome, c, step) \in Int /\ Made(call, outcome, c, step) <= MaxAttempts
      BY <1>1, MadeIs DEF ServiceInv
    <2>3. Cardinality(Unspent(executions, c, step)) \in Nat
            /\ 1 <= Cardinality(Unspent(executions, c, step))
      <3>1. x \in Unspent(executions, c, step)
        BY <1>4 DEF Unspent
      <3>2. Unspent(executions, c, step) \subseteq executions
        BY DEF Unspent
      <3>3. IsFiniteSet(Unspent(executions, c, step))
        BY <2>1, <3>2, Shrinks
      <3> QED BY <3>1, <3>3, FS_EmptySet, FS_CardinalityType
    <2>4. Cardinality(Written(effects, c, step)) \in Nat
      <3>1. Written(effects, c, step) \subseteq effects
        BY DEF Written
      <3> QED BY <2>1, <3>1, Shrinks
    <2>5. Store!Effects(c, step) = Written(effects, c, step)
      BY DEF Store!Effects, Written
    <2> QED BY <2>1, <2>2, <2>3, <2>4, <2>5, ClientAssumption DEF AttemptsOk
  <1>5. x.at # "create" => i = Store!TargetOf(c, step, SubSeq(outcome[c], 1, step - 1))
    <2>1. Of(x).method # "POST" => x.id = TargetOf(c, step, SubSeq(outcome[c], 1, step - 1))
      BY ExecutionFacts DEF BelongsOk
    <2>2. Store!TargetOf(c, step, SubSeq(outcome[c], 1, step - 1))
            = TargetOf(c, step, SubSeq(outcome[c], 1, step - 1))
      BY DEF Store!TargetOf, TargetOf, Store!Request, Request
    <2> QED BY <1>1, <2>1, <2>2
  <1>6. /\ table' = [table EXCEPT ![i] = doc]
        /\ effects' = effects \cup {[caller |-> c, step |-> step, id |-> i, doc |-> doc]}
    BY DEF Write, Effect
  <1>7. /\ Store!Request(c, step).method = Of(x).method
        /\ Store!Request(c, step).doc = Of(x).doc
    BY <1>2
  <1>8. Store!Apply(c, step, i)
    <2> DEFINE d == IF Store!Request(c, step).method = "DELETE" THEN NoDoc
                    ELSE Store!Request(c, step).doc
    <2>1. d = doc
      BY <1>7
    <2>2. CASE x.at = "create"
      <3>1. Store!Request(c, step).method = "POST"
        BY <1>1, <1>7, <2>2
      <3>2. /\ \A e \in effects : e.id # i
            /\ Store!Cardinality(Store!Effects(c, step)) < MaxAttempts
        <4>1. Store!Cardinality(Store!Effects(c, step)) = Cardinality(Store!Effects(c, step))
          BY DEF Store!Cardinality, Cardinality
        <4> QED BY <1>4, <2>2, <4>1
      <3> HIDE DEF c, step
      <3> QED BY <1>3, <1>6, <2>1, <3>1, <3>2 DEF Store!Apply
    <2>3. CASE x.at # "create"
      <3>1. Store!Request(c, step).method # "POST"
        BY <1>1, <1>7, <2>3
      <3> HIDE DEF c, step
      <3> QED BY <1>3, <1>5, <1>6, <2>1, <2>3, <3>1 DEF Store!Apply
    <2> QED BY <2>2, <2>3
  <1> QED BY <1>1, <1>8 DEF Store!StoreNext

(* A step of an execution that writes.                                     *)
LEMMA WriteOk ==
  ASSUME ServiceInv, NEW x \in executions, x.at \in {"create", "update", "delete"},
         NEW i \in Ids, NEW doc,
         doc = IF Of(x).method = "DELETE" THEN NoDoc ELSE Of(x).doc,
         Write(i, doc), Effect(x, i, doc), UNCHANGED <<deployment, call, outcome>>,
         x.at = "create" => \A e \in effects : e.id # i,
         x.at # "create" => i = x.id,
         NEW y, Replace(x, y), Follows(x, y), y.orphan = x.orphan, ~ Waits(y),
         ExecutionOk(y, call, outcome, effects')
  PROVE  Kept /\ Mapped
  <1> DEFINE e == [caller |-> x.caller, step |-> x.step, id |-> i, doc |-> doc]
  <1>1. effects' = effects \cup {e} /\ e.caller = x.caller /\ e.step = x.step
    BY DEF Effect
  <1> HIDE DEF e
  <1>2. Of(x).method = "POST" => x.at = "create"
    BY ExecutionFacts DEF HandlingOk
  <1>3. y.orphan \/ ~ x.orphan
    BY ExecutionFacts DEF BelongsOk
  <1>4. ExecutionOk(y, call, outcome, effects \cup {e})
    BY <1>1
  <1>5. Inv(call, outcome, (executions \ {x}) \cup {y}, effects \cup {e})
    BY <1>1, <1>2, <1>3, <1>4, ExecutionFacts, EffectKeeps
  <1>6. Kept
    BY <1>1, <1>5 DEF Kept, Replace
  <1>7. Store!StoreNext
    BY WriteMaps
  <1> QED BY <1>6, <1>7 DEF Mapped

LEMMA WriteAnswerOk ==
  ASSUME ServiceInv, NEW x \in executions, x.at \in {"create", "update", "delete"},
         NEW i \in Ids, NEW doc,
         doc = IF Of(x).method = "DELETE" THEN NoDoc ELSE Of(x).doc,
         Write(i, doc), Effect(x, i, doc), UNCHANGED <<deployment, call, outcome>>,
         x.at = "create" => \A e \in effects : e.id # i,
         x.at # "create" => i = x.id,
         NEW a, IsAnswer(a), a.token = 0,
         a.status = IF Of(x).method = "POST" THEN 201 ELSE 200,
         Of(x).method = "POST" => a.id = i,
         Replace(x, Responding(x, a))
  PROVE  Kept /\ Mapped
  <1> DEFINE e == [caller |-> x.caller, step |-> x.step, id |-> i, doc |-> doc]
             y == Responding(x, a)
  <1>1. effects' = effects \cup {e}
    BY DEF Effect
  <1>2. e \in Written(effects', x.caller, x.step) /\ e.id = i
    BY <1>1 DEF Written
  <1> HIDE DEF e
  <1>3. ExecutionOk(x, call, outcome, effects')
    BY <1>1, ExecutionFacts, MoreWritten
  <1>4. x.at \in Awaits /\ x.at # "secret"
    BY DEF Awaits
  <1>5. Follows(x, y) /\ y.orphan = x.orphan /\ ExecutionOk(y, call, outcome, effects')
          /\ ~ Waits(y)
    <2>1. a.status \in {200, 201} /\ (a.status = 201 => Of(x).method = "POST")
      OBVIOUS
    <2>2. Of(x).method = "POST" /\ a.status < 400 =>
            /\ a.status = 201 /\ a.token = 0 /\ a.id \in Ids
            /\ \E f \in Written(effects', x.caller, x.step) : f.id = a.id
      BY <1>2
    <2>3. Written(effects', x.caller, x.step) # {}
      BY <1>2
    <2> QED BY <1>3, <1>4, <2>1, <2>2, <2>3, RespondsOk
  <1> HIDE DEF y
  <1>6. Replace(x, y)
    BY DEF y
  <1> QED BY <1>5, <1>6, WriteOk

LEMMA LoadOk ==
  ASSUME ServiceInv, NEW x \in executions, LoadSecurity(x),
         UNCHANGED <<deployment, call, outcome>>
  PROVE  Kept /\ Mapped
  <1> DEFINE y == Secured(x)
  <1>1. x.at = "secret" /\ Replace(x, y) /\ UNCHANGED <<table, effects>>
    BY DEF LoadSecurity
  <1>2. deployment.secured
    BY <1>1, ExecutionFacts DEF HandlingOk
  <1>3. Continues(x, y) /\ HandlingOk(y, effects) /\ AccessOk(y)
    BY <1>2, ExecutionFacts, SecuredOk
  <1> HIDE DEF y
  <1>4. BelongsOk(y, call, outcome)
    BY <1>3, ExecutionFacts, BelongsFollows DEF Continues
  <1>5. ExecutionOk(y, call, outcome, effects) /\ Waits(x)
    BY <1>1, <1>3, <1>4 DEF ExecutionOk, Waits
  <1> QED BY <1>1, <1>3, <1>5, QuietOk DEF Continues

LEMMA CreateOk ==
  ASSUME ServiceInv, NEW x \in executions, CreatePut(x),
         UNCHANGED <<deployment, call, outcome>>
  PROVE  Kept /\ Mapped
  <1> DEFINE y(i) == IF deployment.hook THEN [x EXCEPT !.at = "completed", !.id = i]
                     ELSE Created(x, i)
  <1>1. PICK i \in Ids : /\ Fresh(i) /\ Write(i, Of(x).doc) /\ Effect(x, i, Of(x).doc)
                         /\ Replace(x, y(i)) /\ x.at = "create"
    BY DEF CreatePut
  <1>2. Of(x).method = "POST" /\ BelongsOk(x, call, outcome) /\ IsExecution(x)
          /\ AccessOk(x) /\ i \in Nat
    BY <1>1, ExecutionFacts, TableAssumption DEF HandlingOk
  <1>3. \A e \in effects : e.id # i
    BY <1>1 DEF Fresh
  <1>4. CASE ~ deployment.hook
    <2> DEFINE a == [Answer(201) EXCEPT !.id = i]
    <2>1. IsAnswer(a) /\ a.status = 201 /\ a.token = 0 /\ a.id = i
      BY <1>2 DEF Answer, IsAnswer
    <2>2. Replace(x, Responding(x, a))
      BY <1>1, <1>4 DEF Created
    <2> HIDE DEF a
    <2> QED BY <1>1, <1>2, <1>3, <2>1, <2>2, WriteAnswerOk
  <1>5. CASE deployment.hook
    <2> DEFINE z == [x EXCEPT !.at = "completed", !.id = i]
               e == [caller |-> x.caller, step |-> x.step, id |-> i, doc |-> Of(x).doc]
    <2>1. Follows(x, z) /\ z.orphan = x.orphan /\ z.id = i /\ z.at = "completed"
            /\ z.answer = x.answer
      BY <1>2, MovedToHook
    <2>2. Replace(x, z)
      BY <1>1, <1>5
    <2> HIDE DEF z
    <2>3. effects' = effects \cup {e}
      BY <1>1 DEF Effect
    <2>4. e \in Written(effects', x.caller, x.step) /\ e.id = i
      BY <2>3 DEF Written
    <2> HIDE DEF e
    <2>5. BelongsOk(z, call, outcome) /\ Of(z) = Of(x) /\ (Allowed(z) <=> Allowed(x))
      BY <1>2, <2>1, BelongsFollows
    <2>6. z.caller = x.caller /\ z.step = x.step
      BY <2>1 DEF Follows
    <2>7. HandlingOk(z, effects')
      BY <1>2, <2>1, <2>4, <2>5, <2>6 DEF HandlingOk, Awaits
    <2>8. AccessOk(z)
      BY <1>1, <1>2, <2>1, <2>5 DEF AccessOk
    <2>9. ExecutionOk(z, call, outcome, effects') /\ ~ Waits(z)
      BY <2>1, <2>5, <2>7, <2>8 DEF ExecutionOk, Waits
    <2> QED BY <1>1, <1>2, <1>3, <2>1, <2>2, <2>9, WriteOk
  <1> QED BY <1>4, <1>5

LEMMA CompletedOk ==
  ASSUME ServiceInv, NEW x \in executions, CreateCompleted(x),
         UNCHANGED <<deployment, call, outcome>>
  PROVE  Kept /\ Mapped
  <1> DEFINE a == [Answer(201) EXCEPT !.id = x.id]
  <1>1. x.at = "completed" /\ Replace(x, Responding(x, a)) /\ UNCHANGED <<table, effects>>
    BY DEF CreateCompleted, Created
  <1>2. /\ x.id \in Ids /\ x.id \in Nat /\ Of(x).method = "POST"
        /\ \E e \in Written(effects, x.caller, x.step) : e.id = x.id
    BY <1>1, ExecutionFacts, TableAssumption DEF HandlingOk
  <1>3. IsAnswer(a) /\ a.status = 201 /\ a.token = 0 /\ a.id = x.id
    BY <1>2 DEF Answer, IsAnswer
  <1> HIDE DEF a
  <1>4. x.at \in Awaits /\ x.at # "secret"
    BY <1>1 DEF Awaits
  <1> QED BY <1>1, <1>2, <1>3, <1>4, QuietAnswerOk

LEMMA UpdateOk ==
  ASSUME ServiceInv, NEW x \in executions, UpdatePut(x),
         UNCHANGED <<deployment, call, outcome>>
  PROVE  Kept /\ Mapped
  <1>1. /\ x.at = "update" /\ Write(x.id, Of(x).doc) /\ Effect(x, x.id, Of(x).doc)
        /\ Replace(x, Responding(x, Answer(200)))
    BY DEF UpdatePut
  <1>2. Of(x).method = "PUT" /\ x.id \in Ids
    BY <1>1, ExecutionFacts DEF HandlingOk, BelongsOk
  <1>3. IsAnswer(Answer(200)) /\ Answer(200).status = 200 /\ Answer(200).token = 0
    BY AnswerIs
  <1> QED BY <1>1, <1>2, <1>3, WriteAnswerOk

LEMMA DeleteOk ==
  ASSUME ServiceInv, NEW x \in executions, DeleteDelete(x),
         UNCHANGED <<deployment, call, outcome>>
  PROVE  Kept /\ Mapped
  <1>1. /\ x.at = "delete" /\ Write(x.id, NoDoc) /\ Effect(x, x.id, NoDoc)
        /\ Replace(x, Responding(x, Answer(200)))
    BY DEF DeleteDelete
  <1>2. Of(x).method = "DELETE" /\ x.id \in Ids
    BY <1>1, ExecutionFacts DEF HandlingOk, BelongsOk
  <1>3. IsAnswer(Answer(200)) /\ Answer(200).status = 200 /\ Answer(200).token = 0
    BY AnswerIs
  <1> QED BY <1>1, <1>2, <1>3, WriteAnswerOk

(* Whatever fails is answered with 500.                                    *)
LEMMA InternalErrorOk ==
  ASSUME ServiceInv, NEW x \in executions, x.at \in Awaits,
         Replace(x, Responding(x, Answer(500))),
         UNCHANGED <<call, outcome, table, effects>>
  PROVE  Kept /\ Mapped
  <1>1. IsAnswer(Answer(500)) /\ Answer(500).status = 500
    BY AnswerIs
  <1> QED BY <1>1, QuietAnswerOk

(* What a read answers.                                                    *)
LEMMA ReadAnswerOk ==
  ASSUME ServiceInv, NEW x \in executions, x.at \in Awaits \ {"secret"},
         NEW a, IsAnswer(a), a.status = 404 \/ (a.status = 200 /\ Of(x).method = "GET"),
         Replace(x, Responding(x, a)),
         UNCHANGED <<call, outcome, table, effects>>
  PROVE  Kept /\ Mapped
  BY QuietAnswerOk

LEMMA ReadOk ==
  ASSUME ServiceInv, NEW x \in executions, GetRead(x) \/ DeleteRead(x) \/ DeleteMissing(x),
         UNCHANGED <<deployment, call, outcome>>
  PROVE  Kept /\ Mapped
  <1>1. /\ IsAnswer(Answer(404)) /\ Answer(404).status = 404
        /\ IsAnswer(Answer(200)) /\ Answer(200).status = 200
    BY AnswerIs
  <1>2. CASE GetRead(x)
    <2>1. PICK status \in {404, 200} : Replace(x, Responding(x, Answer(status)))
      BY <1>2 DEF GetRead
    <2>2. x.at = "get" /\ UNCHANGED <<table, effects>>
      BY <1>2 DEF GetRead
    <2>3. Of(x).method = "GET" /\ x.at \in Awaits \ {"secret"}
      BY <2>2, ExecutionFacts DEF HandlingOk, Awaits
    <2> QED BY <1>1, <2>1, <2>2, <2>3, ReadAnswerOk
  <1>3. CASE DeleteRead(x)
    <2> DEFINE y == [x EXCEPT !.at = "delete"]
    <2>1. /\ x.at = "delete-get" /\ UNCHANGED <<table, effects>>
          /\ Replace(x, Responding(x, Answer(404))) \/ Replace(x, y)
      BY <1>3 DEF DeleteRead
    <2>2. x.at \in Awaits \ {"secret"}
      BY <2>1 DEF Awaits
    <2>3. Follows(x, y) /\ y.orphan = x.orphan /\ y.id = x.id /\ y.at = "delete"
      BY ExecutionFacts, Moved
    <2> HIDE DEF y
    <2>4. CASE Replace(x, Responding(x, Answer(404)))
      BY <1>1, <2>1, <2>2, <2>4, ReadAnswerOk
    <2>5. CASE Replace(x, y)
      <3>1. x.at \notin {"secret", "respond"}
        BY <2>1
      <3> QED BY <2>1, <2>3, <2>5, <3>1, MovesOk
    <2> QED BY <2>1, <2>4, <2>5
  <1>4. CASE DeleteMissing(x)
    <2>1. /\ x.at \in Awaits /\ Replace(x, Responding(x, Answer(500)))
          /\ UNCHANGED <<table, effects>>
      BY <1>4 DEF DeleteMissing, Awaits
    <2> QED BY <2>1, InternalErrorOk
  <1> QED BY <1>2, <1>3, <1>4

LEMMA FoundIs ==
  ASSUME NEW x, NEW page
  PROVE  \E a : /\ IsAnswer(a) /\ a.status = 200 /\ Found(x, page) = Responding(x, a)
               /\ a.results = page.results /\ a.token = page.token
  <1> DEFINE a == [Answer(200) EXCEPT !.results = page.results, !.token = page.token]
  <1>1. a = [status |-> 200, id |-> 0, results |-> page.results, token |-> page.token]
    <2>1. DOMAIN Answer(200) = {"status", "id", "results", "token"}
            /\ Answer(200).status = 200 /\ Answer(200).id = 0
      BY DEF Answer
    <2>2. a = [f \in {"status", "id", "results", "token"} |->
                 CASE f = "status"  -> 200
                   [] f = "id"      -> 0
                   [] f = "results" -> page.results
                   [] f = "token"   -> page.token]
      BY <2>1
    <2> QED BY <2>2
  <1>2. Found(x, page) = Responding(x, a)
    BY DEF Found
  <1> HIDE DEF a
  <1>3. IsAnswer(a) /\ a.status = 200 /\ a.results = page.results /\ a.token = page.token
    BY <1>1 DEF IsAnswer
  <1> QED BY <1>2, <1>3

LEMMA FoundOk ==
  ASSUME ServiceInv, NEW x \in executions, x.at \in {"query", "next"},
         NEW page, Replace(x, Found(x, page)),
         UNCHANGED <<call, outcome, table, effects>>
  PROVE  Kept /\ Mapped
  <1>1. PICK a : IsAnswer(a) /\ a.status = 200 /\ Found(x, page) = Responding(x, a)
    BY FoundIs
  <1>2. Replace(x, Responding(x, a))
    BY <1>1
  <1>3. Of(x).method = "GET" /\ x.at \in Awaits \ {"secret"}
    BY ExecutionFacts DEF HandlingOk, Awaits
  <1> QED BY <1>1, <1>2, <1>3, ReadAnswerOk

LEMMA QueryOk ==
  ASSUME ServiceInv, NEW x \in executions, QueryRead(x) \/ QueryNext(x),
         UNCHANGED <<deployment, call, outcome>>
  PROVE  Kept /\ Mapped
  <1>1. UNCHANGED <<table, effects>>
    BY DEF QueryRead, QueryNext
  <1>2. CASE QueryRead(x)
    <2>1. x.at = "query"
      BY <1>2 DEF QueryRead
    <2>2. PICK view \in Views :
            Replace(x, CASE deployment.backend = "DynamoDB" ->
                              Found(x, DynamoDbQuery(view, Of(x), x.token))
                         [] deployment.backend = "CosmosDB" ->
                              Found(x, CosmosDbQuery(view, Of(x)))
                         [] deployment.backend = "Firestore" /\ FirestoreThrows(x.token) ->
                              Responding(x, Answer(500))
                         [] deployment.backend = "Firestore" /\ ~FirestoreThrows(x.token) ->
                              [x EXCEPT !.at = "next", !.page = FirestoreQuery(view, Of(x))])
      BY <1>2 DEF QueryRead
    <2>3. CASE deployment.backend = "DynamoDB"
      <3>1. Replace(x, Found(x, DynamoDbQuery(view, Of(x), x.token)))
        BY <2>2, <2>3
      <3> QED BY <1>1, <2>1, <3>1, FoundOk
    <2>4. CASE deployment.backend = "CosmosDB"
      <3>1. Replace(x, Found(x, CosmosDbQuery(view, Of(x))))
        BY <2>2, <2>4
      <3> QED BY <1>1, <2>1, <3>1, FoundOk
    <2>5. CASE deployment.backend = "Firestore" /\ FirestoreThrows(x.token)
      <3>1. Replace(x, Responding(x, Answer(500)))
        BY <2>2, <2>5
      <3>2. x.at \in Awaits
        BY <2>1 DEF Awaits
      <3> QED BY <1>1, <3>1, <3>2, InternalErrorOk
    <2>6. CASE deployment.backend = "Firestore" /\ ~FirestoreThrows(x.token)
      <3> DEFINE y == [x EXCEPT !.at = "next", !.page = FirestoreQuery(view, Of(x))]
      <3>1. Replace(x, y)
        BY <2>2, <2>6
      <3>2. Follows(x, y) /\ y.orphan = x.orphan /\ y.id = x.id /\ y.at = "next"
        BY ExecutionFacts, MovedToNext
      <3> HIDE DEF y
      <3> QED BY <1>1, <2>1, <3>1, <3>2, MovesOk
    <2> QED BY <2>3, <2>4, <2>5, <2>6, ExecutionFacts, DeploymentsAssumption
  <1>3. CASE QueryNext(x)
    <2>1. x.at = "next"
            /\ Replace(x, Found(x, [results |-> x.page,
                                    token   |-> NextPageStartToken(table, Of(x), x.page)]))
      BY <1>3 DEF QueryNext
    <2> QED BY <1>1, <2>1, FoundOk
  <1> QED BY <1>2, <1>3

LEMMA ExecuteOk ==
  ASSUME ServiceInv, NEW x \in executions, Execute(x)
  PROVE  Kept /\ Mapped
  <1>1. UNCHANGED <<deployment, call, outcome>> /\ Handle(x)
    BY DEF Execute
  <1>2. CASE LoadSecurity(x)
    BY <1>1, <1>2, LoadOk
  <1>3. CASE CreatePut(x)
    BY <1>1, <1>3, CreateOk
  <1>4. CASE CreateCompleted(x)
    BY <1>1, <1>4, CompletedOk
  <1>5. CASE UpdatePut(x)
    BY <1>1, <1>5, UpdateOk
  <1>6. CASE GetRead(x) \/ DeleteRead(x) \/ DeleteMissing(x)
    BY <1>1, <1>6, ReadOk
  <1>7. CASE DeleteDelete(x)
    BY <1>1, <1>7, DeleteOk
  <1>8. CASE QueryRead(x) \/ QueryNext(x)
    BY <1>1, <1>8, QueryOk
  <1> QED BY <1>1, <1>2, <1>3, <1>4, <1>5, <1>6, <1>7, <1>8 DEF Handle

LEMMA FailsOk ==
  ASSUME ServiceInv, NEW x \in executions, Fails(x)
  PROVE  Kept /\ Mapped
  <1>1. /\ x.at \in Awaits /\ Replace(x, Responding(x, Answer(500)))
        /\ UNCHANGED <<call, outcome, table, effects>>
    BY DEF Fails, Throws, clientVars
  <1> QED BY <1>1, InternalErrorOk

-----------------------------------------------------------------------------
(* Answers, and what the network does to them.                             *)

(* An execution that ends, or that its caller no longer awaits.             *)
LEMMA LetGo ==
  ASSUME ServiceInv, NEW x \in executions, ~ x.orphan
  PROVE  /\ x.caller \in Callers /\ call[x.caller].pc = "sent" /\ x.step = Step(x.caller)
         /\ Inv(call, outcome, executions \ {x}, effects)
         /\ \A z \in executions \ {x} : z.orphan \/ z.caller # x.caller
         /\ LET y == [x EXCEPT !.orphan = TRUE]
                E == (executions \ {x}) \cup {y}
            IN  /\ Inv(call, outcome, E, effects)
                /\ \A z \in E : z.orphan \/ z.caller # x.caller
  <1>1. x.caller \in Callers /\ call[x.caller].pc = "sent" /\ x.step = Step(x.caller)
    BY ExecutionFacts DEF BelongsOk, Step
  <1>2. Inv(call, outcome, executions \ {x}, effects)
    BY ExecutionFacts, FewerKeep
  <1>3. \A z \in executions \ {x} : z.orphan \/ z.caller # x.caller
    BY DEF ServiceInv, ExecutionsInv, Single
  <1> DEFINE y == [x EXCEPT !.orphan = TRUE]
             E == (executions \ {x}) \cup {y}
  <1>4. /\ Follows(x, y) /\ y.orphan \in BOOLEAN /\ y.orphan
        /\ y.id = x.id /\ y.at = x.at /\ y.answer = x.answer
    BY ExecutionFacts, Orphaned
  <1> HIDE DEF y
  <1>5. Of(y) = Of(x) /\ (Allowed(y) <=> Allowed(x)) /\ y.caller = x.caller /\ y.step = x.step
    BY <1>4 DEF Follows, Of, Allowed
  <1>6. BelongsOk(y, call, outcome)
    BY <1>4, <1>5, ExecutionFacts DEF BelongsOk, Follows
  <1>7. HandlingOk(y, effects)
    BY <1>4, <1>5, ExecutionFacts DEF HandlingOk
  <1>8. AccessOk(y)
    BY <1>4, <1>5, ExecutionFacts DEF AccessOk
  <1>9. ExecutionOk(y, call, outcome, effects) /\ (Waits(y) => Waits(x))
    BY <1>4, <1>6, <1>7, <1>8 DEF ExecutionOk, Waits
  <1>10. Inv(call, outcome, E, effects)
    BY <1>4, <1>9, ExecutionFacts, ReplaceKeeps
  <1>11. \A z \in E : z.orphan \/ z.caller # x.caller
    BY <1>3, <1>4
  <1> QED BY <1>1, <1>2, <1>3, <1>10, <1>11 DEF y

LEMMA RespondOk ==
  ASSUME ServiceInv, NEW x \in executions, Respond(x)
  PROVE  Kept /\ Mapped
  <1>1. /\ x.at = "respond" /\ executions' = executions \ {x}
        /\ UNCHANGED <<deployment, table, effects>>
    BY DEF Respond
  <1>2. CASE x.orphan
    <2>1. Inv(call, outcome, executions \ {x}, effects)
      BY ExecutionFacts, FewerKeep
    <2>2. UNCHANGED <<call, outcome>>
      BY <1>2 DEF Respond, clientVars
    <2> QED BY <1>1, <2>1, <2>2 DEF Kept, Mapped
  <1>3. CASE ~ x.orphan
    <2>1. Answered(x.caller, x.answer)
      BY <1>3 DEF Respond
    <2>2. /\ x.caller \in Callers /\ call[x.caller].pc = "sent" /\ x.step = Step(x.caller)
          /\ Inv(call, outcome, executions', effects)
          /\ \A z \in executions' : z.orphan \/ z.caller # x.caller
      BY <1>1, <1>3, LetGo
    <2>3. Truthful(x.caller, x.answer)
      <3>1. MethodOf(x.caller, Step(x.caller)) = Of(x).method
        BY <2>2 DEF MethodOf, Of
      <3>2. IsAnswer(x.answer)
        BY ExecutionFacts DEF IsExecution
      <3> QED BY <1>1, <2>2, <3>1, <3>2, ExecutionFacts DEF Truthful, HandlingOk
    <2> QED BY <1>1, <2>1, <2>2, <2>3, AnsweredOk
  <1> QED BY <1>2, <1>3

LEMMA GatewayOk ==
  ASSUME ServiceInv, NEW x \in executions, GatewayFails(x)
  PROVE  Kept /\ Mapped
  <1> DEFINE y == [x EXCEPT !.orphan = TRUE]
             E == (executions \ {x}) \cup {y}
  <1>1. /\ ~ x.orphan /\ Answered(x.caller, Answer(503))
        /\ executions' = E \/ executions' = executions \ {x}
        /\ UNCHANGED <<deployment, table, effects>>
    BY DEF GatewayFails, Replace
  <1>2. /\ Inv(call, outcome, executions \ {x}, effects)
        /\ \A z \in executions \ {x} : z.orphan \/ z.caller # x.caller
        /\ Inv(call, outcome, E, effects)
        /\ \A z \in E : z.orphan \/ z.caller # x.caller
        /\ x.caller \in Callers /\ call[x.caller].pc = "sent"
    BY <1>1, LetGo
  <1> HIDE DEF E
  <1>3. Truthful(x.caller, Answer(503))
    <2>1. IsAnswer(Answer(503)) /\ Answer(503).status = 503
      BY AnswerIs
    <2> QED BY <2>1 DEF Truthful
  <1>4. /\ Inv(call, outcome, executions', effects)
        /\ \A z \in executions' : z.orphan \/ z.caller # x.caller
    BY <1>1, <1>2
  <1> QED BY <1>1, <1>2, <1>3, <1>4, AnsweredOk

LEMMA BreakOk ==
  ASSUME ServiceInv, NEW x \in executions, ConnectionBreaks(x)
  PROVE  Kept /\ Mapped
  <1>1. /\ ~ x.orphan /\ Reject(x.caller, 0)
        /\ executions' = (executions \ {x}) \cup {[x EXCEPT !.orphan = TRUE]}
        /\ UNCHANGED <<deployment, table, effects>>
    BY DEF ConnectionBreaks, Replace, Disconnect
  <1>2. /\ Inv(call, outcome, executions', effects)
        /\ \A z \in executions' : z.orphan \/ z.caller # x.caller
        /\ x.caller \in Callers /\ call[x.caller].pc = "sent"
    BY <1>1, LetGo
  <1>3. Step(x.caller) \in DOMAIN deployment.program[x.caller]
    BY <1>2, IdleFacts DEF CallOk, Step
  <1> QED BY <1>1, <1>2, <1>3, RejectOk

LEMMA TickOk ==
  ASSUME ServiceInv, Tick
  PROVE  Kept /\ Mapped
  <1> DEFINE B == call'
  <1>1. /\ call' = [c \in Callers |->
                      [call[c] EXCEPT !.wait = IF @ > 0 THEN @ - 1 ELSE 0]]
        /\ UNCHANGED <<deployment, table, executions, effects, outcome>>
    BY DEF Tick, ClientAge
  <1>2. ASSUME NEW c \in Callers
        PROVE  IsCall(call'[c]) /\ call'[c].pc = call[c].pc
                 /\ call'[c].attempt = call[c].attempt /\ call'[c].headers = call[c].headers
    <2> DEFINE w == IF call[c].wait > 0 THEN call[c].wait - 1 ELSE 0
    <2>1. call'[c] = [call[c] EXCEPT !.wait = w]
      BY <1>1
    <2> HIDE DEF w
    <2>2. call'[c] = CallRecord(call[c].pc, call[c].attempt, call[c].headers, w)
      BY <2>1, CallFieldsAre, IdleFacts DEF CallRecord, CallFields
    <2> QED BY <2>2, CallRecordIs
  <1>3. ClientInv(call', outcome)
    <2>1. call' = [c \in Callers |-> call'[c]]
      BY <1>1
    <2>2. ASSUME NEW c \in Callers
          PROVE  CallOk(call'[c], outcome[c], c) /\ Succeeded(call'[c], outcome[c], c)
      <3>1. CallOk(call[c], outcome[c], c) /\ Succeeded(call[c], outcome[c], c)
        BY DEF ServiceInv, ClientInv
      <3> QED BY <1>2, <3>1 DEF CallOk, HeadersOk, Succeeded
    <2> QED BY <2>1, <2>2 DEF ServiceInv, ClientInv
  <1>4. ExecutionsInv(call', outcome, executions, effects)
    <2>1. ASSUME NEW x \in executions PROVE BelongsOk(x, call', outcome)
      BY <1>2, ExecutionFacts DEF BelongsOk
    <2> QED BY <2>1 DEF ServiceInv, ExecutionsInv, ExecutionOk
  <1>5. AttemptsInv(call', outcome, executions, effects)
    <2>1. ASSUME NEW c \in Callers, NEW step \in Nat \ {0}
          PROVE  Made(call, outcome, c, step) <= Made(call', outcome, c, step)
      <3>1. Credit(call'[c]) = Credit(call[c])
        BY <1>2 DEF Credit
      <3>2. Made(call, outcome, c, step) = Made(call', outcome, c, step)
        BY <3>1 DEF Made
      <3>3. Made(call, outcome, c, step) \in Int
        BY MadeIs DEF ServiceInv
      <3> QED BY <3>2, <3>3
    <2> QED BY <1>3, <2>1, MoreMade DEF ServiceInv
  <1> QED BY <1>1, <1>3, <1>4, <1>5 DEF Kept, Mapped, Inv

-----------------------------------------------------------------------------
(* The invariant, and the store.                                           *)

LEMMA InitOk ==
  ASSUME Init
  PROVE  ServiceInv /\ Store!StoreInit
  <1>1. /\ deployment \in Deployments /\ executions = {} /\ effects = {}
        /\ call = [c \in Callers |->
                     [pc |-> "idle", attempt |-> 0, headers |-> NoHeaders, wait |-> 0]]
        /\ outcome = [c \in Callers |-> <<>>]
    BY DEF Init, ClientInit, ApiInit
  <1>2. ClientInv(call, outcome)
    <2>1. call = [c \in Callers |-> call[c]] /\ outcome \in [Callers -> Seq(Results)]
      BY <1>1
    <2>2. ASSUME NEW c \in Callers
          PROVE  CallOk(call[c], outcome[c], c) /\ Succeeded(call[c], outcome[c], c)
      <3>1. call[c] = [pc |-> "idle", attempt |-> 0, headers |-> NoHeaders, wait |-> 0]
              /\ outcome[c] = <<>>
        BY <1>1
      <3> QED BY <3>1 DEF CallOk, IsCall, HeadersOk, Succeeded
    <2> QED BY <2>1, <2>2 DEF ClientInv
  <1>3. ExecutionsInv(call, outcome, executions, effects)
    BY <1>1 DEF ExecutionsInv, Single
  <1>4. AttemptsInv(call, outcome, executions, effects)
    <2>1. ASSUME NEW c \in Callers, NEW step \in Nat \ {0}
          PROVE  AttemptsOk(call, outcome, executions, effects, c, step)
      <3>1. Written(effects, c, step) = {} /\ Unspent(executions, c, step) = {}
        BY <1>1 DEF Written, Unspent
      <3>2. Made(call, outcome, c, step) = 0
        <4>1. call[c].pc = "idle" /\ outcome[c] = <<>>
          BY <1>1
        <4> QED BY <4>1 DEF Made, Credit
      <3> QED BY <3>1, <3>2, FS_EmptySet DEF AttemptsOk
    <2> QED BY <1>1, <2>1, FS_EmptySet DEF AttemptsInv
  <1> QED BY <1>1, <1>2, <1>3, <1>4 DEF ServiceInv, Store!StoreInit

LEMMA NextOk ==
  ASSUME ServiceInv, Next
  PROVE  Kept /\ Mapped /\ UNCHANGED deployment
  <1>1. UNCHANGED deployment
    BY DEF Next, Ongoing, CallerStep, ServiceStep, Failure, Done, Begin, FetchCredential, Send,
           SigningThrows, Continue, Execute, Respond, Fails, GatewayFails, ConnectionBreaks,
           FetchFails, Tick, vars
  <1>2. ASSUME NEW c \in Callers, CallerStep(c)
        PROVE  Kept /\ Mapped
    <2>1. CASE Begin(c)
      BY <2>1, BeginOk
    <2>2. CASE FetchCredential(c)
      BY <2>2, FetchOk
    <2>3. CASE Send(c)
      BY <2>3, SendOk
    <2>4. CASE SigningThrows(c)
      BY <2>4, SignFailsOk DEF SigningThrows, apiVars
    <2>5. CASE Continue(c)
      BY <2>5, ContinueOk
    <2> QED BY <1>2, <2>1, <2>2, <2>3, <2>4, <2>5 DEF CallerStep
  <1>3. ASSUME ServiceStep PROVE Kept /\ Mapped
    BY <1>3, ExecuteOk, RespondOk DEF ServiceStep
  <1>4. ASSUME Tick PROVE Kept /\ Mapped
    BY <1>4, TickOk
  <1>5. ASSUME Failure PROVE Kept /\ Mapped
    <2>1. ASSUME NEW x \in executions, Fails(x) \/ GatewayFails(x) \/ ConnectionBreaks(x)
          PROVE  Kept /\ Mapped
      BY <2>1, FailsOk, GatewayOk, BreakOk
    <2>2. ASSUME NEW c \in Callers, FetchFails(c)
          PROVE  Kept /\ Mapped
      <3>1. PICK status \in {0, 404, 503} : ProviderFails(c, status)
        BY <2>2 DEF FetchFails
      <3> QED BY <2>2, <3>1, ProviderFailsOk DEF FetchFails, apiVars
    <2> QED BY <1>5, <2>1, <2>2 DEF Failure
  <1>6. ASSUME Done PROVE Kept /\ Mapped
    <2>1. UNCHANGED <<call, outcome, executions, effects, table>>
      BY <1>6 DEF Done, vars, apiVars
    <2> QED BY <2>1 DEF Kept, Mapped, ServiceInv, Inv
  <1> QED BY <1>1, <1>2, <1>3, <1>4, <1>5, <1>6 DEF Next, Ongoing

(* Only the deployment is not a parameter of the parts: it stays.           *)
LEMMA KeptNext ==
  ASSUME ServiceInv, Kept, UNCHANGED deployment
  PROVE  ServiceInv'
  <1>1. /\ ClientInv(call', outcome') /\ deployment \in Deployments
        /\ ExecutionsInv(call', outcome', executions', effects')
        /\ AttemptsInv(call', outcome', executions', effects')
    BY DEF Kept, Inv, ServiceInv
  <1>2. ClientInv(call, outcome)'
    <2>1. ASSUME NEW c \in Callers
          PROVE  CallOk(call[c], outcome[c], c)'
      <3>1. CallOk(call'[c], outcome'[c], c)
        BY <1>1 DEF ClientInv
      <3> QED BY <3>1 DEF CallOk, HeadersOk, Authenticator, TargetOf, Request
    <2>2. ASSUME NEW c \in Callers
          PROVE  Succeeded(call[c], outcome[c], c)'
      <3>1. Succeeded(call'[c], outcome'[c], c)
        BY <1>1 DEF ClientInv
      <3> QED BY <3>1 DEF Succeeded, MethodOf, Request
    <2> QED BY <1>1, <2>1, <2>2 DEF ClientInv
  <1>3. ExecutionsInv(call, outcome, executions, effects)'
    <2>1. ASSUME NEW x \in executions'
          PROVE  /\ BelongsOk(x, call', outcome') /\ HandlingOk(x, effects') /\ AccessOk(x)
                 /\ x.caller \in Callers
      BY <1>1 DEF ExecutionsInv, ExecutionOk, BelongsOk
    <2>2. ASSUME NEW x \in executions' PROVE BelongsOk(x, call, outcome)'
      <3>1. BelongsOk(x, call', outcome')
        BY <2>1
      <3> QED BY <3>1 DEF BelongsOk, Of, TargetOf, Request
    <2>3. ASSUME NEW x \in executions' PROVE HandlingOk(x, effects)'
      <3>1. HandlingOk(x, effects')
        BY <2>1
      <3> QED BY <3>1 DEF HandlingOk, Of, Request
    <2>4. ASSUME NEW x \in executions' PROVE AccessOk(x)'
      <3>1. AccessOk(x)
        BY <2>1
      <3> QED BY <3>1 DEF AccessOk, Allowed, ApiKey, Authenticator, Of, Request
    <2> QED BY <1>1, <2>2, <2>3, <2>4 DEF ExecutionsInv, ExecutionOk
  <1>4. AttemptsInv(call, outcome, executions, effects)'
    BY <1>1 DEF AttemptsInv, MethodOf, Request
  <1> QED BY <1>1, <1>2, <1>3, <1>4 DEF ServiceInv

(* The invariant that the others follow from: every execution belongs to a  *)
(* request of its caller and has the target that its caller meant, an       *)
(* answer says the truth about the writes, and creates that took effect or  *)
(* still may are no more than the attempts that HttpClient made.           *)
THEOREM ServiceInvariant == Spec => []ServiceInv
  <1>1. Init => ServiceInv
    BY InitOk
  <1>2. ServiceInv /\ [Next]_vars => ServiceInv'
    <2>1. CASE Next
      BY <2>1, NextOk, KeptNext
    <2>2. ASSUME ServiceInv, UNCHANGED vars PROVE ServiceInv'
      <3>1. Kept /\ UNCHANGED deployment
        BY <2>2 DEF vars, apiVars, Kept, Inv, ServiceInv
      <3> QED BY <2>2, <3>1, KeptNext
    <2> QED BY <2>1, <2>2
  <1> QED BY <1>1, <1>2, PTL DEF Spec

(* The resources behind an API, whose clients repeat requests and whose     *)
(* executions are cut off, overtake each other and are answered for by a    *)
(* gateway, are a store: HttpClient, McmaApiController and the default      *)
(* routes over a table implement ResourceStore.                            *)
THEOREM ServiceIsStore == Spec => StoreSpec
  <1>1. Init => Store!StoreInit
    BY InitOk
  <1>2. ServiceInv /\ [Next]_vars => [Store!StoreNext]_(Store!storeVars)
    <2>1. ASSUME ServiceInv, Next
          PROVE  Store!StoreNext \/ UNCHANGED Store!storeVars
      BY <2>1, NextOk DEF Mapped, Store!storeVars
    <2>2. ASSUME UNCHANGED vars PROVE UNCHANGED Store!storeVars
      BY <2>2 DEF vars, apiVars, Store!storeVars
    <2> QED BY <2>1, <2>2
  <1> QED BY <1>1, <1>2, ServiceInvariant, PTL DEF Spec, StoreSpec, Store!StoreSpec

(* McmaApiKeySecurityMiddleware: a request is refused unless the first rule  *)
(* that matches its path grants it, in one of the entries of the            *)
(* configuration that its key stands for, and then it is not, whichever     *)
(* request loads the configuration.                                        *)
THEOREM AccessIsExact == Spec => []AccessExact
  <1>1. ServiceInv => AccessExact
    BY DEF ServiceInv, ExecutionsInv, ExecutionOk, AccessOk, Allowed, AccessExact
  <1> QED BY <1>1, ServiceInvariant, PTL

(* No attempt is sent with an expired token or a signature that does not    *)
(* verify, provided that no request that AwsV4Authenticator signs carries a *)
(* tracker: the run http_resign shows what happens to one that does.       *)
THEOREM AttemptsAreSignedAnew ==
  ASSUME Untracked
  PROVE  Spec => []SignedAnew
  <1>1. ServiceInv => SignedAnew
    BY DEF ServiceInv, ExecutionsInv, ExecutionOk, BelongsOk, SignedAnew
  <1> QED BY <1>1, ServiceInvariant, PTL

-----------------------------------------------------------------------------
(* The adapters of the cloud functions.                                    *)

(* The characters of paths: the provers do not know of any string that it   *)
(* is one.                                                                 *)
Characters == STRING \cup {"/"}

(* A path that begins with a slash.                                         *)
LEMMA SlashFirst ==
  ASSUME NEW q \in Seq(Characters)
  PROVE  /\ Slash \o q \in Seq(Characters) /\ Len(Slash \o q) = Len(q) + 1
         /\ (Slash \o q)[1] = "/" /\ Slash \o q # <<>>
         /\ \A k \in 1 .. Len(q) : (Slash \o q)[k + 1] = q[k]
  <1>1. Len(Slash) = 1 /\ Slash[1] = "/" /\ Slash = [i \in 1 .. 1 |-> "/"]
    BY DEF Slash
  <1>2. Slash \in Seq(Characters)
    <2>1. [i \in 1 .. 1 |-> "/"] \in [1 .. 1 -> Characters]
      BY DEF Characters
    <2>2. Slash \in [1 .. 1 -> Characters]
      BY <1>1, <2>1, Zenon
    <2>3. 1 \in Nat
      OBVIOUS
    <2>4. Seq(Characters) = UNION {[1 .. n -> Characters] : n \in Nat}
      BY SeqDef, Zenon
    <2> QED BY <2>2, <2>3, <2>4, Zenon
  <1>3. Len(q) \in Nat
    BY LenProperties
  <1>4. /\ Slash \o q \in Seq(Characters) /\ Len(Slash \o q) = 1 + Len(q)
        /\ \A i \in 1 .. 1 + Len(q) : (Slash \o q)[i] = IF i <= 1 THEN Slash[i] ELSE q[i - 1]
    BY <1>1, <1>2, ConcatProperties
  <1>5. Slash \o q # <<>>
    BY <1>3, <1>4, EmptySeq
  <1> DEFINE w == Slash \o q
  <1> HIDE DEF w
  <1>6. w[1] = "/" /\ \A k \in 1 .. Len(q) : w[k + 1] = q[k]
    <2>1. \A i \in 1 .. 1 + Len(q) : w[i] = IF i <= 1 THEN Slash[i] ELSE q[i - 1]
      BY <1>4 DEF w
    <2>2. 1 \in 1 .. 1 + Len(q)
      BY <1>3
    <2>3. w[1] = "/"
      BY <1>1, <2>1, <2>2
    <2>4. ASSUME NEW k \in 1 .. Len(q) PROVE w[k + 1] = q[k]
      <3>1. k + 1 \in 1 .. 1 + Len(q) /\ ~ (k + 1 <= 1) /\ (k + 1) - 1 = k
        BY <1>3
      <3>2. w[k + 1] = IF k + 1 <= 1 THEN Slash[k + 1] ELSE q[(k + 1) - 1]
        BY <2>1, <3>1, Zenon
      <3> QED BY <3>1, <3>2, Zenon
    <2> QED BY <2>3, <2>4
  <1> QED BY <1>3, <1>4, <1>5, <1>6 DEF w

(* What is left of a path without its first characters.                     *)
LEMMA SuffixIs ==
  ASSUME NEW p \in Seq(Characters), NEW a \in 1 .. Len(p)
  PROVE  /\ SubSeq(p, a, Len(p)) \in Seq(Characters)
         /\ Len(SubSeq(p, a, Len(p))) = Len(p) - a + 1
         /\ SubSeq(p, a, Len(p)) # <<>>
         /\ \A k \in 1 .. Len(p) - a + 1 : SubSeq(p, a, Len(p))[k] = p[a + k - 1]
  <1>1. Len(p) \in Nat /\ a \in Int /\ a <= Len(p) /\ \A i \in a .. Len(p) : p[i] \in Characters
    BY LenProperties, ElementOfSeq
  <1>2. /\ SubSeq(p, a, Len(p)) \in Seq(Characters)
        /\ Len(SubSeq(p, a, Len(p))) = Len(p) - a + 1
        /\ \A k \in 1 .. Len(p) - a + 1 : SubSeq(p, a, Len(p))[k] = p[a + k - 1]
    BY <1>1, SubSeqProperties
  <1>3. ASSUME SubSeq(p, a, Len(p)) = <<>> PROVE FALSE
    <2>1. Len(SubSeq(p, a, Len(p))) = 0
      BY <1>3, EmptySeq, Zenon
    <2> QED BY <1>1, <1>2, <2>1
  <1> QED BY <1>2, <1>3

(* Dropping what a path was prefixed with.                                  *)
LEMMA SubstringDrops ==
  ASSUME NEW p \in Seq(Characters), NEW q \in Seq(Characters)
  PROVE  Substring(p \o q, Len(p)) = q
  <1>1. /\ p \o q \in Seq(Characters) /\ Len(p \o q) = Len(p) + Len(q)
        /\ Len(p) \in Nat /\ Len(q) \in Nat
        /\ \A k \in 1 .. Len(q) : (p \o q)[Len(p) + k] = q[k]
    OBVIOUS
  <1> DEFINE w == p \o q
             r == SubSeq(w, Len(p) + 1, Len(w))
  <1>2. r \in Seq(Characters) /\ Len(r) = Len(q)
    BY <1>1
  <1>3. \A k \in 1 .. Len(q) : r[k] = w[Len(p) + k]
    BY <1>1
  <1>4. r = q
    <2>1. \A k \in 1 .. Len(q) : r[k] = q[k]
      BY <1>1, <1>3
    <2> HIDE DEF r
    <2> QED BY <1>2, <2>1
  <1> QED BY <1>4 DEF Substring

(* What the host of Azure Functions makes of a route prefix without a slash *)
(* at its end: the prefix from its first character that is none.           *)
LEMMA TrimKeeps ==
  ASSUME NEW p \in Seq(Characters), p # <<>>, p[Len(p)] # "/"
  PROVE  \E a \in 1 .. Len(p) :
           /\ Trim(p) = SubSeq(p, a, Len(p)) /\ p[a] # "/"
           /\ \A j \in 1 .. Len(p) : j < a => p[j] = "/"
  <1> DEFINE kept == {k \in DOMAIN p : p[k] # "/"}
             first == CHOOSE k \in kept : \A j \in kept : k <= j
             last == CHOOSE k \in kept : \A j \in kept : j <= k
  <1>1. Len(p) \in Nat \ {0} /\ DOMAIN p = 1 .. Len(p)
    OBVIOUS
  <1>2. Len(p) \in kept /\ kept \subseteq 1 .. Len(p)
    BY <1>1
  <1>3. first \in kept /\ \A j \in kept : first <= j
    <2>1. kept \subseteq Nat /\ kept # {}
      BY <1>1, <1>2
    <2> HIDE DEF kept
    <2>2. \E k \in kept : \A j \in kept : k <= j
      BY <2>1, LeastExists
    <2> QED BY <2>2
  <1>4. last \in kept /\ \A j \in kept : j <= last
    <2>1. \A j \in kept : j <= Len(p)
      BY <1>1, <1>2
    <2> HIDE DEF kept
    <2> QED BY <1>2, <2>1
  <1>5. last = Len(p)
    <2>1. last \in 1 .. Len(p) /\ Len(p) <= last
      <3> HIDE DEF last
      <3> QED BY <1>2, <1>4
    <2>2. \A n \in Nat : \A k \in 1 .. n : n <= k => k = n
      OBVIOUS
    <2> HIDE DEF last
    <2> QED BY <1>1, <2>1, <2>2, Zenon
  <1>6. Trim(p) = SubSeq(p, first, last)
    <2>1. kept # {}
      BY <1>2
    <2> QED BY <2>1, Zenon DEF Trim
  <1>7. first \in 1 .. Len(p) /\ p[first] # "/"
    <2> HIDE DEF first
    <2> QED BY <1>1, <1>3
  <1>8. \A j \in 1 .. Len(p) : j < first => p[j] = "/"
    <2> HIDE DEF first
    <2> QED BY <1>1, <1>3, <1>7
  <1> HIDE DEF first, last, kept
  <1> QED BY <1>5, <1>6, <1>7, <1>8

LEMMA PrefixAgrees ==
  ASSUME NEW p \in Seq(Characters), NEW q \in Seq(Characters), IsPrefix(p, q), 2 <= Len(p)
  PROVE  p[2] = q[2]
  <1>1. SubSeq(p, 1, Len(p)) = SubSeq(q, 1, Len(p)) /\ Len(p) <= Len(q)
    BY DEF IsPrefix
  <1>2. /\ 1 \in Int /\ Len(p) \in Int /\ Len(q) \in Int
        /\ 2 \in 1 .. Len(p) - 1 + 1 /\ 1 + 2 - 1 = 2
    OBVIOUS
  <1>3. /\ \A i \in 1 .. Len(p) : p[i] \in Characters
        /\ \A i \in 1 .. Len(q) : q[i] \in Characters
    BY ElementOfSeq
  <1>4. \A i \in 1 .. Len(p) : q[i] \in Characters
    BY <1>1, <1>2, <1>3
  <1>5. \A i \in 1 .. Len(p) - 1 + 1 : SubSeq(p, 1, Len(p))[i] = p[1 + i - 1]
    BY <1>2, <1>3, SubSeqProperties
  <1>6. \A i \in 1 .. Len(p) - 1 + 1 : SubSeq(q, 1, Len(p))[i] = q[1 + i - 1]
    BY <1>2, <1>4, SubSeqProperties
  <1> QED BY <1>1, <1>2, <1>5, <1>6

(* The host mounts the functions behind the prefix that the controller       *)
(* expects, if no slash ends the route prefix and no two begin it.           *)
LEMMA PrefixIsMounted ==
  ASSUME NEW p \in Seq(Characters), NEW path \in Seq(Characters), NEW prefix, NEW pathname,
         prefix = IF p = <<>> \/ p[1] = "/" THEN p ELSE Slash \o p,
         pathname = IF Trim(p) = <<>> THEN path ELSE Slash \o Trim(p) \o path,
         prefix = <<>> \/ Last(prefix) # "/",
         ~ (Len(p) > 1 /\ p[1] = "/" /\ p[2] = "/")
  PROVE  pathname = prefix \o path
  <1>1. CASE p = <<>>
    <2>1. Trim(p) = <<>>
      BY <1>1 DEF Trim
    <2>2. <<>> \o path = path
      OBVIOUS
    <2> QED BY <1>1, <2>1, <2>2
  <1>2. CASE p # <<>> /\ p[1] # "/"
    <2>2. prefix = Slash \o p
      BY <1>2
    <2>3. /\ Len(p) \in Nat \ {0} /\ Len(prefix) = Len(p) + 1 /\ prefix[Len(p) + 1] = p[Len(p)]
          /\ prefix # <<>> /\ prefix \in Seq(Characters)
      <3>1. Len(p) \in Nat \ {0}
        BY <1>2
      <3>2. Len(p) \in 1 .. Len(p)
        BY <3>1
      <3>3. /\ Len(prefix) = Len(p) + 1 /\ prefix # <<>> /\ prefix \in Seq(Characters)
            /\ \A k \in 1 .. Len(p) : prefix[k + 1] = p[k]
        BY <2>2, SlashFirst, Zenon
      <3> QED BY <3>1, <3>2, <3>3
    <2>4. p[Len(p)] # "/"
      BY <2>3 DEF Last
    <2>5. PICK a \in 1 .. Len(p) :
            /\ Trim(p) = SubSeq(p, a, Len(p)) /\ p[a] # "/"
            /\ \A j \in 1 .. Len(p) : j < a => p[j] = "/"
      BY <1>2, <2>4, TrimKeeps
    <2>6. a = 1
      BY <1>2, <2>3, <2>5
    <2>7. Trim(p) = p
      BY <2>3, <2>5, <2>6
    <2>8. pathname = prefix \o path
      BY <1>2, <2>2, <2>7
    <2> QED BY <2>8
  <1>3. CASE p # <<>> /\ p[1] = "/"
    <2>2. prefix = p /\ Len(p) \in Nat \ {0}
      BY <1>3
    <2>3. p[Len(p)] # "/"
      BY <1>3, <2>2 DEF Last
    <2>4. Len(p) >= 2
      BY <1>3, <2>2, <2>3
    <2>5. PICK a \in 1 .. Len(p) :
            /\ Trim(p) = SubSeq(p, a, Len(p)) /\ p[a] # "/"
            /\ \A j \in 1 .. Len(p) : j < a => p[j] = "/"
      BY <1>3, <2>3, TrimKeeps
    <2>6. a >= 2
      BY <1>3, <2>5
    <2> DEFINE t == SubSeq(p, a, Len(p))
    <2>7. t \in Seq(Characters) /\ Len(t) = Len(p) - a + 1 /\ t # <<>> /\ t[1] = p[a]
      <3>1. /\ t \in Seq(Characters) /\ Len(t) = Len(p) - a + 1 /\ t # <<>>
            /\ \A k \in 1 .. Len(p) - a + 1 : t[k] = p[a + k - 1]
        BY SuffixIs
      <3> HIDE DEF t
      <3>2. 1 \in 1 .. Len(p) - a + 1 /\ a + 1 - 1 = a
        BY <2>2
      <3> QED BY <3>1, <3>2
    <2>8. pathname = Slash \o t \o path
      BY <2>5, <2>7
    <2>11. a = 2
      <3>1. p[2] # "/"
        BY <1>3, <2>4
      <3>2. ~ (2 < a)
        <4>1. 2 \in 1 .. Len(p)
          BY <2>2, <2>4
        <4> QED BY <2>5, <3>1, <4>1, Zenon
      <3> QED BY <2>2, <2>6, <3>2
    <2>12. Slash \o t = p
      <3>1. Len(Slash \o t) = Len(p) /\ Slash \o t \in Seq(Characters)
        <4>1. Len(t) + 1 = Len(p)
          BY <2>2, <2>7, <2>11
        <4> HIDE DEF t
        <4> QED BY <2>7, <4>1, SlashFirst
      <3>2. ASSUME NEW j \in 1 .. Len(p) PROVE (Slash \o t)[j] = p[j]
        <4>1. /\ \A k \in 1 .. Len(p) - a + 1 : t[k] = p[a + k - 1]
              /\ (Slash \o t)[1] = "/"
              /\ \A k \in 1 .. Len(t) : (Slash \o t)[k + 1] = t[k]
          BY <2>7, SlashFirst, SuffixIs
        <4>2. CASE j = 1
          BY <1>3, <4>1, <4>2
        <4>3. CASE j # 1
          <5>1. /\ j - 1 \in 1 .. Len(p) - a + 1 /\ j - 1 \in 1 .. Len(t)
                /\ (j - 1) + 1 = j /\ a + (j - 1) - 1 = j
            <6> HIDE DEF t
            <6> QED BY <2>2, <2>7, <2>11, <4>3
          <5> HIDE DEF t
          <5> QED BY <4>1, <5>1
        <4> QED BY <4>2, <4>3
      <3> HIDE DEF t
      <3> DEFINE w == Slash \o t
      <3> HIDE DEF w
      <3>3. /\ w \in Seq(Characters) /\ Len(w) = Len(p) /\ \A j \in 1 .. Len(w) : w[j] = p[j]
        BY <3>1, <3>2 DEF w
      <3>4. w = p
        BY <3>3, SeqEqual
      <3> QED BY <3>4 DEF w
    <2>13. pathname = p \o path
      BY <2>8, <2>12
    <2> QED BY <2>2, <2>13
  <1> QED BY <1>1, <1>2, <1>3

(* A route prefix that begins with two slashes is never what a path begins   *)
(* with.                                                                   *)
LEMMA DoubledIsRefused ==
  ASSUME NEW p \in Seq(Characters), NEW path \in Seq(Characters), NEW pathname,
         pathname = IF Trim(p) = <<>> THEN path ELSE Slash \o Trim(p) \o path,
         Last(p) # "/", Len(p) > 1 /\ p[1] = "/" /\ p[2] = "/"
  PROVE  ~ IsPrefix(p, pathname)
  <1>1. SUFFICES ASSUME IsPrefix(p, pathname) PROVE FALSE
    OBVIOUS
  <1>2. Len(p) \in Nat \ {0} /\ p # <<>> /\ p[Len(p)] # "/" /\ Len(p) >= 2
    BY DEF Last
  <1>5. PICK a \in 1 .. Len(p) :
          /\ Trim(p) = SubSeq(p, a, Len(p)) /\ p[a] # "/"
          /\ \A j \in 1 .. Len(p) : j < a => p[j] = "/"
    BY <1>2, TrimKeeps
  <1>6. a >= 2
    BY <1>5
  <1> DEFINE t == SubSeq(p, a, Len(p))
  <1>7. t \in Seq(Characters) /\ Len(t) = Len(p) - a + 1 /\ t # <<>> /\ t[1] = p[a]
    <2>1. /\ t \in Seq(Characters) /\ Len(t) = Len(p) - a + 1 /\ t # <<>>
          /\ \A k \in 1 .. Len(p) - a + 1 : t[k] = p[a + k - 1]
      BY SuffixIs
    <2> HIDE DEF t
    <2>2. 1 \in 1 .. Len(p) - a + 1 /\ a + 1 - 1 = a
      BY <1>2
    <2> QED BY <2>1, <2>2
  <1>8. pathname = Slash \o t \o path
    BY <1>5, <1>7
  <1>9. pathname \in Seq(Characters) /\ pathname[2] = p[a] /\ Len(pathname) >= 2
    <2> HIDE DEF t
    <2>1. Len(t) \in Nat \ {0}
      BY <1>7
    <2> DEFINE w == Slash \o t
    <2>2. w \in Seq(Characters) /\ Len(w) = Len(t) + 1 /\ w[2] = t[1]
      <3>1. 1 \in 1 .. Len(t) /\ 1 + 1 = 2
        BY <2>1
      <3> QED BY <1>7, <3>1, SlashFirst
    <2> HIDE DEF w
    <2>3. pathname = w \o path
      BY <1>8 DEF w
    <2>4. /\ w \o path \in Seq(Characters) /\ Len(w \o path) = Len(w) + Len(path)
          /\ \A i \in 1 .. Len(w) + Len(path) :
               (w \o path)[i] = IF i <= Len(w) THEN w[i] ELSE path[i - Len(w)]
      BY <2>2, ConcatProperties
    <2>5. Len(path) \in Nat
      OBVIOUS
    <2>6. 2 \in 1 .. Len(w) + Len(path) /\ 2 <= Len(w) /\ Len(w) + Len(path) >= 2
      BY <2>1, <2>2, <2>5
    <2> QED BY <1>7, <2>2, <2>3, <2>4, <2>6
  <1>10. p[2] = pathname[2]
    BY <1>1, <1>2, <1>9, PrefixAgrees
  <1> QED BY <1>5, <1>9, <1>10

LEMMA PrefixOfConcat ==
  ASSUME NEW p \in Seq(Characters), NEW q \in Seq(Characters)
  PROVE  IsPrefix(p, p \o q)
  <1> DEFINE w == p \o q
  <1>1. /\ w \in Seq(Characters) /\ Len(w) = Len(p) + Len(q) /\ Len(p) \in Nat /\ Len(q) \in Nat
        /\ \A k \in 1 .. Len(p) : w[k] = p[k]
    OBVIOUS
  <1> DEFINE r == SubSeq(w, 1, Len(p))
             s == SubSeq(p, 1, Len(p))
  <1>2. /\ r \in Seq(Characters) /\ Len(r) = Len(p) /\ s \in Seq(Characters) /\ Len(s) = Len(p)
        /\ \A k \in 1 .. Len(p) : r[k] = w[k] /\ s[k] = p[k]
    <2> HIDE DEF w
    <2> QED BY <1>1
  <1>3. r = s
    <2>1. \A k \in 1 .. Len(r) : r[k] = s[k]
      BY <1>1, <1>2
    <2> HIDE DEF r, s
    <2> QED BY <1>2, <2>1, SeqEqual
  <1>4. Len(p) <= Len(w)
    BY <1>1
  <1> QED BY <1>3, <1>4 DEF IsPrefix

(* What an adapter makes of the parts of a call, as the controller reads it. *)
Reading(body) == CASE body = "json"  -> "object"
                   [] body = "dated" -> "object with dates"
                   [] OTHER          -> body

LEMMA OrElseIs ==
  ASSUME NEW v, NEW default
  PROVE  OrElse(Some(v), default) = v /\ OrElse(Missing, default) = default
  <1>1. {v} # {} /\ (CHOOSE w \in {v} : TRUE) = v
    OBVIOUS
  <1> QED BY <1>1 DEF OrElse, Some, Missing

LEMMA BodyChanged ==
  ASSUME NEW error, NEW method, NEW path, NEW query, NEW old, NEW new, NEW m,
         m = [error |-> error, method |-> method, path |-> path, query |-> query, body |-> old]
  PROVE  [m EXCEPT !.body = new]
           = [error |-> error, method |-> method, path |-> path, query |-> query, body |-> new]
  OBVIOUS

LEMMA ParsedRecord ==
  ASSUME NEW method, NEW path, NEW query, NEW body, NEW no, no = FALSE
  PROVE  Parsed(McmaApiRequest(method, path, query, body))
           = [error |-> no, method |-> method, path |-> path,
              query |-> OrElse(query, NoParameters), body |-> Reading(OrElse(body, "null"))]
  <1> DEFINE q == OrElse(query, NoParameters)
             b == OrElse(body, "null")
             r == Reading(b)
             m == [error |-> no, method |-> method, path |-> path, query |-> q, body |-> b]
  <1>1. McmaApiRequest(method, path, query, body) = m
    BY Zenon DEF McmaApiRequest
  <1>2. m.body = b
    <2> HIDE DEF q, b
    <2> QED OBVIOUS
  <1>3. Parsed(m) = [m EXCEPT !.body = r]
    <2> HIDE DEF m, q, b
    <2> QED BY <1>2, Zenon DEF Parsed, Reading
  <1>4. [m EXCEPT !.body = r]
          = [error |-> no, method |-> method, path |-> path, query |-> q, body |-> r]
    <2> HIDE DEF q, b, r
    <2> QED BY BodyChanged
  <1> QED BY <1>1, <1>3, <1>4, Zenon

LEMMA ParsedIs ==
  ASSUME NEW method, NEW path, NEW query, NEW body, NEW request,
         request = Parsed(McmaApiRequest(method, path, query, body))
  PROVE  /\ request.method = method /\ request.path = path
         /\ request.query = OrElse(query, NoParameters)
         /\ request.body = Reading(OrElse(body, "null"))
  <1> DEFINE no == FALSE
  <1>1. no = FALSE
    OBVIOUS
  <1> HIDE DEF no
  <1>2. request = [error |-> no, method |-> method, path |-> path,
                   query |-> OrElse(query, NoParameters), body |-> Reading(OrElse(body, "null"))]
    BY <1>1, ParsedRecord, Zenon
  <1> QED BY <1>2

LEMMA ParsedHandled ==
  ASSUME NEW method, NEW path, NEW query, NEW body, NEW request,
         request = Parsed(McmaApiRequest(method, path, query, body))
  PROVE  request.error = FALSE
  <1> DEFINE no == FALSE
  <1>1. no = FALSE
    OBVIOUS
  <1> HIDE DEF no
  <1>2. request = [error |-> no, method |-> method, path |-> path,
                   query |-> OrElse(query, NoParameters), body |-> Reading(OrElse(body, "null"))]
    BY <1>1, ParsedRecord, Zenon
  <1>3. request.error = no
    BY <1>2
  <1> QED BY <1>1, <1>3, Zenon

(* Without repetition, the last value of a parameter and the joined ones are *)
(* the same.                                                               *)
LEMMA SingleIsSame ==
  ASSUME NEW event, IsEvent(event)
  PROVE  /\ DOMAIN LastOnes(event.query) = DOMAIN event.query
         /\ DOMAIN Joined(event.query) = DOMAIN event.query
         /\ \A n \in DOMAIN event.query :
              Len(event.query[n]) = 1 => LastOnes(event.query)[n] = Joined(event.query)[n]
  <1> DEFINE query == event.query
  <1>1. \A n \in DOMAIN query : query[n] \in Seq(STRING)
    BY DEF IsEvent
  <1> HIDE DEF query
  <1>2. ASSUME NEW n \in DOMAIN query, Len(query[n]) = 1 PROVE <<Last(query[n])>> = query[n]
    <2> DEFINE values == query[n]
    <2>1. values \in Seq(STRING) /\ Len(values) = 1
      BY <1>1, <1>2
    <2> HIDE DEF values
    <2>2. values = <<values[1]>> /\ Last(values) = values[1]
      BY <2>1 DEF Last
    <2> QED BY <2>2 DEF values
  <1>3. /\ DOMAIN LastOnes(query) = DOMAIN query /\ DOMAIN Joined(query) = DOMAIN query
        /\ \A n \in DOMAIN query : LastOnes(query)[n] = <<Last(query[n])>>
                                   /\ Joined(query)[n] = query[n]
    BY Zenon DEF LastOnes, Joined
  <1>4. \A n \in DOMAIN query : Len(query[n]) = 1 => LastOnes(query)[n] = Joined(query)[n]
    BY <1>2, <1>3, Zenon
  <1> QED BY <1>3, <1>4 DEF query

(* The queries and bodies of the three platforms, without those that differ. *)
LEMMA GoogleIs ==
  ASSUME NEW event, IsEvent(event), NEW empty, NEW google,
         google = Parsed(GoogleRequest(event, empty))
  PROVE  /\ google.method = event.method /\ google.path = event.path
         /\ google.query = Joined(event.query)
         /\ event.body = "json" => google.body = "object"
         /\ event.body = "text" => google.body = "text"
         /\ \A path : [google EXCEPT !.path = path].method = event.method
                      /\ [google EXCEPT !.path = path].path = path
                      /\ [google EXCEPT !.path = path].query = google.query
                      /\ [google EXCEPT !.path = path].body = google.body
  <1> DEFINE body == Express(event.body, empty)
             b == Reading(OrElse(body, "null"))
             q == OrElse(Some(Joined(event.query)), NoParameters)
  <1>1. google = Parsed(McmaApiRequest(event.method, event.path, Some(Joined(event.query)), body))
    BY Zenon DEF GoogleRequest
  <1> HIDE DEF body
  <1> HIDE DEF b, q
  <1>2. /\ google.method = event.method /\ google.path = event.path
        /\ google.query = q /\ google.body = b
    BY <1>1, ParsedIs DEF b, q
  <1> DEFINE no == FALSE
  <1>8. no = FALSE
    OBVIOUS
  <1> HIDE DEF no
  <1>7. google = [error |-> no, method |-> event.method, path |-> event.path, query |-> q, body |-> b]
    BY <1>1, <1>8, ParsedRecord, Zenon DEF b, q
  <1>3. q = Joined(event.query)
    BY OrElseIs, Zenon DEF q
  <1>4. event.body = "json" => b = "object"
    <2> SUFFICES ASSUME event.body = "json" PROVE b = "object"
      OBVIOUS
    <2>1. body = Some("object")
      BY DEF body, Express
    <2>2. OrElse(body, "null") = "object"
      BY <2>1, OrElseIs, Zenon
    <2> QED BY <2>2 DEF Reading, b
  <1>5. event.body = "text" => b = "text"
    <2> SUFFICES ASSUME event.body = "text" PROVE b = "text"
      OBVIOUS
    <2>1. body = Some("text")
      BY DEF body, Express
    <2>2. OrElse(body, "null") = "text"
      BY <2>1, OrElseIs, Zenon
    <2> QED BY <2>2 DEF Reading, b
  <1>6. \A path : /\ [google EXCEPT !.path = path].method = event.method
                  /\ [google EXCEPT !.path = path].path = path
                  /\ [google EXCEPT !.path = path].query = q
                  /\ [google EXCEPT !.path = path].body = b
    BY <1>7
  <1> QED BY <1>2, <1>3, <1>4, <1>5, <1>6, Zenon

LEMMA BodyIs ==
  ASSUME NEW event, IsEvent(event), NEW body, event.body # "" => body = Some(event.body)
  PROVE  /\ event.body = "json" => Reading(OrElse(body, "null")) = "object"
         /\ event.body = "text" => Reading(OrElse(body, "null")) = "text"
  <1>1. event.body # "" => OrElse(body, "null") = event.body
    BY OrElseIs, Zenon
  <1> DEFINE b == OrElse(body, "null")
  <1> HIDE DEF b
  <1>2. event.body # "" => b = event.body
    BY <1>1 DEF b
  <1>3. /\ event.body = "json" => Reading(b) = "object"
        /\ event.body = "text" => Reading(b) = "text"
    BY <1>2 DEF Reading
  <1> QED BY <1>3 DEF b

LEMMA GatewayAgrees ==
  ASSUME NEW event, IsEvent(event), NEW api \in Apis, NEW empty
  PROVE  SameCall(event, Parsed(ApiGatewayRequest(api, event)),
                  [Parsed(GoogleRequest(event, empty)) EXCEPT !.path =
                     IF api.includeStageInPath /\ api.stage # DefaultStage
                     THEN Slash \o api.stage \o @ ELSE @])
  <1> DEFINE path == event.path
             stage == api.stage
             google == Parsed(GoogleRequest(event, empty))
             seen == IF api.includeStageInPath /\ stage # DefaultStage
                     THEN Slash \o stage \o path ELSE path
             body == IF event.body = "" THEN Missing ELSE Some(event.body)
             query == GatewayQuery(api, event.query)
             gateway == Parsed(McmaApiRequest(event.method, seen, query, body))
             other == [google EXCEPT !.path = seen]
  <1>1. path \in Seq(Characters) /\ stage \in Seq(Characters)
    <2>1. path \in Seq(STRING) /\ stage \in Seq(STRING) /\ STRING \subseteq Characters
      BY DEF IsEvent, Apis, Characters
    <2> HIDE DEF path, stage
    <2> QED BY <2>1, SeqMonotonic
  <1>2. /\ api.version \in {1, 2} /\ api.includeStageInPath \in BOOLEAN
        /\ api.version = 1 => stage # DefaultStage
    BY DEF Apis
  <1>3. Substring(Slash \o stage \o path, Len(stage) + 1) = path
    <2> DEFINE w == Slash \o stage
    <2> HIDE DEF path, stage
    <2>1. w \in Seq(Characters) /\ Len(w) = Len(stage) + 1
      BY <1>1, SlashFirst
    <2> HIDE DEF w
    <2>2. Substring(w \o path, Len(w)) = path
      BY <1>1, <2>1, SubstringDrops
    <2> QED BY <2>1, <2>2 DEF w
  <1>4. ApiGatewayRequest(api, event) = McmaApiRequest(event.method, seen, query, body)
    <2> DEFINE inUrl == GatewayPath(api, event.path)
               seen2 == CASE api.version = 1 ->
                               IF api.includeStageInPath THEN inUrl ELSE event.path
                          [] api.version = 2 ->
                               IF api.includeStageInPath \/ api.stage = DefaultStage THEN inUrl
                               ELSE Substring(inUrl, Len(api.stage) + 1)
    <2>1. ApiGatewayRequest(api, event) = McmaApiRequest(event.method, seen2, query, body)
      BY Zenon DEF ApiGatewayRequest
    <2>2. inUrl = IF api.version = 2 /\ stage = DefaultStage THEN path ELSE Slash \o stage \o path
      BY Zenon DEF GatewayPath
    <2>3. seen2 = seen
      <3>1. CASE api.version = 1
        <4>1. seen2 = IF api.includeStageInPath THEN inUrl ELSE path
          BY <3>1
        <4>2. inUrl = Slash \o stage \o path
          <5> HIDE DEF inUrl
          <5> QED BY <1>2, <2>2, <3>1
        <4> HIDE DEF inUrl, seen2
        <4> QED BY <1>2, <3>1, <4>1, <4>2
      <3>2. CASE api.version = 2
        <4>1. seen2 = IF api.includeStageInPath \/ stage = DefaultStage THEN inUrl
                      ELSE Substring(inUrl, Len(stage) + 1)
          BY <3>2
        <4> HIDE DEF inUrl, seen2
        <4>2. CASE stage = DefaultStage
          BY <2>2, <3>2, <4>1, <4>2
        <4>3. CASE stage # DefaultStage /\ api.includeStageInPath
          BY <2>2, <3>2, <4>1, <4>3
        <4>4. CASE stage # DefaultStage /\ ~ api.includeStageInPath
          BY <1>3, <2>2, <3>2, <4>1, <4>4
        <4> QED BY <1>2, <4>2, <4>3, <4>4
      <3> QED BY <1>2, <3>1, <3>2
    <2> QED BY <2>1, <2>3, Zenon
  <1>5. /\ google.path = path
        /\ other.method = event.method /\ other.path = seen /\ other.query = Joined(event.query)
        /\ event.body = "json" => other.body = "object"
        /\ event.body = "text" => other.body = "text"
    <2> HIDE DEF google, seen, path
    <2>1. google = Parsed(GoogleRequest(event, empty))
      BY DEF google
    <2>2. google.path = event.path
      BY <2>1, GoogleIs
    <2> QED BY <2>1, <2>2, GoogleIs DEF path
  <1>6. /\ gateway.method = event.method /\ gateway.path = seen
        /\ gateway.query = OrElse(query, NoParameters)
        /\ event.body = "json" => gateway.body = "object"
        /\ event.body = "text" => gateway.body = "text"
    <2>1. event.body # "" => body = Some(event.body)
      OBVIOUS
    <2> HIDE DEF seen, query, body
    <2>2. /\ gateway.method = event.method /\ gateway.path = seen
          /\ gateway.query = OrElse(query, NoParameters)
          /\ gateway.body = Reading(OrElse(body, "null"))
      BY ParsedIs
    <2> HIDE DEF gateway
    <2> QED BY <2>1, <2>2, BodyIs, Zenon
  <1>7. /\ DOMAIN gateway.query = DOMAIN event.query
        /\ \A n \in DOMAIN event.query :
             Len(event.query[n]) = 1 => gateway.query[n] = Joined(event.query)[n]
    <2> HIDE DEF gateway
    <2>1. CASE DOMAIN event.query = {}
      <3>1. query = Missing
        BY <2>1, Zenon DEF GatewayQuery
      <3>2. gateway.query = NoParameters
        BY <1>6, <3>1, OrElseIs, Zenon
      <3>3. DOMAIN NoParameters = {}
        BY DEF NoParameters
      <3> QED BY <2>1, <3>2, <3>3, Zenon
    <2>2. CASE DOMAIN event.query # {} /\ api.version = 1
      <3>1. query = Some(LastOnes(event.query))
        BY <2>2, Zenon DEF GatewayQuery
      <3>2. gateway.query = LastOnes(event.query)
        BY <1>6, <3>1, OrElseIs, Zenon
      <3> QED BY <3>2, SingleIsSame, Zenon
    <2>3. CASE DOMAIN event.query # {} /\ api.version # 1
      <3>1. query = Some(Joined(event.query))
        BY <2>3, Zenon DEF GatewayQuery
      <3>2. gateway.query = Joined(event.query)
        BY <1>6, <3>1, OrElseIs, Zenon
      <3> QED BY <3>2, SingleIsSame, Zenon
    <2> QED BY <2>1, <2>2, <2>3, Zenon
  <1>8. event.body \in {"", "text", "json", "dated"}
    BY DEF IsEvent
  <1>9. SameCall(event, gateway, other)
    <2>1. DOMAIN Joined(event.query) = DOMAIN event.query
      BY SingleIsSame, Zenon
    <2>2. event.body \notin {"", "dated"} => gateway.body = other.body
      <3> HIDE DEF gateway, other
      <3> QED BY <1>5, <1>6, <1>8
    <2> HIDE DEF gateway, other, seen
    <2> QED BY <1>5, <1>6, <1>7, <2>1, <2>2, Zenon DEF SameCall
  <1>10. other = [google EXCEPT !.path = IF api.includeStageInPath /\ api.stage # DefaultStage
                                        THEN Slash \o api.stage \o @ ELSE @]
    <2> HIDE DEF google
    <2> QED BY <1>5, Zenon
  <1>11. gateway = Parsed(ApiGatewayRequest(api, event))
    BY <1>4, Zenon
  <1> HIDE DEF gateway, other
  <1> QED BY <1>9, <1>10, <1>11, Zenon

LEMMA AzureAgrees ==
  ASSUME NEW event, IsEvent(event), NEW p \in Seq(STRING), NEW empty
  PROVE  LET azure == Parsed(AzureRequest(p, event))
         IN  /\ azure.error <=> ~ProperPrefix(p)
             /\ ~azure.error => SameCall(event, azure, Parsed(GoogleRequest(event, empty)))
  <1> DEFINE path == event.path
             prefix == IF p = <<>> \/ p[1] = "/" THEN p ELSE Slash \o p
             pathname == IF Trim(p) = <<>> THEN path ELSE Slash \o Trim(p) \o path
             hasBody == event.method \in {"POST", "PUT", "PATCH"}
             body == IF hasBody THEN Some(event.body) ELSE Missing
             refused == (prefix # <<>> /\ Last(prefix) = "/") \/ ~ IsPrefix(prefix, pathname)
             query == Some(LastOnes(event.query))
             request == Parsed(McmaApiRequest(event.method, Substring(pathname, Len(prefix)),
                                              query, body))
             azure == Parsed(AzureRequest(p, event))
             google == Parsed(GoogleRequest(event, empty))
  <1>1. p \in Seq(Characters) /\ path \in Seq(Characters)
    <2>1. path \in Seq(STRING) /\ STRING \subseteq Characters
      BY DEF IsEvent, Characters
    <2> HIDE DEF path
    <2> QED BY <2>1, SeqMonotonic
  <1>2. AzureRequest(p, event)
          = IF refused THEN Unhandled
            ELSE McmaApiRequest(event.method, Substring(pathname, Len(prefix)), query, body)
    BY Zenon DEF AzureRequest, Mounted
  <1>3. prefix # <<>> <=> p # <<>>
    <2>1. p # <<>> => Slash \o p # <<>>
      BY <1>1, SlashFirst, Zenon
    <2> QED BY <2>1, Zenon
  <1>4. p # <<>> => Last(prefix) = Last(p)
    <2> SUFFICES ASSUME p # <<>>, p[1] # "/" PROVE Last(Slash \o p) = Last(p)
      OBVIOUS
    <2> DEFINE w == Slash \o p
    <2>1. Len(w) = Len(p) + 1 /\ \A k \in 1 .. Len(p) : w[k + 1] = p[k]
      BY <1>1, SlashFirst, Zenon
    <2>2. Len(p) \in 1 .. Len(p)
      BY <1>1
    <2> HIDE DEF w
    <2>3. w[Len(w)] = p[Len(p)]
      BY <2>1, <2>2
    <2> QED BY <2>3 DEF w, Last
  <1>5. CASE ~ ProperPrefix(p)
    <2>1. refused
      <3>1. p # <<>>
        BY <1>5 DEF ProperPrefix
      <3>2. CASE Last(p) = "/"
        BY <1>3, <1>4, <3>1, <3>2
      <3>3. CASE Last(p) # "/"
        <4>1. Len(p) > 1 /\ p[1] = "/" /\ p[2] = "/"
          BY <1>5, <3>1, <3>3, Zenon DEF ProperPrefix
        <4>2. prefix = p
          BY <4>1
        <4> HIDE DEF prefix
        <4>3. ~ IsPrefix(p, pathname)
          <5> HIDE DEF path
          <5>1. pathname = IF Trim(p) = <<>> THEN path ELSE Slash \o Trim(p) \o path
            OBVIOUS
          <5> HIDE DEF pathname
          <5> QED BY <1>1, <3>3, <4>1, <5>1, DoubledIsRefused
        <4> QED BY <4>2, <4>3
      <3> QED BY <3>2, <3>3
    <2> HIDE DEF refused
    <2>2. azure = Parsed(Unhandled)
      BY <1>2, <2>1, Zenon
    <2>3. Parsed(Unhandled).error = TRUE
      BY DEF Parsed, Unhandled
    <2> HIDE DEF azure
    <2> QED BY <1>5, <2>2, <2>3, Zenon DEF azure
  <1>6. CASE ProperPrefix(p)
    <2>1. prefix = <<>> \/ Last(prefix) # "/"
      BY <1>3, <1>4, <1>6, Zenon DEF ProperPrefix
    <2>2. ~ (Len(p) > 1 /\ p[1] = "/" /\ p[2] = "/")
      <3>1. CASE p = <<>>
        BY <3>1
      <3>2. CASE p # <<>>
        BY <1>6, <3>2, Zenon DEF ProperPrefix
      <3> QED BY <3>1, <3>2
    <2>3. pathname = prefix \o path
      <3> HIDE DEF path
      <3>1. /\ pathname = IF Trim(p) = <<>> THEN path ELSE Slash \o Trim(p) \o path
            /\ prefix = IF p = <<>> \/ p[1] = "/" THEN p ELSE Slash \o p
        OBVIOUS
      <3> HIDE DEF pathname, prefix
      <3> QED BY <1>1, <2>1, <2>2, <3>1, PrefixIsMounted
    <2>4. prefix \in Seq(Characters)
      <3>1. Slash \o p \in Seq(Characters)
        BY <1>1, SlashFirst, Zenon
      <3> QED BY <1>1, <3>1, Zenon
    <2>5. IsPrefix(prefix, pathname) /\ Substring(pathname, Len(prefix)) = path
      <3> HIDE DEF prefix, pathname, path
      <3> QED BY <1>1, <2>3, <2>4, PrefixOfConcat, SubstringDrops
    <2>6. ~ refused
      BY <2>1, <2>5
    <2>7. azure = Parsed(McmaApiRequest(event.method, path, query, body))
      <3> HIDE DEF refused, prefix, pathname, path, query, body
      <3> QED BY <1>2, <2>5, <2>6, Zenon DEF azure
    <2>8. /\ azure.error = FALSE /\ azure.method = event.method /\ azure.path = path
          /\ azure.query = LastOnes(event.query)
          /\ event.body = "json" => azure.body = "object"
          /\ event.body = "text" => azure.body = "text"
      <3>1. event.body # "" => body = Some(event.body)
        BY DEF IsEvent
      <3> HIDE DEF body, path, azure
      <3>2. /\ azure.method = event.method /\ azure.path = path
            /\ azure.query = OrElse(query, NoParameters)
            /\ azure.body = Reading(OrElse(body, "null"))
        BY <2>7, ParsedIs
      <3>4. azure.error = FALSE
        BY <2>7, ParsedHandled
      <3>3. OrElse(query, NoParameters) = LastOnes(event.query)
        BY OrElseIs, Zenon
      <3> QED BY <3>1, <3>2, <3>3, <3>4, BodyIs, Zenon
    <2>9. /\ google.method = event.method /\ google.path = path
          /\ google.query = Joined(event.query)
          /\ event.body = "json" => google.body = "object"
          /\ event.body = "text" => google.body = "text"
      <3> HIDE DEF google
      <3>1. google = Parsed(GoogleRequest(event, empty))
        BY DEF google
      <3> QED BY <3>1, GoogleIs
    <2>10. event.body \in {"", "text", "json", "dated"}
      BY DEF IsEvent
    <2> HIDE DEF azure, google, path
    <2>11. event.body \notin {"", "dated"} => azure.body = google.body
      BY <2>8, <2>9, <2>10
    <2>12. /\ DOMAIN azure.query = DOMAIN google.query
           /\ \A n \in DOMAIN azure.query :
                Len(event.query[n]) = 1 => azure.query[n] = google.query[n]
      BY <2>8, <2>9, SingleIsSame, Zenon
    <2>13. SameCall(event, azure, google)
      BY <2>8, <2>9, <2>11, <2>12, Zenon DEF SameCall
    <2> QED BY <1>6, <2>8, <2>13, Zenon DEF azure, google
  <1> QED BY <1>5, <1>6, Zenon

LEMMA SameRequests ==
  ASSUME deployment \in Deployments PROVE RequestsAgree
  <1> DEFINE s == deployment.sample
  <1>1. s.of = "event" => IsEvent(s.event) /\ s.api \in Apis /\ s.routePrefix \in Seq(STRING)
    BY SamplesAssumption
  <1> HIDE DEF s
  <1> SUFFICES ASSUME s.of = "event"
      PROVE /\ SameCall(s.event, Parsed(ApiGatewayRequest(s.api, s.event)),
                        [Parsed(GoogleRequest(s.event, s.empty)) EXCEPT !.path =
                           IF s.api.includeStageInPath /\ s.api.stage # DefaultStage
                           THEN Slash \o s.api.stage \o @ ELSE @])
            /\ Parsed(AzureRequest(s.routePrefix, s.event)).error <=> ~ProperPrefix(s.routePrefix)
            /\ ~ Parsed(AzureRequest(s.routePrefix, s.event)).error =>
                 SameCall(s.event, Parsed(AzureRequest(s.routePrefix, s.event)),
                          Parsed(GoogleRequest(s.event, s.empty)))
    BY Zenon DEF RequestsAgree, s
  <1> QED BY <1>1, GatewayAgrees, AzureAgrees, Zenon

(* The same call is the same request to the controller over API Gateway,    *)
(* Azure Functions and Google Cloud, whatever the path, the stage and the   *)
(* route prefix are, but for repeated parameters, empty bodies and dates,   *)
(* of which nothing is said; and the controller of Azure fails exactly if   *)
(* the route prefix ends with a slash or begins with two.                   *)
THEOREM PlatformsAgree == Spec => []RequestsAgree
  <1>1. ServiceInv => RequestsAgree
    BY SameRequests DEF ServiceInv
  <1> QED BY <1>1, ServiceInvariant, PTL
=============================================================================
