------------------------- MODULE JobProcessing_proofs -------------------------
(***************************************************************************)
(* Proofs about JobProcessing, for any number of executions, of cancel and *)
(* delete requests, and of duplicates, crashes, reports and lost calls.    *)
(***************************************************************************)
EXTENDS JobProcessing, TLAPS

(* An update that writes or notifies has read a job assignment.            *)
ReadInv == \A w \in Workers : at[w] \in {"put", "notify"} => read[w] # NoRecord

(* Nothing happens before the job assignment is stored, and afterwards only*)
(* a deletion removes it.                                                  *)
StoredInv ==
  /\ create = "put" => /\ \A o \in Operations : queue[o] = 0
                       /\ \A w \in Workers : at[w] = "idle"
                       /\ \A r \in Cancels : cancel[r] = "get"
                       /\ \A r \in Deletes : delete[r] = "get"
  /\ create # "put" /\ ~ Deleted => record # NoRecord

(* What is about to be notified was written.                               *)
WrittenInv == \A w \in Workers : at[w] = "notify" => NewStatus(w) \in persisted

(* Past the start of an execution, Running was written and notified.       *)
PastStart(w) == at[w] \in {"load", "handler"} \/ (at[w] # "idle" /\ doing[w] = "report")
StartedInv == \A w \in Workers : PastStart(w) => "Running" \in persisted \cap notified

JobInv == TypeOK /\ ReadInv /\ StoredInv /\ WrittenInv /\ StartedInv

-----------------------------------------------------------------------------
LEMMA NewStatusType ==
  ASSUME TypeOK, NEW w \in Workers, doing[w] = "report" => read[w] # NoRecord
  PROVE  NewStatus(w) \in JobStatus
  BY DEF TypeOK, NewStatus, Updates, JobStatus, Final

LEMMA AfterErrorType ==
  ASSUME TypeOK, NEW w \in Workers
  PROVE  /\ AfterError(w).at \in {"get", "idle"}
         /\ AfterError(w).doing \in Updates
         /\ AfterError(w).at = "get" => AfterError(w).doing = "fail"
  BY DEF TypeOK, AfterError, Updates

LEMMA AfterUpdateType ==
  ASSUME TypeOK, NEW w \in Workers
  PROVE  /\ AfterUpdate(w).at \in {"load", "handler", "idle"}
         /\ AfterUpdate(w).doing = doing[w] /\ doing[w] \in Updates
         /\ AfterUpdate(w).at = "load" => doing[w] = "start"
         /\ AfterUpdate(w).at = "handler" => doing[w] = "report"
  BY DEF TypeOK, AfterUpdate, Updates

LEMMA BudgetType ==
  ASSUME TypeOK
  PROVE  /\ budget.lost < MaxLostCalls =>
              [budget EXCEPT !.lost = @ + 1] \in
                [duplicates : 0 .. MaxDuplicates, crashes : 0 .. MaxCrashes,
                 reports : 0 .. MaxReports, lost : 0 .. MaxLostCalls]
         /\ budget.crashes < MaxCrashes =>
              [budget EXCEPT !.crashes = @ + 1] \in
                [duplicates : 0 .. MaxDuplicates, crashes : 0 .. MaxCrashes,
                 reports : 0 .. MaxReports, lost : 0 .. MaxLostCalls]
         /\ budget.reports < MaxReports =>
              [budget EXCEPT !.reports = @ + 1] \in
                [duplicates : 0 .. MaxDuplicates, crashes : 0 .. MaxCrashes,
                 reports : 0 .. MaxReports, lost : 0 .. MaxLostCalls]
         /\ budget.duplicates < MaxDuplicates =>
              [budget EXCEPT !.duplicates = @ + 1] \in
                [duplicates : 0 .. MaxDuplicates, crashes : 0 .. MaxCrashes,
                 reports : 0 .. MaxReports, lost : 0 .. MaxLostCalls]
  BY ConstantsAssumption DEF TypeOK

LEMMA InitInv == Init => JobInv
  BY ConstantsAssumption, NoRecordAssumption
  DEF Init, JobInv, TypeOK, ReadInv, StoredInv, WrittenInv, StartedInv, PastStart,
      Operations, Updates, JobStatus, Final, Deleted

(* The API leaves executions alone and takes nothing back.                 *)
LEMMA WorkersUntouched ==
  ASSUME ReadInv, WrittenInv, StartedInv, UNCHANGED workerVars,
         persisted \subseteq persisted', notified \subseteq notified'
  PROVE  ReadInv' /\ WrittenInv' /\ StartedInv'
  BY DEF ReadInv, WrittenInv, StartedInv, PastStart, NewStatus, workerVars

LEMMA ApiKeepsInv ==
  ASSUME JobInv,
         \/ ApiStep
         \/ \E r \in Cancels : CancelGet(r)
         \/ \E r \in Deletes : DeleteGet(r)
  PROVE  JobInv'
  <1> USE ConstantsAssumption, NoRecordAssumption
  <1>0. TypeOK /\ ReadInv /\ StoredInv /\ WrittenInv /\ StartedInv
    BY DEF JobInv
  <1>1. CASE CreatePut
    <2>1. TypeOK'
      BY <1>0, <1>1 DEF CreatePut, TypeOK, JobStatus, workerVars
    <2>2. StoredInv'
      BY <1>0, <1>1 DEF CreatePut, StoredInv, Deleted, JobStatus, workerVars
    <2> QED BY <1>0, <1>1, <2>1, <2>2, WorkersUntouched DEF CreatePut, JobInv
  <1>2. CASE CreateInvoke
    <2>1. TypeOK'
      BY <1>0, <1>2, BudgetType DEF CreateInvoke, Send, LoseCall, TypeOK, Operations, workerVars
    <2>2. StoredInv'
      BY <1>0, <1>2 DEF CreateInvoke, StoredInv, Deleted, workerVars
    <2> QED BY <1>0, <1>2, <2>1, <2>2, WorkersUntouched DEF CreateInvoke, JobInv
  <1>3. ASSUME NEW r \in Cancels, CancelGet(r) PROVE JobInv'
    <2>1. TypeOK'
      BY <1>0, <1>3 DEF CancelGet, TypeOK, workerVars
    <2>2. StoredInv'
      BY <1>0, <1>3 DEF CancelGet, StoredInv, Deleted, workerVars
    <2> QED BY <1>0, <1>3, <2>1, <2>2, WorkersUntouched DEF CancelGet, JobInv
  <1>4. ASSUME NEW r \in Cancels, CancelInvoke(r) PROVE JobInv'
    <2>1. TypeOK'
      BY <1>0, <1>4, BudgetType DEF CancelInvoke, Send, LoseCall, TypeOK, Operations, workerVars
    <2>2. StoredInv'
      BY <1>0, <1>4 DEF CancelInvoke, StoredInv, Deleted, workerVars
    <2> QED BY <1>0, <1>4, <2>1, <2>2, WorkersUntouched DEF CancelInvoke, JobInv
  <1>5. ASSUME NEW r \in Deletes, DeleteGet(r) PROVE JobInv'
    <2>1. TypeOK'
      BY <1>0, <1>5 DEF DeleteGet, TypeOK, workerVars
    <2>2. StoredInv'
      BY <1>0, <1>5 DEF DeleteGet, StoredInv, Deleted, TypeOK, workerVars
    <2> QED BY <1>0, <1>5, <2>1, <2>2, WorkersUntouched DEF DeleteGet, JobInv
  <1>6. ASSUME NEW r \in Deletes, DeleteDelete(r) PROVE JobInv'
    <2>1. TypeOK'
      BY <1>0, <1>6 DEF DeleteDelete, TypeOK, workerVars
    <2>2. StoredInv'
      BY <1>0, <1>6 DEF DeleteDelete, StoredInv, Deleted, TypeOK, workerVars
    <2> QED BY <1>0, <1>6, <2>1, <2>2, WorkersUntouched DEF DeleteDelete, JobInv
  <1> QED BY <1>1, <1>2, <1>3, <1>4, <1>5, <1>6 DEF ApiStep

(* The worker's own variables: one execution moves, the others stay.       *)
LEMMA GotoMoves ==
  ASSUME TypeOK, NEW w \in Workers, NEW next, Goto(w, next),
         next.at \in {"idle", "get", "put", "notify", "load", "handler"},
         next.doing \in Updates
  PROVE  /\ at' \in [Workers -> {"idle", "get", "put", "notify", "load", "handler"}]
         /\ doing' \in [Workers -> Updates]
         /\ at'[w] = next.at /\ doing'[w] = next.doing
         /\ \A v \in Workers \ {w} : at'[v] = at[v] /\ doing'[v] = doing[v]
  BY DEF Goto, TypeOK

(* While an execution runs, the job assignment was created.                *)
LEMMA RunningIsCreated ==
  ASSUME StoredInv, NEW w \in Workers, at[w] # "idle"
  PROVE  create # "put"
  BY DEF StoredInv

(* The part of the invariant about other executions than w.                *)
LEMMA OthersKeep ==
  ASSUME ReadInv, WrittenInv, StartedInv, NEW w \in Workers,
         \A v \in Workers \ {w} : at'[v] = at[v] /\ doing'[v] = doing[v] /\ read'[v] = read[v],
         persisted \subseteq persisted', notified \subseteq notified'
  PROVE  \A v \in Workers \ {w} :
           /\ at'[v] \in {"put", "notify"} => read'[v] # NoRecord
           /\ at'[v] = "notify" => NewStatus(v)' \in persisted'
           /\ PastStart(v)' => "Running" \in persisted' \cap notified'
  BY DEF ReadInv, WrittenInv, StartedInv, PastStart, NewStatus

(* ... and what a step of w itself has to establish.                       *)
LEMMA OneMoves ==
  ASSUME JobInv, NEW w \in Workers, NEW next, Goto(w, next),
         next.at \in {"idle", "get", "put", "notify", "load", "handler"},
         next.doing \in Updates,
         read' \in [Workers -> JobStatus \cup {NoRecord}],
         \A v \in Workers \ {w} : read'[v] = read[v],
         persisted \subseteq persisted', notified \subseteq notified',
         next.at \in {"put", "notify"} => read'[w] # NoRecord,
         next.at = "notify" => NewStatus(w)' \in persisted',
         PastStart(w)' => "Running" \in persisted' \cap notified'
  PROVE  ReadInv' /\ WrittenInv' /\ StartedInv'
  <1>1. /\ at'[w] = next.at
        /\ \A v \in Workers \ {w} : at'[v] = at[v] /\ doing'[v] = doing[v]
    BY GotoMoves DEF JobInv
  <1>2. \A v \in Workers \ {w} :
          /\ at'[v] \in {"put", "notify"} => read'[v] # NoRecord
          /\ at'[v] = "notify" => NewStatus(v)' \in persisted'
          /\ PastStart(v)' => "Running" \in persisted' \cap notified'
    BY <1>1, OthersKeep DEF JobInv
  <1>3. ReadInv'
    BY <1>1, <1>2 DEF ReadInv
  <1>4. WrittenInv'
    BY <1>1, <1>2 DEF WrittenInv
  <1>5. StartedInv'
    BY <1>2 DEF StartedInv
  <1> QED BY <1>3, <1>4, <1>5

(* A step of an execution that moves it to "next" and touches neither the  *)
(* API nor messages, and table, history and budget only within their types.*)
LEMMA ExecutionMoves ==
  ASSUME JobInv, NEW w \in Workers, NEW next, Goto(w, next),
         at[w] # "idle", UNCHANGED <<apiVars, queue, op>>,
         record' = record \/ record' \in JobStatus,
         next.at \in {"idle", "get", "put", "notify", "load", "handler"},
         next.doing \in Updates,
         read' \in [Workers -> JobStatus \cup {NoRecord}],
         \A v \in Workers \ {w} : read'[v] = read[v],
         persisted \subseteq persisted', persisted' \subseteq JobStatus,
         notified \subseteq notified', notified' \subseteq JobStatus,
         budget' \in [duplicates : 0 .. MaxDuplicates, crashes : 0 .. MaxCrashes,
                      reports : 0 .. MaxReports, lost : 0 .. MaxLostCalls],
         next.at \in {"put", "notify"} => read'[w] # NoRecord,
         next.at = "notify" => NewStatus(w)' \in persisted',
         PastStart(w)' => "Running" \in persisted' \cap notified'
  PROVE  JobInv'
  <1>1. ReadInv' /\ WrittenInv' /\ StartedInv'
    BY OneMoves
  <1>2. TypeOK'
    BY GotoMoves DEF JobInv, TypeOK, apiVars
  <1>3. StoredInv'
    BY RunningIsCreated, NoRecordAssumption DEF JobInv, StoredInv, Deleted, apiVars
  <1> QED BY <1>1, <1>2, <1>3 DEF JobInv

LEMMA GetKeepsInv ==
  ASSUME JobInv, NEW w \in Workers, Get(w)
  PROVE  JobInv'
  <1> USE DEF JobInv
  <1>1. /\ read' = [read EXCEPT ![w] = record]
        /\ read' \in [Workers -> JobStatus \cup {NoRecord}] /\ read'[w] = record
        /\ doing[w] \in Updates /\ at[w] = "get"
    BY DEF Get, TypeOK
  <1>2. CASE record # NoRecord
    <2> DEFINE next == [at |-> "put", doing |-> doing[w]]
    <2>1. Goto(w, next) /\ next.at = "put" /\ next.doing = doing[w]
      BY <1>2 DEF Get
    <2>2. at'[w] = "put" /\ doing'[w] = doing[w]
      BY <1>1, <2>1, GotoMoves
    <2>3. PastStart(w)' => "Running" \in persisted' \cap notified'
      BY <1>1, <2>2 DEF PastStart, StartedInv, Get
    <2> HIDE DEF next
    <2> QED BY <1>1, <1>2, <2>1, <2>3, ExecutionMoves DEF Get, TypeOK
  <1>3. CASE record = NoRecord
    <2> DEFINE next == AfterError(w)
    <2>1. /\ Goto(w, next) /\ next.at \in {"get", "idle"} /\ next.doing \in Updates
          /\ next.at = "get" => next.doing = "fail"
      BY <1>3, AfterErrorType DEF Get
    <2>2. ~ PastStart(w)'
      BY <2>1, GotoMoves DEF PastStart
    <2> HIDE DEF next
    <2> QED BY <1>1, <2>1, <2>2, ExecutionMoves DEF Get, TypeOK
  <1> QED BY <1>2, <1>3

LEMMA PutKeepsInv ==
  ASSUME JobInv, NEW w \in Workers, Put(w)
  PROVE  JobInv'
  <1> USE DEF JobInv
  <1> DEFINE next == [at |-> "notify", doing |-> doing[w]]
  <1>1. Goto(w, next) /\ next.at = "notify" /\ next.doing = doing[w] /\ doing[w] \in Updates
    BY DEF Put, TypeOK
  <1>2. at[w] = "put" /\ read[w] # NoRecord /\ read' = read
    BY DEF Put, ReadInv
  <1>3. at'[w] = "notify" /\ doing'[w] = doing[w]
    BY <1>1, GotoMoves
  <1>4. NewStatus(w) \in JobStatus /\ NewStatus(w)' = NewStatus(w)
    BY <1>2, <1>3, NewStatusType DEF NewStatus
  <1>5. PastStart(w)' => "Running" \in persisted' \cap notified'
    BY <1>2, <1>3 DEF PastStart, StartedInv, Put
  <1>6. /\ record' \in JobStatus
        /\ persisted \subseteq persisted' /\ persisted' \subseteq JobStatus
        /\ NewStatus(w)' \in persisted'
    BY <1>4 DEF Put, TypeOK
  <1> HIDE DEF next
  <1> QED BY <1>1, <1>2, <1>5, <1>6, ExecutionMoves DEF Put, TypeOK

LEMMA NotifyKeepsInv ==
  ASSUME JobInv, NEW w \in Workers, Notify(w)
  PROVE  JobInv'
  <1> USE DEF JobInv
  <1> DEFINE next == AfterUpdate(w)
  <1>1. /\ Goto(w, next) /\ next.at \in {"load", "handler", "idle"}
        /\ next.doing = doing[w] /\ doing[w] \in Updates
        /\ next.at = "load" => doing[w] = "start"
        /\ next.at = "handler" => doing[w] = "report"
    BY AfterUpdateType DEF Notify
  <1>2. /\ at[w] = "notify" /\ read' = read
        /\ NewStatus(w) \in persisted /\ notified' = notified \cup {NewStatus(w)}
        /\ persisted' = persisted
    BY DEF Notify, WrittenInv
  <1>3. at'[w] = next.at /\ doing'[w] = doing[w]
    BY <1>1, GotoMoves
  <1>4. PastStart(w)' => "Running" \in persisted' \cap notified'
    <2>1. CASE doing[w] = "start"
      <3>1. NewStatus(w) = "Running"
        BY <2>1 DEF NewStatus
      <3> QED BY <1>2, <3>1
    <2>2. CASE doing[w] = "report"
      BY <1>2, <2>2 DEF StartedInv, PastStart
    <2>3. CASE doing[w] \notin {"start", "report"}
      BY <1>1, <1>3, <2>3 DEF PastStart
    <2> QED BY <2>1, <2>2, <2>3
  <1>5. notified \subseteq notified' /\ notified' \subseteq JobStatus
    BY <1>2 DEF TypeOK
  <1> HIDE DEF next
  <1> QED BY <1>1, <1>2, <1>4, <1>5, ExecutionMoves DEF Notify, TypeOK

LEMMA NotifyFailsKeepsInv ==
  ASSUME JobInv, NEW w \in Workers, NotifyFails(w)
  PROVE  JobInv'
  <1> USE DEF JobInv
  <1> DEFINE next == AfterError(w)
  <1>1. /\ Goto(w, next) /\ next.at \in {"get", "idle"} /\ next.doing \in Updates
        /\ next.at = "get" => next.doing = "fail"
    BY AfterErrorType DEF NotifyFails
  <1>2. ~ PastStart(w)'
    BY <1>1, GotoMoves DEF PastStart
  <1> HIDE DEF next
  <1> QED BY <1>1, <1>2, BudgetType, ExecutionMoves DEF NotifyFails, LoseCall, TypeOK

LEMMA LoadKeepsInv ==
  ASSUME JobInv, NEW w \in Workers, Load(w)
  PROVE  JobInv'
  <1> USE DEF JobInv
  <1>1. at[w] = "load" /\ "Running" \in persisted \cap notified
    BY DEF Load, StartedInv, PastStart
  <1>2. ASSUME NEW next, Goto(w, next), next.at \in {"handler", "get"}, next.doing \in Updates
        PROVE  JobInv'
    BY <1>1, <1>2, ExecutionMoves DEF Load, TypeOK
  <1>3. CASE Goto(w, [at |-> "handler", doing |-> doing[w]])
    BY <1>2, <1>3 DEF TypeOK
  <1>4. CASE Goto(w, [at |-> "get", doing |-> "fail"])
    BY <1>2, <1>4 DEF Updates
  <1> QED BY <1>3, <1>4 DEF Load

LEMMA HandlerKeepsInv ==
  ASSUME JobInv, NEW w \in Workers, HandlerReports(w) \/ HandlerEnds(w)
  PROVE  JobInv'
  <1> USE DEF JobInv
  <1>1. at[w] = "handler" /\ "Running" \in persisted \cap notified
    BY DEF HandlerReports, HandlerEnds, StartedInv, PastStart
  <1>2. PICK u \in {"report", "complete", "reject", "fail"} :
          Goto(w, [at |-> "get", doing |-> u])
    BY DEF HandlerReports, HandlerEnds
  <1> DEFINE next == [at |-> "get", doing |-> u]
  <1>3. Goto(w, next) /\ next.at = "get" /\ next.doing \in Updates
    BY <1>2 DEF Updates
  <1>4. budget' \in [duplicates : 0 .. MaxDuplicates, crashes : 0 .. MaxCrashes,
                     reports : 0 .. MaxReports, lost : 0 .. MaxLostCalls]
    BY BudgetType DEF HandlerReports, HandlerEnds, TypeOK
  <1>5. UNCHANGED <<record, apiVars, queue, op, read, persisted, notified>>
    BY DEF HandlerReports, HandlerEnds
  <1> HIDE DEF next
  <1> QED BY <1>1, <1>3, <1>4, <1>5, ExecutionMoves DEF TypeOK

(* A message exists only once the job assignment was created.              *)
LEMMA MessageIsLate ==
  ASSUME StoredInv, NEW o \in Operations, queue[o] > 0
  PROVE  create # "put"
  BY DEF StoredInv

LEMMA DeliverKeepsInv ==
  ASSUME JobInv, NEW w \in Workers, NEW o \in Operations, Deliver(w, o)
  PROVE  JobInv'
  <1> USE DEF JobInv
  <1> DEFINE next == [at |-> "get", doing |-> IF o = "ProcessCancel" THEN "cancel" ELSE "start"]
  <1>1. Goto(w, next) /\ next.at = "get" /\ next.doing \in {"cancel", "start"}
    BY DEF Goto, Deliver, InitialAwait
  <1> HIDE DEF next
  <1>2. next.doing \in Updates
    BY <1>1 DEF Updates
  <1>3. ~ PastStart(w)'
    BY <1>1, <1>2, GotoMoves DEF PastStart
  <1>4. ReadInv' /\ WrittenInv' /\ StartedInv'
    BY <1>1, <1>2, <1>3, OneMoves DEF Deliver, TypeOK
  <1>5. queue' \in [Operations -> Nat]
    BY DEF Deliver, TypeOK
  <1>6. TypeOK'
    BY <1>1, <1>2, <1>5, GotoMoves DEF Deliver, TypeOK, apiVars
  <1>7. StoredInv'
    BY MessageIsLate DEF Deliver, StoredInv, Deleted, apiVars
  <1> QED BY <1>4, <1>6, <1>7

LEMMA CrashKeepsInv ==
  ASSUME JobInv, NEW w \in Workers, Crash(w)
  PROVE  JobInv'
  <1> USE DEF JobInv
  <1> DEFINE next == [at |-> "idle", doing |-> doing[w]]
  <1>1. Goto(w, next) /\ next.at = "idle" /\ next.doing \in Updates
    BY DEF Goto, Crash, TypeOK
  <1> HIDE DEF next
  <1>2. ~ PastStart(w)'
    BY <1>1, GotoMoves DEF PastStart
  <1>3. ReadInv' /\ WrittenInv' /\ StartedInv'
    BY <1>1, <1>2, OneMoves DEF Crash, TypeOK
  <1>4. queue' \in [Operations -> Nat]
    BY DEF Crash, Send, TypeOK
  <1>5. TypeOK'
    BY <1>1, <1>4, GotoMoves, BudgetType DEF Crash, TypeOK, apiVars
  <1>6. StoredInv'
    BY RunningIsCreated DEF Crash, StoredInv, Deleted, apiVars
  <1> QED BY <1>3, <1>5, <1>6

LEMMA DuplicateKeepsInv ==
  ASSUME JobInv, NEW o \in Operations, Duplicate(o)
  PROVE  JobInv'
  <1> USE DEF JobInv
  <1>1. ReadInv' /\ WrittenInv' /\ StartedInv'
    BY WorkersUntouched DEF Duplicate
  <1>2. TypeOK'
    BY BudgetType DEF Duplicate, Send, TypeOK, apiVars, workerVars
  <1>3. StoredInv'
    BY MessageIsLate DEF Duplicate, StoredInv, Deleted, apiVars
  <1> QED BY <1>1, <1>2, <1>3

LEMMA NextKeepsInv == JobInv /\ [Next]_vars => JobInv'
  <1> SUFFICES ASSUME JobInv, [Next]_vars PROVE JobInv'
    OBVIOUS
  <1>1. CASE UNCHANGED vars
    <2>1. TypeOK'
      BY <1>1 DEF vars, apiVars, workerVars, JobInv, TypeOK
    <2>2. StoredInv'
      BY <1>1 DEF vars, apiVars, workerVars, JobInv, StoredInv, Deleted
    <2> QED BY <1>1, <2>1, <2>2, WorkersUntouched DEF vars, workerVars, JobInv
  <1>2. CASE ApiStep \/ (\E r \in Cancels : CancelGet(r)) \/ (\E r \in Deletes : DeleteGet(r))
    BY <1>2, ApiKeepsInv
  <1>3. ASSUME NEW o \in Operations, Duplicate(o) PROVE JobInv'
    BY <1>3, DuplicateKeepsInv
  <1>4. ASSUME NEW w \in Workers,
               WorkerStep(w) \/ NotifyFails(w) \/ HandlerReports(w) \/ Crash(w)
        PROVE  JobInv'
    BY <1>4, GetKeepsInv, PutKeepsInv, NotifyKeepsInv, NotifyFailsKeepsInv, LoadKeepsInv,
       HandlerKeepsInv, DeliverKeepsInv, CrashKeepsInv DEF WorkerStep
  <1> QED BY <1>1, <1>2, <1>3, <1>4 DEF Next

-----------------------------------------------------------------------------
(* The inductive invariant: what each await of an execution stands for in  *)
(* the table and in the notifications, however executions interleave.      *)
THEOREM JobInvariant == Spec => []JobInv
  BY InitInv, NextKeepsInv, PTL DEF Spec

(* Type correctness of the API, the messages and the executions.           *)
THEOREM JobTypeCorrect == Spec => []TypeOK
  BY JobInvariant, PTL DEF JobInv

(* The worker finds the job assignment that it was invoked for, for as long*)
(* as nobody deletes it: creation stores before it invokes.                *)
THEOREM WorkerFinds == Spec => []WorkerFindsJob
  <1>1. JobInv => WorkerFindsJob
    BY DEF JobInv, StoredInv, WorkerFindsJob
  <1> QED BY <1>1, JobInvariant, PTL

(* Clients are told only what the table held.                              *)
LEMMA NotifiedWasWritten ==
  ASSUME JobInv, [Next]_vars, NotificationsTruthful
  PROVE  NotificationsTruthful'
  <1>1. persisted \subseteq persisted'
    BY DEF Next, vars, ApiStep, WorkerStep, CreatePut, CreateInvoke, CancelGet, CancelInvoke,
           DeleteGet, DeleteDelete, Duplicate, Get, Put, Notify, NotifyFails, Load,
           HandlerReports, HandlerEnds, Deliver, Crash
  <1>2. notified' = notified \/ \E w \in Workers : Notify(w)
    BY DEF Next, vars, ApiStep, WorkerStep, CreatePut, CreateInvoke, CancelGet, CancelInvoke,
           DeleteGet, DeleteDelete, Duplicate, Get, Put, NotifyFails, Load,
           HandlerReports, HandlerEnds, Deliver, Crash
  <1>3. \A w \in Workers : Notify(w) => notified' \subseteq notified \cup persisted
    BY DEF Notify, JobInv, WrittenInv
  <1> QED BY <1>1, <1>2, <1>3 DEF NotificationsTruthful

THEOREM NotificationsAreTruthful == Spec => []NotificationsTruthful
  <1>1. Init => NotificationsTruthful
    BY DEF Init, NotificationsTruthful
  <1>2. JobInv /\ NotificationsTruthful /\ [Next]_vars => NotificationsTruthful'
    BY NotifiedWasWritten
  <1> QED BY <1>1, <1>2, JobInvariant, PTL DEF Spec

(* A profile handler works on a job that was put to Running and reported.  *)
THEOREM HandlersRunAfterRunning == Spec => []HandlerAfterRunning
  <1>1. JobInv => HandlerAfterRunning
    BY DEF JobInv, StartedInv, PastStart, HandlerAfterRunning
  <1> QED BY <1>1, JobInvariant, PTL
=============================================================================
