---------------------------- MODULE JobProcessing ----------------------------
(***************************************************************************)
(* The life of one job assignment: the API service that stores it and      *)
(* invokes the worker (base/api DefaultJobRouteCollection over the default *)
(* routes), the worker that processes it (base/worker Worker,              *)
(* ProcessJobAssignmentOperation and ProcessJobAssignmentHelper), the      *)
(* table, the asynchronous invocations and the notifications to the client.*)
(*                                                                         *)
(* The table is read and written without conditions, so every update is a  *)
(* read, a modification and a write in separate steps.  An invocation is a *)
(* message that is delivered at least once.  Of a job assignment only its  *)
(* status matters here.                                                    *)
(***************************************************************************)
EXTENDS Naturals, FiniteSets

CONSTANTS
  Workers,       \* concurrent executions of the worker function
  Cancels,       \* requests POST /job-assignments/{id}/cancel
  Deletes,       \* requests DELETE /job-assignments/{id}
  NoRecord,      \* no job assignment in the table
  MaxDuplicates, \* bound on messages delivered once more
  MaxCrashes,    \* bound on worker executions cut off
  MaxReports,    \* bound on the output updates of a profile handler
  MaxLostCalls,  \* bound on failing notifications and invocations
  MaxFaults      \* bound on the four together

ASSUME ConstantsAssumption ==
  /\ Workers # {}
  /\ MaxDuplicates \in Nat /\ MaxCrashes \in Nat
  /\ MaxReports \in Nat /\ MaxLostCalls \in Nat
  /\ MaxFaults \in Nat

Final == {"Completed", "Failed", "Canceled"}
JobStatus == {"New", "Running"} \cup Final

ASSUME NoRecordAssumption == NoRecord \notin JobStatus

Operations == {"ProcessJobAssignment", "ProcessCancel"}

VARIABLES
  record,     \* status of the job assignment in the table, or NoRecord
  create,     \* progress of POST /job-assignments
  cancel,     \* progress of each cancel request
  delete,     \* progress of each delete request
  queue,      \* number of messages of each operation to be delivered
  op,         \* operation that each worker executes
  at,         \* the await at which each worker is
  doing,      \* the update of the job assignment under way
  read,       \* job assignment read by that update
  persisted,  \* every status the table has held
  notified,   \* every status that a notification reported
  budget      \* duplicates, crashes, reports and lost calls so far

vars == <<record, create, cancel, delete, queue, op, at, doing, read, persisted,
          notified, budget>>

apiVars == <<create, cancel, delete>>
workerVars == <<op, at, doing, read>>

Updates == {"start", "report", "complete", "reject", "fail", "cancel"}

TypeOK ==
  /\ record \in JobStatus \cup {NoRecord}
  /\ create \in {"put", "invoke", "created", "error"}
  /\ cancel \in [Cancels -> {"get", "invoke", "accepted", "conflict",
                             "notFound", "error"}]
  /\ delete \in [Deletes -> {"get", "delete", "deleted", "notFound"}]
  /\ queue \in [Operations -> Nat]
  /\ op \in [Workers -> Operations]
  /\ at \in [Workers -> {"idle", "get", "put", "notify", "load", "handler"}]
  /\ doing \in [Workers -> Updates]
  /\ read \in [Workers -> JobStatus \cup {NoRecord}]
  /\ persisted \subseteq JobStatus
  /\ notified \subseteq JobStatus
  /\ budget \in [duplicates : 0 .. MaxDuplicates, crashes : 0 .. MaxCrashes,
                 reports : 0 .. MaxReports, lost : 0 .. MaxLostCalls]

Init ==
  /\ record = NoRecord
  /\ create = "put"
  /\ cancel = [r \in Cancels |-> "get"]
  /\ delete = [r \in Deletes |-> "get"]
  /\ queue = [o \in Operations |-> 0]
  /\ op = [w \in Workers |-> "ProcessJobAssignment"]
  /\ at = [w \in Workers |-> "idle"]
  /\ doing = [w \in Workers |-> "start"]
  /\ read = [w \in Workers |-> NoRecord]
  /\ persisted = {} /\ notified = {}
  /\ budget = [duplicates |-> 0, crashes |-> 0, reports |-> 0, lost |-> 0]

Send(o) == queue' = [queue EXCEPT ![o] = @ + 1]

Room ==
  budget.duplicates + budget.crashes + budget.reports + budget.lost < MaxFaults

LoseCall ==
  /\ budget.lost < MaxLostCalls /\ Room
  /\ budget' = [budget EXCEPT !.lost = @ + 1]

-----------------------------------------------------------------------------
(* The API service.  Creation stores the job assignment as the client sent *)
(* it and only then invokes the worker and answers; a failed invocation    *)
(* answers with an error and leaves the job assignment behind.             *)
CreatePut_NotAwaited ==
  /\ create = "put"
  /\ create' = "invoke"
  /\ UNCHANGED <<record, cancel, delete, queue, workerVars, persisted, notified,
                 budget>>

CreatePut ==
  /\ create = "put"
  /\ record' = "New"
  /\ persisted' = persisted \cup {"New"}
  /\ create' = "invoke"
  /\ UNCHANGED <<cancel, delete, queue, workerVars, notified, budget>>

(* onJobAssignmentCreationCompleted                                        *)
CreateInvoke ==
  /\ create = "invoke"
  /\ \/ /\ Send("ProcessJobAssignment")
        /\ create' = "created"
        /\ UNCHANGED budget
     \/ LoseCall /\ create' = "error" /\ UNCHANGED queue
  /\ UNCHANGED <<record, cancel, delete, workerVars, persisted, notified>>

(* processCancel decides on the status it reads ...                        *)
CancelGet(r) ==
  /\ cancel[r] = "get"
  /\ create # "put"
  /\ cancel' = [cancel EXCEPT ![r] = IF record = NoRecord THEN "notFound"
                                     ELSE IF record \in Final THEN "conflict"
                                     ELSE "invoke"]
  /\ UNCHANGED <<record, create, delete, queue, workerVars, persisted, notified,
                 budget>>

(* ... and invokes the worker after that.                                  *)
CancelInvoke(r) ==
  /\ cancel[r] = "invoke"
  /\ \/ /\ Send("ProcessCancel")
        /\ cancel' = [cancel EXCEPT ![r] = "accepted"]
        /\ UNCHANGED budget
     \/ /\ LoseCall
        /\ cancel' = [cancel EXCEPT ![r] = "error"]
        /\ UNCHANGED queue
  /\ UNCHANGED <<record, create, delete, workerVars, persisted, notified>>

(* The default delete route reads the resource and then deletes it.        *)
DeleteGet(r) ==
  /\ delete[r] = "get"
  /\ create # "put"
  /\ delete' = [delete EXCEPT ![r] = IF record = NoRecord THEN "notFound"
                                     ELSE "delete"]
  /\ UNCHANGED <<record, create, cancel, queue, workerVars, persisted, notified,
                 budget>>

DeleteDelete(r) ==
  /\ delete[r] = "delete"
  /\ record' = NoRecord
  /\ delete' = [delete EXCEPT ![r] = "deleted"]
  /\ UNCHANGED <<create, cancel, queue, workerVars, persisted, notified, budget>>

-----------------------------------------------------------------------------
(* The worker.                                                             *)

(* A message starts an execution: doWork selects the operation by its name.*)
(* ProcessJobAssignment initializes the helper with status Running;        *)
(* ProcessCancel, an operation of the service, cancels by the helper.      *)
InitialAwait_NoStatus(o) == IF o = "ProcessCancel" THEN "get" ELSE "load"
InitialAwait(o) == "get"

Deliver(w, o) ==
  /\ at[w] = "idle"
  /\ queue[o] > 0
  /\ queue' = [queue EXCEPT ![o] = @ - 1]
  /\ op' = [op EXCEPT ![w] = o]
  /\ doing' = [doing EXCEPT ![w] = IF o = "ProcessCancel" THEN "cancel" ELSE "start"]
  /\ at' = [at EXCEPT ![w] = InitialAwait(o)]
  /\ UNCHANGED <<record, apiVars, read, persisted, notified, budget>>

(* The platform delivers a message once more.                              *)
Duplicate(o) ==
  /\ budget.duplicates < MaxDuplicates /\ Room
  /\ queue[o] > 0
  /\ Send(o)
  /\ budget' = [budget EXCEPT !.duplicates = @ + 1]
  /\ UNCHANGED <<record, apiVars, workerVars, persisted, notified>>

NewStatus(w) ==
  CASE doing[w] = "start"               -> "Running"
    [] doing[w] = "report"              -> read[w]
    [] doing[w] = "complete"            -> "Completed"
    [] doing[w] \in {"reject", "fail"}  -> "Failed"
    [] doing[w] = "cancel"              -> "Canceled"

(* An update went wrong: execute() turns any error into fail(), whose own  *)
(* error it swallows; ProcessCancel ends with the error.                   *)
AfterError_Swallowed(w) == [at |-> "idle", doing |-> doing[w]]
AfterError(w) ==
  IF op[w] = "ProcessJobAssignment" /\ doing[w] # "fail"
  THEN [at |-> "get", doing |-> "fail"]
  ELSE [at |-> "idle", doing |-> doing[w]]

(* The await after a successful update: initialize() goes on to load the   *)
(* job and its profile, a report returns to the profile handler, and the   *)
(* other updates end the execution.                                        *)
AfterUpdate(w) ==
  [at    |-> CASE doing[w] = "start"  -> "load"
               [] doing[w] = "report" -> "handler"
               [] OTHER               -> "idle",
   doing |-> doing[w]]

Goto(w, next) ==
  /\ at' = [at EXCEPT ![w] = next.at]
  /\ doing' = [doing EXCEPT ![w] = next.doing]

(* updateJobAssignment reads the job assignment; without one, after three  *)
(* more attempts, it throws.                                               *)
Get_NotFoundIgnored(w) ==
  /\ at[w] = "get"
  /\ read' = [read EXCEPT ![w] = record]
  /\ Goto(w, [at |-> "put", doing |-> doing[w]])
  /\ UNCHANGED <<record, apiVars, queue, op, persisted, notified, budget>>

Get(w) ==
  /\ at[w] = "get"
  /\ read' = [read EXCEPT ![w] = record]
  /\ IF record # NoRecord
     THEN Goto(w, [at |-> "put", doing |-> doing[w]])
     ELSE Goto(w, AfterError(w))
  /\ UNCHANGED <<record, apiVars, queue, op, persisted, notified, budget>>

(* ... writes it back with the new status, whatever the table holds now,   *)
Put_Lost(w) ==
  /\ at[w] = "put"
  /\ Goto(w, [at |-> "notify", doing |-> doing[w]])
  /\ UNCHANGED <<record, apiVars, queue, op, read, persisted, notified, budget>>

Put(w) ==
  /\ at[w] = "put"
  /\ record' = NewStatus(w)
  /\ persisted' = persisted \cup {NewStatus(w)}
  /\ Goto(w, [at |-> "notify", doing |-> doing[w]])
  /\ UNCHANGED <<apiVars, queue, op, read, notified, budget>>

(* ... and notifies the client.  A failing notification is an error of the *)
(* update, although the job assignment is written.                         *)
Notify(w) ==
  /\ at[w] = "notify"
  /\ notified' = notified \cup {NewStatus(w)}
  /\ Goto(w, AfterUpdate(w))
  /\ UNCHANGED <<record, apiVars, queue, op, read, persisted, budget>>

NotifyFails(w) ==
  /\ at[w] = "notify"
  /\ LoseCall
  /\ Goto(w, AfterError(w))
  /\ UNCHANGED <<record, apiVars, queue, op, read, persisted, notified>>

(* initialize() gets the job and the profile; execute() checks the job     *)
(* type, the profile and the input and calls the profile handler, or fails.*)
Load(w) ==
  /\ at[w] = "load"
  /\ \/ Goto(w, [at |-> "handler", doing |-> doing[w]])
     \/ Goto(w, [at |-> "get", doing |-> "fail"])
  /\ UNCHANGED <<record, apiVars, queue, op, read, persisted, notified,
                 budget>>

(* A profile handler of the service: reports output, completes or rejects  *)
(* the job by the helper as its last act, or throws.                       *)
HandlerReports(w) ==
  /\ at[w] = "handler"
  /\ budget.reports < MaxReports /\ Room
  /\ budget' = [budget EXCEPT !.reports = @ + 1]
  /\ Goto(w, [at |-> "get", doing |-> "report"])
  /\ UNCHANGED <<record, apiVars, queue, op, read, persisted, notified>>

HandlerEnds(w) ==
  /\ at[w] = "handler"
  /\ \E u \in {"complete", "reject", "fail"} :
       Goto(w, [at |-> "get", doing |-> u])
  /\ UNCHANGED <<record, apiVars, queue, op, read, persisted, notified,
                 budget>>

(* An execution is cut off; its message was not acknowledged and returns.  *)
Crash(w) ==
  /\ at[w] # "idle"
  /\ budget.crashes < MaxCrashes /\ Room
  /\ budget' = [budget EXCEPT !.crashes = @ + 1]
  /\ Send(op[w])
  /\ at' = [at EXCEPT ![w] = "idle"]
  /\ UNCHANGED <<record, apiVars, op, doing, read, persisted, notified>>

-----------------------------------------------------------------------------
WorkerStep(w) ==
  \/ Get(w) \/ Put(w) \/ Notify(w) \/ Load(w) \/ HandlerEnds(w)
  \/ \E o \in Operations : Deliver(w, o)

ApiStep ==
  \/ CreatePut \/ CreateInvoke
  \/ \E r \in Cancels : CancelInvoke(r)
  \/ \E r \in Deletes : DeleteDelete(r)

(* Nothing is left to do unless another request comes.                     *)
Quiet ==
  /\ create \in {"created", "error"}
  /\ \A o \in Operations : queue[o] = 0
  /\ \A w \in Workers : at[w] = "idle"
  /\ \A r \in Cancels : cancel[r] # "invoke"
  /\ \A r \in Deletes : delete[r] # "delete"

Done ==
  /\ Quiet
  /\ \A r \in Cancels : cancel[r] # "get"
  /\ \A r \in Deletes : delete[r] # "get"

Next ==
  \/ ApiStep
  \/ \E r \in Cancels : CancelGet(r)
  \/ \E r \in Deletes : DeleteGet(r)
  \/ \E o \in Operations : Duplicate(o)
  \/ \E w \in Workers :
       WorkerStep(w) \/ NotifyFails(w) \/ HandlerReports(w) \/ Crash(w)
  \/ Done /\ UNCHANGED vars

Spec == Init /\ [][Next]_vars

(* Fairness: every request is handled, every message delivered and every   *)
(* execution carried on; profile handlers end.                             *)
FairSpec ==
  /\ Spec
  /\ WF_vars(ApiStep)
  /\ \A w \in Workers : WF_vars(WorkerStep(w))

-----------------------------------------------------------------------------
(* Properties.                                                             *)

Deleted == \E r \in Deletes : delete[r] = "deleted"

(* The worker is invoked after the job assignment is stored: unless it is  *)
(* deleted, no execution ends with "JobAssignment ... not found".          *)
WorkerFindsJob ==
  \A w \in Workers : at[w] = "get" /\ ~Deleted => record # NoRecord

(* The client hears of no status that the table did not hold before, even  *)
(* if executions overlap, are cut off or repeated.                         *)
NotificationsTruthful == notified \subseteq persisted

(* A profile handler runs only for a job that was put to Running and was   *)
(* reported as such.                                                       *)
HandlerAfterRunning ==
  (\E w \in Workers : at[w] = "handler") => "Running" \in persisted \cap notified

(* A job whose creation was acknowledged ends in a final state or is       *)
(* deleted, with nothing left to do for it: in spite of overlapping        *)
(* executions, duplicates, crashes and failed notifications.               *)
EndsFinal == create = "created" ~> (Quiet /\ record \in Final \cup {NoRecord})

(* "JobAssignment is already in a final state": a final state is final.    *)
(* There are three ways to leave one: a message that is delivered once     *)
(* more reopens it, a failing notification of complete() fails it, and a   *)
(* cancel request that was checked before cancels it.                      *)
FinalKept == record \in Final => record' \in {record, NoRecord}
FinalIsFinal == [][FinalKept]_record
=============================================================================
