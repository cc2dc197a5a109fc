--------------------------- MODULE CloudWatchLogger ---------------------------
(***************************************************************************)
(* AwsCloudWatchLoggerProvider (aws/logger): log events wait in a queue,   *)
(* every event starts a timer, and a timer that finds no other run going   *)
(* drains the queue to CloudWatch in batches.  flush() polls until the     *)
(* queue is empty and no run is going.                                     *)
(*                                                                         *)
(* The code runs on one event loop: what happens between two awaits is one *)
(* step.  A message is a sequence of UTF-16 code units, of which only the  *)
(* kind matters: "one", "two" and "three" are characters by their bytes in *)
(* UTF-8, and "high" and "low" the halves of a character with four.        *)
(***************************************************************************)
EXTENDS Naturals, SequencesExt

CONSTANTS
  Runs,          \* invocations of processBatch that may overlap
  Flushes,       \* calls of flush()
  Messages,      \* the message of each event to be logged
  MaxMessage,    \* max message byte size
  Overhead,      \* log event byte overhead
  MaxBatch,      \* max putLogEventsRequestSize
  GroupExists,   \* whether the log group exists at first
  MaxFailures    \* bound on failing requests

ASSUME ConstantsAssumption ==
  /\ Runs # {}
  /\ Messages \in Seq(Seq({"one", "two", "three", "high", "low"}) \ {<<>>})
  /\ \A e \in DOMAIN Messages : \A n \in DOMAIN Messages[e] :
       /\ Messages[e][n] = "high" => n < Len(Messages[e]) /\ Messages[e][n + 1] = "low"
       /\ Messages[e][n] = "low" => n > 1 /\ Messages[e][n - 1] = "high"
  /\ MaxMessage \in Nat /\ MaxMessage >= 4 /\ Overhead \in Nat
  /\ MaxBatch \in Nat /\ MaxMessage + Overhead <= MaxBatch
  /\ GroupExists \in BOOLEAN
  /\ MaxFailures \in Nat

VARIABLES
  logged,           \* number of events logged so far
  logEvents,        \* queue of the provider
  logGroupVerified,
  logStreamCreated,
  processing,       \* a run is going
  timers,           \* timers that have not fired
  at,               \* the request each run waits for, or "idle"
  prepared,         \* preparedLogEvents of each run
  input,            \* inputLogEvents of each run
  group,            \* whether the log group exists
  stream,           \* whether the log stream of the provider exists
  sent,             \* every chunk handed to PutLogEvents, in order
  stored,           \* chunks in the log stream
  flush,            \* progress of each flush()
  mark,             \* events logged when it was called
  failures,         \* failed requests so far
  setupFailed       \* a run failed before its first batch and no event was
                    \* logged since

vars == <<logged, logEvents, logGroupVerified, logStreamCreated, processing,
          timers, at, prepared, input, group, stream, sent, stored, flush, mark,
          failures, setupFailed>>

flushVars == <<flush, mark>>

(* Part of a message: its code units from one to another.                  *)
Chunk == [event : 1 .. Len(Messages), from : Nat \ {0}, to : Nat \ {0},
          byteLength : Overhead + 1 .. Overhead + MaxMessage]

TypeOK ==
  /\ logged \in 0 .. Len(Messages)
  /\ logEvents \in Seq(1 .. Len(Messages))
  /\ logGroupVerified \in BOOLEAN /\ logStreamCreated \in BOOLEAN
  /\ processing \in BOOLEAN
  /\ timers \in 0 .. Len(Messages)
  /\ at \in [Runs -> {"idle", "describe", "createGroup", "createStream", "put"}]
  /\ prepared \in [Runs -> Seq(Chunk)] /\ input \in [Runs -> Seq(Chunk)]
  /\ group \in BOOLEAN /\ stream \in BOOLEAN
  /\ sent \in Seq(Chunk) /\ stored \in Seq(Chunk)
  /\ flush \in [Flushes -> {"idle", "waiting", "done", "late"}]
  /\ mark \in [Flushes -> 0 .. Len(Messages)]
  /\ failures \in 0 .. MaxFailures
  /\ setupFailed \in BOOLEAN

Init ==
  /\ logged = 0 /\ logEvents = <<>>
  /\ logGroupVerified = FALSE /\ logStreamCreated = FALSE
  /\ processing = FALSE
  /\ timers = 0
  /\ at = [r \in Runs |-> "idle"]
  /\ prepared = [r \in Runs |-> <<>>] /\ input = [r \in Runs |-> <<>>]
  /\ group = GroupExists /\ stream = FALSE
  /\ sent = <<>> /\ stored = <<>>
  /\ flush = [f \in Flushes |-> "idle"] /\ mark = [f \in Flushes |-> 0]
  /\ failures = 0 /\ setupFailed = FALSE

-----------------------------------------------------------------------------
(* codePointUtf8ByteLength of what codePointAt finds at a code unit: the   *)
(* whole character at its first half, and once more at the second.         *)
CodePointLength_Units == [one |-> 1, two |-> 1, three |-> 1, high |-> 1, low |-> 1]
CodePointLength == [one |-> 1, two |-> 2, three |-> 3, high |-> 4, low |-> 3]

(* The sums of the first numbers of a sequence.                            *)
Sums(numbers) ==
  LET sum[n \in 0 .. Len(numbers)] == IF n = 0 THEN 0 ELSE sum[n - 1] + numbers[n]
  IN  sum

(* What byteSubString counts for the first code units of a message.        *)
Counted ==
  [e \in DOMAIN Messages |->
     Sums([n \in DOMAIN Messages[e] |-> CodePointLength[Messages[e][n]]])]

(* The end of the longest part after code unit i that is not too long.     *)
ByteSubString(e, i) ==
  Max({n \in i .. Len(Messages[e]) : Counted[e][n] - Counted[e][i] <= MaxMessage})

Part(e, i, n) ==
  [event |-> e, from |-> i + 1, to |-> n,
   byteLength |-> Counted[e][n] - Counted[e][i] + Overhead]

(* Each message is cut into parts until nothing is left of it.             *)
Parts_EmptyRest(e) ==
  LET rest[i \in 0 .. Len(Messages[e])] ==
        IF i = Len(Messages[e]) THEN <<Part(e, i, i)>>
        ELSE <<Part(e, i, ByteSubString(e, i))>> \o rest[ByteSubString(e, i)]
  IN  rest[0]

Parts(e) ==
  LET rest[i \in 0 .. Len(Messages[e])] ==
        IF i = Len(Messages[e]) THEN <<>>
        ELSE <<Part(e, i, ByteSubString(e, i))>> \o rest[ByteSubString(e, i)]
  IN  rest[0]

Chunks == [e \in DOMAIN Messages |-> Parts(e)]

AllChunks(events) == FlattenSeq([i \in DOMAIN events |-> Chunks[events[i]]])

(* How many of the prepared chunks go into one request: as many as fit.    *)
BatchLength(chunks) ==
  LET bytes == Sums([k \in DOMAIN chunks |-> chunks[k].byteLength])
  IN  CHOOSE n \in 0 .. Len(chunks) :
        bytes[n] <= MaxBatch /\ (n = Len(chunks) \/ bytes[n + 1] > MaxBatch)

(* The request of run r is filled from the given chunks and put.           *)
FillRequest(r, chunks) ==
  LET n == BatchLength(chunks) IN
  /\ input' = [input EXCEPT ![r] = SubSeq(chunks, 1, n)]
  /\ prepared' = [prepared EXCEPT ![r] = SubSeq(chunks, n + 1, Len(chunks))]
  /\ at' = [at EXCEPT ![r] = "put"]

(* The while loop of processBatch up to its next await: it verifies the    *)
(* group, creates the stream, takes the whole queue, or ends the run.      *)
Await(r, request) ==
  /\ at' = [at EXCEPT ![r] = request]
  /\ UNCHANGED <<logEvents, prepared, input>>

TakeQueue(r) == FillRequest(r, AllChunks(logEvents)) /\ logEvents' = <<>>

EndRun(r) ==
  /\ at' = [at EXCEPT ![r] = "idle"]
  /\ input' = [input EXCEPT ![r] = <<>>]
  /\ prepared' = [prepared EXCEPT ![r] = <<>>]
  /\ UNCHANGED logEvents

Loop_OneBatch(r) ==
  /\ processing' = (at[r] # "put" /\ logEvents # <<>>)
  /\ IF logEvents = <<>> \/ at[r] = "put" THEN EndRun(r)
     ELSE IF ~logGroupVerified' THEN Await(r, "describe")
     ELSE IF ~logStreamCreated' THEN Await(r, "createStream")
     ELSE TakeQueue(r)

Loop(r) ==
  /\ processing' = (logEvents # <<>>)
  /\ IF logEvents = <<>> THEN EndRun(r)
     ELSE IF ~logGroupVerified' THEN Await(r, "describe")
     ELSE IF ~logStreamCreated' THEN Await(r, "createStream")
     ELSE TakeQueue(r)

-----------------------------------------------------------------------------
(* addLogEvent: the event is queued and a timer started.                   *)
Log ==
  /\ logged < Len(Messages)
  /\ logged' = logged + 1
  /\ logEvents' = Append(logEvents, logged + 1)
  /\ timers' = timers + 1
  /\ UNCHANGED <<logGroupVerified, logStreamCreated, processing, at, prepared,
                 input, group, stream, sent, stored, flushVars, failures>>
  /\ setupFailed' = FALSE

(* A timer fires: processBatch returns at once if a run is going or there  *)
(* is nothing to do.                                                       *)
MayStart_Always == logEvents # <<>>
MayStart == ~processing /\ logEvents # <<>>

Timer(r) ==
  /\ timers > 0
  /\ timers' = timers - 1
  /\ at[r] = "idle"
  /\ UNCHANGED <<logGroupVerified, logStreamCreated>>
  /\ IF MayStart THEN Loop(r)
     ELSE UNCHANGED <<at, logEvents, prepared, input, processing>>
  /\ UNCHANGED <<logged, group, stream, sent, stored, flushVars, failures, setupFailed>>

(* DescribeLogGroups, page by page, finds the log group or not.            *)
Describe(r) ==
  /\ at[r] = "describe"
  /\ logGroupVerified' = group
  /\ UNCHANGED logStreamCreated
  /\ IF group THEN Loop(r) ELSE Await(r, "createGroup") /\ UNCHANGED processing
  /\ UNCHANGED <<logged, timers, group, stream, sent, stored, flushVars, failures,
                 setupFailed>>

(* CloudWatch refuses to create what exists.                               *)
Refused(r) ==
  (at[r] = "createGroup" /\ group) \/ (at[r] = "createStream" /\ stream)

CreateLogGroup(r) ==
  /\ at[r] = "createGroup" /\ ~Refused(r)
  /\ group' = TRUE
  /\ logGroupVerified' = TRUE
  /\ UNCHANGED logStreamCreated
  /\ Loop(r)
  /\ UNCHANGED <<logged, timers, stream, sent, stored, flushVars, failures,
                 setupFailed>>

CreateLogStream(r) ==
  /\ at[r] = "createStream" /\ ~Refused(r)
  /\ stream' = TRUE
  /\ logStreamCreated' = TRUE
  /\ UNCHANGED logGroupVerified
  /\ Loop(r)
  /\ UNCHANGED <<logged, timers, group, sent, stored, flushVars, failures,
                 setupFailed>>

(* A request before the first batch is refused, or it fails, or takes      *)
(* effect and its answer is lost: the run ends and leaves the queue as it  *)
(* is.  After a lost answer the group is found by the next run; that there *)
(* is a stream the provider never learns.                                  *)
SetupFails(r) ==
  /\ at[r] \in {"describe", "createGroup", "createStream"}
  /\ \/ Refused(r) /\ UNCHANGED <<group, stream, failures>>
     \/ /\ failures < MaxFailures /\ failures' = failures + 1
        /\ \/ UNCHANGED <<group, stream>>
           \/ at[r] = "createGroup" /\ group' = TRUE /\ UNCHANGED stream
           \/ at[r] = "createStream" /\ stream' = TRUE /\ UNCHANGED group
  /\ EndRun(r)
  /\ processing' = FALSE
  /\ setupFailed' = TRUE
  /\ UNCHANGED <<logged, logGroupVerified, logStreamCreated, timers, sent, stored,
                 flushVars>>

(* Another instance of the service creates the log group.                  *)
OtherCreatesGroup ==
  /\ ~group
  /\ group' = TRUE
  /\ UNCHANGED <<logged, logEvents, logGroupVerified, logStreamCreated, processing,
                 stream, timers, at, prepared, input, sent, stored, flushVars, failures,
                 setupFailed>>

(* PutLogEvents is answered; an error is swallowed and the batch is lost.  *)
(* The run goes on with what is prepared, or with the queue.               *)
KeepInput_NotCleared(r) == input[r]
KeepInput(r) == <<>>

PutLogEvents(r) ==
  /\ at[r] = "put"
  /\ sent' = sent \o input[r]
  /\ \/ stored' = stored \o input[r] /\ UNCHANGED failures
     \/ /\ failures < MaxFailures
        /\ failures' = failures + 1
        /\ UNCHANGED stored
  /\ UNCHANGED <<logGroupVerified, logStreamCreated>>
  /\ IF prepared[r] # <<>>
     THEN /\ FillRequest(r, KeepInput(r) \o prepared[r])
          /\ UNCHANGED <<logEvents, processing>>
     ELSE Loop(r)
  /\ UNCHANGED <<logged, timers, group, stream, flushVars, setupFailed>>

-----------------------------------------------------------------------------
(* flush() polls every 10 ms.                                              *)
Drained_QueueOnly == logEvents = <<>>
Drained == logEvents = <<>> /\ ~processing

CallFlush(f) ==
  /\ flush[f] = "idle"
  /\ flush' = [flush EXCEPT ![f] = "waiting"]
  /\ mark' = [mark EXCEPT ![f] = logged]
  /\ UNCHANGED <<logged, logEvents, logGroupVerified, logStreamCreated, processing,
                 timers, at, prepared, input, group, stream, sent, stored, failures,
                 setupFailed>>

FlushReturns(f) ==
  /\ flush[f] = "waiting"
  /\ Drained
  /\ flush' = [flush EXCEPT ![f] = "done"]
  /\ UNCHANGED <<logged, logEvents, logGroupVerified, logStreamCreated, processing,
                 timers, at, prepared, input, group, stream, sent, stored, mark, failures,
                 setupFailed>>

(* The deadline passes: the events that remain are written to the console. *)
FlushLate(f) ==
  /\ flush[f] = "waiting"
  /\ ~Drained
  /\ flush' = [flush EXCEPT ![f] = "late"]
  /\ UNCHANGED <<logged, logEvents, logGroupVerified, logStreamCreated, processing,
                 timers, at, prepared, input, group, stream, sent, stored, mark, failures,
                 setupFailed>>

-----------------------------------------------------------------------------
RunStep(r) ==
  Timer(r) \/ Describe(r) \/ CreateLogGroup(r) \/ CreateLogStream(r) \/ PutLogEvents(r)
    \/ (Refused(r) /\ SetupFails(r))

Next ==
  \/ Log
  \/ \E r \in Runs : RunStep(r) \/ SetupFails(r)
  \/ OtherCreatesGroup
  \/ \E f \in Flushes : CallFlush(f) \/ FlushReturns(f) \/ FlushLate(f)

Spec == Init /\ [][Next]_vars

(* Fairness: timers fire, requests are answered, and flush() polls.        *)
FairSpec ==
  /\ Spec
  /\ \A r \in Runs : WF_vars(RunStep(r))
  /\ \A f \in Flushes : WF_vars(FlushReturns(f))

-----------------------------------------------------------------------------
(* Properties.                                                             *)

Logged == [e \in 1 .. logged |-> e]

(* The code units of events and of chunks.                                 *)
Units(e, i, n) == [k \in 1 .. n - i |-> <<e, i + k>>]
TextOf(events) ==
  FlattenSeq([k \in DOMAIN events |-> Units(events[k], 0, Len(Messages[events[k]]))])
Text(chunks) ==
  FlattenSeq([k \in DOMAIN chunks |->
                Units(chunks[k].event, chunks[k].from - 1, chunks[k].to)])

(* The text of every event is, exactly once and in the order of logging,   *)
(* handed to CloudWatch, in a run, or in the queue, although messages are  *)
(* cut, and events arrive and timers fire while a run awaits a request.    *)
NothingLostInside ==
  \E r \in Runs :
    /\ \A q \in Runs \ {r} : input[q] = <<>> /\ prepared[q] = <<>>
    /\ Text(sent \o input[r] \o prepared[r]) \o TextOf(logEvents) = TextOf(Logged)

(* The log stream holds no chunk twice or out of order, also when requests *)
(* fail between others that succeed.                                       *)
StoredInOrder ==
  \A i, j \in DOMAIN stored : i < j =>
    \/ stored[i].event < stored[j].event
    \/ stored[i].event = stored[j].event /\ stored[i].to < stored[j].from

(* The bytes of a chunk in UTF-8.  Half a character at an end of it becomes*)
(* a replacement character, of three bytes.                                *)
Utf8 ==
  LET bytes == [one |-> 1, two |-> 2, three |-> 3, high |-> 4, low |-> 0]
  IN  [e \in DOMAIN Messages |->
         Sums([n \in DOMAIN Messages[e] |-> bytes[Messages[e][n]]])]
Utf8Length(c) ==
  LET message == Messages[c.event]
  IN  Utf8[c.event][c.to] - Utf8[c.event][c.from - 1]
        + (IF message[c.from] = "low" THEN 3 ELSE 0)
        - (IF message[c.to] = "high" THEN 1 ELSE 0)

(* No request is empty, and no request or event is larger in bytes than    *)
(* PutLogEvents accepts, although byteSubString counts the characters of   *)
(* four bytes, and those that it cuts, differently.                        *)
RequestsFit ==
  \A r \in Runs : at[r] = "put" =>
    /\ input[r] # <<>>
    /\ \A k \in DOMAIN input[r] : Utf8Length(input[r][k]) <= MaxMessage
    /\ LET bytes == Sums([k \in DOMAIN input[r] |-> Utf8Length(input[r][k]) + Overhead])
       IN  bytes[Len(input[r])] <= MaxBatch

(* When flush() returns within its deadline, every event logged before the *)
(* call was handed to CloudWatch.                                          *)
FlushComplete ==
  \A f \in Flushes : flush[f] = "done" =>
    IsPrefix(TextOf([e \in 1 .. mark[f] |-> e]), Text(sent))

(* Every logged event is handed to CloudWatch and every flush() comes to   *)
(* an end, unless the latest run failed before its first batch and nothing *)
(* was logged since: the next event starts another run, which fails again  *)
(* if it was the answer of CreateLogStream that was lost.                  *)
Sent == logEvents = <<>> /\ ~processing
AllSentOrSetupFailed == logEvents # <<>> ~> (Sent \/ setupFailed)
FlushEnds ==
  \A f \in Flushes : flush[f] = "waiting" ~> (flush[f] # "waiting" \/ setupFailed)

(* "provider sends serialized diagnostics through the CloudWatch client":  *)
(* every logged event is handed to it, without the exception.              *)
AllSent == logEvents # <<>> ~> Sent
=============================================================================
