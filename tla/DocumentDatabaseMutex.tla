------------------------ MODULE DocumentDatabaseMutex ------------------------
(***************************************************************************)
(* The mutex that the worker lambdas of an MCMA service share through a    *)
(* document database: base/data DocumentDatabaseMutex over the backends of *)
(* DynamoDB, Cosmos DB and Firestore.                                      *)
(*                                                                         *)
(* The lock is one database record.  An object acquires it by creating the *)
(* record and reading it back, and releases it by deleting the record on   *)
(* condition that its version is the one it wrote.  A record older than    *)
(* lockTimeout is stale and may be deleted by anybody.                     *)
(*                                                                         *)
(* Every await of the code separates two actions: the request that reaches *)
(* the database and the continuation that handles the answer.  Time is     *)
(* kept relative to the present: instead of a timestamp a record has its   *)
(* age, the true time since the timestamp was taken, so that the clock     *)
(* needs no bound.  Ages beyond AgeCap are equivalent for every clock.     *)
(***************************************************************************)
EXTENDS Integers, FiniteSets

CONSTANTS
  Objects,        \* mutex objects with the same mutexName, in any process
  Callers,        \* asynchronous flows of control that use the objects
  ObjectOf,       \* the object that each caller uses
  Versions,       \* version ids: random numbers, etags or write times
  NoVersion,      \* the versionId of an object that has not written yet
  NoLock,         \* no record in the database
  Malformed,      \* a record without mutexHolder or timestamp
  FreshVersions,  \* TRUE: the database makes a version per write (Cosmos DB,
                  \* Firestore); FALSE: one version per object (DynamoDB)
  LockTimeout,    \* the lockTimeout of the constructor
  Skew,           \* what each object's Date.now() adds to the true time
  MaxSkew,        \* a bound on the difference between two clocks
  ResponseTime,   \* an acquiring put is confirmed before it is this old
  MaxFaults       \* bound on failed requests and crashes

AgeCap == LockTimeout + MaxSkew + 1

ASSUME ConstantsAssumption ==
  /\ Objects # {} /\ Callers # {}
  /\ ObjectOf \in [Callers -> Objects]
  /\ NoVersion \notin Versions
  /\ FreshVersions \in BOOLEAN
  /\ LockTimeout \in Nat /\ MaxSkew \in Nat /\ ResponseTime \in Nat
  /\ MaxFaults \in Nat
  /\ Skew \in [Objects -> Int]
  /\ \A o, p \in Objects : Skew[o] - Skew[p] <= MaxSkew

LockData == [holder : Objects, version : Versions, age : 0 .. AgeCap]

ASSUME NoLockAssumption ==
  /\ NoLock # Malformed /\ NoLock \notin LockData /\ Malformed \notin LockData
  /\ NoLock \notin Callers

VARIABLES
  store,     \* the record in the database
  version,   \* versionId of each object
  hasLock,   \* hasLock of each object
  pc,        \* the await at which each caller is, or "idle" or "critical"
  op,        \* the method that each caller runs
  seen,      \* lockData of each caller, as read
  age,       \* age of the timestamp in each caller's latest put
  faults     \* faults so far

vars == <<store, version, hasLock, pc, op, seen, age, faults>>

Steps == {"idle", "put", "verify", "sanityVerify", "compare", "read",
          "sanityRead", "judge", "delete", "sleep", "critical", "release",
          "released"}

TypeOK ==
  /\ store \in LockData \cup {NoLock, Malformed}
  /\ version \in [Objects -> Versions \cup (IF FreshVersions THEN {NoVersion}
                                          ELSE {})]
  /\ hasLock \in [Objects -> BOOLEAN]
  /\ pc \in [Callers -> Steps]
  /\ op \in [Callers -> {"lock", "tryLock"}]
  /\ seen \in [Callers -> LockData \cup {NoLock, Malformed}]
  /\ age \in [Callers -> 0 .. AgeCap]
  /\ faults \in 0 .. MaxFaults

-----------------------------------------------------------------------------
(* The clock.  Only the difference of two clocks matters: a timestamp was  *)
(* taken with the clock of the holder and is compared with the clock of    *)
(* the reader.                                                             *)

Older_NoCap(a) == a + 1
Older(a) == IF a < AgeCap THEN a + 1 ELSE a

Stale_OrEqual(o, r) == r.age + Skew[o] - Skew[r.holder] >= LockTimeout
Stale(o, r) == r.age + Skew[o] - Skew[r.holder] > LockTimeout

-----------------------------------------------------------------------------
(* Versions.  A version is free when nothing refers to it any more.        *)

VersionsOf(r) == IF r \in LockData THEN {r.version} ELSE {}

InUse == {version[o] : o \in Objects} \cup VersionsOf(store)
           \cup UNION {VersionsOf(seen[c]) : c \in Callers}

NewVersion(o) == IF FreshVersions THEN Versions \ InUse ELSE {version[o]}

InitialVersions ==
  IF FreshVersions
  THEN {[o \in Objects |-> NoVersion]}
  ELSE {v \in [Objects -> Versions] :
          \A o, p \in Objects : v[o] = v[p] => o = p}

Init ==
  /\ store = NoLock
  /\ version \in InitialVersions
  /\ hasLock = [o \in Objects |-> FALSE]
  /\ pc = [c \in Callers |-> "idle"]
  /\ op = [c \in Callers |-> "lock"]
  /\ seen = [c \in Callers |-> NoLock]
  /\ age = [c \in Callers |-> 0]
  /\ faults = 0

-----------------------------------------------------------------------------
(* Helpers: a caller moves to its next await; a request fails; the         *)
(* deleteLockData of a version removes the record that carries it.         *)

Goto(c, s) == pc' = [pc EXCEPT ![c] = s]

Fault == faults < MaxFaults /\ faults' = faults + 1

AfterDelete_AnyVersion(v) == IF store \in LockData THEN NoLock ELSE store
AfterDelete(v) ==
  IF store \in LockData /\ store.version = v THEN NoLock ELSE store

(* The end of an attempt, where `has' is hasLock: lock() sleeps and tries  *)
(* again unless the object has the lock; tryLock() returns hasLock.        *)
EndOfAttempt(c, has) ==
  Goto(c, IF has THEN "critical"
          ELSE IF op[c] = "lock" THEN "sleep" ELSE "idle")

-----------------------------------------------------------------------------
(* lock() and tryLock() are called.  They throw when the object already    *)
(* has the lock.                                                           *)
Call(c) ==
  /\ pc[c] = "idle"
  /\ ~hasLock[ObjectOf[c]]
  /\ \E m \in {"lock", "tryLock"} : op' = [op EXCEPT ![c] = m]
  /\ age' = [age EXCEPT ![c] = 0]
  /\ Goto(c, "put")
  /\ UNCHANGED <<store, version, hasLock, seen, faults>>

(* putLockData creates the record and does not replace one.                *)
MayPut_Upsert == TRUE
MayPut == store = NoLock

(* The record is created; the object learns its version.                   *)
Put(c) ==
  /\ pc[c] = "put"
  /\ MayPut
  /\ \E v \in NewVersion(ObjectOf[c]) :
       /\ store' = [holder |-> ObjectOf[c], version |-> v, age |-> age[c]]
       /\ version' = [version EXCEPT ![ObjectOf[c]] = v]
  /\ Goto(c, "verify")
  /\ UNCHANGED <<hasLock, op, seen, age, faults>>

(* putLockData is refused because there is a record.                       *)
PutConflict(c) ==
  /\ pc[c] = "put"
  /\ ~MayPut
  /\ Goto(c, "read")
  /\ UNCHANGED <<store, version, hasLock, op, seen, age, faults>>

(* putLockData fails, or creates the record and its answer is lost: the    *)
(* caller sees an error and the object does not learn the version.         *)
PutFails(c) ==
  /\ pc[c] = "put"
  /\ Fault
  /\ \/ UNCHANGED store
     \/ /\ MayPut
        /\ \E v \in NewVersion(ObjectOf[c]) :
             store' = [holder |-> ObjectOf[c], version |-> v, age |-> age[c]]
  /\ Goto(c, "read")
  /\ UNCHANGED <<version, hasLock, op, seen, age>>

(* getLockData, after a put (verify) or in the catch block (read).         *)
GetLockData(c) ==
  /\ pc[c] \in {"verify", "read"}
  /\ seen' = [seen EXCEPT ![c] = store]
  /\ Goto(c, IF store = Malformed
             THEN IF pc[c] = "verify" THEN "sanityVerify" ELSE "sanityRead"
             ELSE IF pc[c] = "verify" THEN "compare" ELSE "judge")
  /\ UNCHANGED <<store, version, hasLock, op, age, faults>>

(* The sanity check of getLockData deletes a malformed record: without a   *)
(* condition, so it deletes whatever record is there by then.              *)
SanityDelete(c) ==
  /\ pc[c] \in {"sanityVerify", "sanityRead"}
  /\ store' = NoLock
  /\ seen' = [seen EXCEPT ![c] = NoLock]
  /\ Goto(c, IF pc[c] = "sanityVerify" THEN "compare" ELSE "judge")
  /\ UNCHANGED <<version, hasLock, op, age, faults>>

(* getLockData fails: after a put the catch block reads again; in the      *)
(* catch block the error rejects lock() or tryLock().                      *)
GetFails(c) ==
  /\ pc[c] \in {"verify", "sanityVerify", "read", "sanityRead"}
  /\ Fault
  /\ seen' = [seen EXCEPT ![c] = NoLock]
  /\ Goto(c, IF pc[c] \in {"verify", "sanityVerify"} THEN "read" ELSE "idle")
  /\ UNCHANGED <<store, version, hasLock, op, age>>

(* The record read back after the put is compared with what was written.   *)
IsOwn(c) ==
  /\ seen[c] \in LockData
  /\ seen[c].holder = ObjectOf[c]
  /\ seen[c].version = version[ObjectOf[c]]

Compare(c) ==
  /\ pc[c] = "compare"
  /\ hasLock' = [hasLock EXCEPT ![ObjectOf[c]] = IsOwn(c)]
  /\ EndOfAttempt(c, IsOwn(c))
  /\ seen' = [seen EXCEPT ![c] = NoLock]
  /\ UNCHANGED <<store, version, op, age, faults>>

(* The catch block judges the record it read by the caller's clock.        *)
Judge(c) ==
  /\ pc[c] = "judge"
  /\ IF seen[c] # NoLock /\ Stale(ObjectOf[c], seen[c])
     THEN Goto(c, "delete") /\ UNCHANGED seen
     ELSE /\ EndOfAttempt(c, hasLock[ObjectOf[c]])
          /\ seen' = [seen EXCEPT ![c] = NoLock]
  /\ UNCHANGED <<store, version, hasLock, op, age, faults>>

(* The stale record is deleted, on condition that it has the version that  *)
(* was read; any error is swallowed.  tryLock() sleeps and tries again.    *)
EndOfDelete(c) ==
  /\ seen' = [seen EXCEPT ![c] = NoLock]
  /\ Goto(c, IF op[c] = "lock" /\ hasLock[ObjectOf[c]] THEN "critical"
             ELSE "sleep")
  /\ UNCHANGED <<version, hasLock, op, age>>

DeleteStale_OwnVersion(c) ==
  /\ pc[c] = "delete"
  /\ store' = AfterDelete(version[ObjectOf[c]])
  /\ EndOfDelete(c)
  /\ UNCHANGED faults

DeleteStale(c) ==
  /\ pc[c] = "delete"
  /\ store' = AfterDelete(seen[c].version)
  /\ EndOfDelete(c)
  /\ UNCHANGED faults

DeleteStaleFails(c) ==
  /\ pc[c] = "delete"
  /\ Fault
  /\ EndOfDelete(c)
  /\ UNCHANGED store

(* After the sleep: the loop of lock() ends when the object has the lock.  *)
Wake(c) ==
  /\ pc[c] = "sleep"
  /\ IF op[c] = "lock" /\ hasLock[ObjectOf[c]]
     THEN Goto(c, "critical") /\ UNCHANGED age
     ELSE Goto(c, "put") /\ age' = [age EXCEPT ![c] = 0]
  /\ UNCHANGED <<store, version, hasLock, op, seen, faults>>

(* unlock() is called; it throws when the object does not have the lock.   *)
Unlock(c) ==
  /\ pc[c] = "critical"
  /\ Goto(c, IF hasLock[ObjectOf[c]] THEN "release" ELSE "idle")
  /\ UNCHANGED <<store, version, hasLock, op, seen, age, faults>>

(* unlock() deletes the record of the object's version ...                 *)
Release(c) ==
  /\ pc[c] = "release"
  /\ store' = AfterDelete(version[ObjectOf[c]])
  /\ Goto(c, "released")
  /\ UNCHANGED <<version, hasLock, op, seen, age, faults>>

ReleaseFails(c) ==
  /\ pc[c] = "release"
  /\ Fault
  /\ Goto(c, "released")
  /\ UNCHANGED <<store, version, hasLock, op, seen, age>>

(* ... and clears hasLock once the delete was answered, successful or not. *)
Released(c) ==
  /\ pc[c] = "released"
  /\ hasLock' = [hasLock EXCEPT ![ObjectOf[c]] = FALSE]
  /\ Goto(c, "idle")
  /\ UNCHANGED <<store, version, op, seen, age, faults>>

(* The process of an object ends; a new one constructs the object anew.    *)
Crash(o) ==
  /\ Fault
  /\ \E v \in IF FreshVersions THEN {NoVersion} ELSE Versions \ InUse :
       version' = [version EXCEPT ![o] = v]
  /\ hasLock' = [hasLock EXCEPT ![o] = FALSE]
  /\ pc' = [c \in Callers |-> IF ObjectOf[c] = o THEN "idle" ELSE pc[c]]
  /\ seen' = [c \in Callers |-> IF ObjectOf[c] = o THEN NoLock ELSE seen[c]]
  /\ UNCHANGED <<store, op, age>>

(* Time passes, but not while the put of a caller that reached ResponseTime*)
(* is unconfirmed (a ResponseTime beyond AgeCap is no restriction).        *)
OlderRecord(r) == IF r \in LockData THEN [r EXCEPT !.age = Older(@)] ELSE r

Tick ==
  /\ \A c \in Callers :
       pc[c] \in {"put", "verify", "compare"} => age[c] < ResponseTime
  /\ store' = OlderRecord(store)
  /\ seen' = [c \in Callers |-> OlderRecord(seen[c])]
  /\ age' = [c \in Callers |-> Older(age[c])]
  /\ UNCHANGED <<version, hasLock, pc, op, faults>>

(* Somebody else modifies the record in the database.                      *)
Tamper ==
  /\ store \in LockData
  /\ Fault
  /\ store' = Malformed
  /\ UNCHANGED <<version, hasLock, pc, op, seen, age>>

-----------------------------------------------------------------------------
Continue(c) ==
  \/ Put(c) \/ PutConflict(c) \/ GetLockData(c) \/ Compare(c) \/ Judge(c)
  \/ DeleteStale(c) \/ Wake(c) \/ Release(c) \/ Released(c)

Fails(c) == PutFails(c) \/ GetFails(c) \/ DeleteStaleFails(c) \/ ReleaseFails(c)

Next ==
  \/ \E c \in Callers :
       Call(c) \/ Continue(c) \/ SanityDelete(c) \/ Unlock(c) \/ Fails(c)
  \/ \E o \in Objects : Crash(o)
  \/ Tick

Spec == Init /\ [][Next]_vars

(* Fairness: the event loop runs every continuation, every request is      *)
(* answered, and time passes.  Nobody has to call or to unlock.            *)
Fairness ==
  /\ \A c \in Callers : WF_vars(Continue(c) \/ SanityDelete(c))
  /\ WF_vars(Tick)

(* The database table may be written to by somebody else.                  *)
TamperedSpec == Init /\ [][Next \/ Tamper]_vars
FairTamperedSpec == TamperedSpec /\ Fairness

-----------------------------------------------------------------------------
(* Properties.                                                             *)

SingleCaller == \A c, d \in Callers : ObjectOf[c] = ObjectOf[d] => c = d

(* A caller is within its lease while lock() or tryLock() has given it the *)
(* lock and, by the clock that is furthest ahead of its own, the lock is   *)
(* not older than lockTimeout.                                             *)
InLease(c) == pc[c] = "critical" /\ age[c] + MaxSkew <= LockTimeout

(* Mutual exclusion: no two callers are within their lease, whatever fails *)
(* and however the deletion of a stale record by one of them interleaves   *)
(* with unlock() and lock() of another.                                    *)
LeaseExclusion == \A c, d \in Callers : InLease(c) /\ InLease(d) => c = d

(* A holder within its lease owns the record in the database, so that a    *)
(* waiting object finds it there: neither the deletion of a stale record   *)
(* nor an old unlock() took it away.                                       *)
LeaseOwnsRecord ==
  \A c \in Callers :
    InLease(c) => store = [holder  |-> ObjectOf[c],
                           version |-> version[ObjectOf[c]],
                           age     |-> age[c]]

(* Only a stale record, by somebody's clock, or the record of an object    *)
(* whose unlock() is in flight is removed: what the warning "Deleting      *)
(* stale lock" says, at the time the deletion takes effect and not at the  *)
(* time the record was read.                                               *)
Removed == store \in LockData /\ store' \notin {store, OlderRecord(store)}

OnlyStaleRemoved ==
  [][Removed =>
       \/ \E o \in Objects : Stale(o, store)
       \/ \E c \in Callers : pc[c] = "release" /\ ObjectOf[c] = store.holder
    ]_vars

(* The inductive invariant behind the three properties above, for a        *)
(* database that makes fresh versions.  A version identifies one record,   *)
(* an object's version is on no record of another object, and a record     *)
(* about to be deleted as stale was stale when read.                       *)
VersionInv ==
  /\ store # Malformed
  /\ store \in LockData =>
       \A o \in Objects : version[o] = store.version => o = store.holder
  /\ \A c \in Callers :
       /\ seen[c] # Malformed
       /\ pc[c] \notin {"sanityVerify", "sanityRead"}
       /\ store \in LockData /\ seen[c] \in LockData
            => (seen[c].version = store.version => seen[c] = store)
       /\ pc[c] = "delete" => /\ seen[c] \in LockData
                              /\ Stale(ObjectOf[c], seen[c])

(* From its put on, a caller within its lease owns the record; an object   *)
(* has the lock only between the end of lock() and that of unlock().       *)
LeaseInv ==
  \A c \in Callers :
    /\ hasLock[ObjectOf[c]] => pc[c] \in {"critical", "release", "released"}
    /\ pc[c] \in {"verify", "compare", "critical"} /\ age[c] + MaxSkew <= LockTimeout
         => /\ store \in LockData
            /\ store = [holder  |-> ObjectOf[c],
                        version |-> version[ObjectOf[c]],
                        age     |-> age[c]]

MutexInv == VersionInv /\ LeaseInv

(* Progress: if from some time on somebody is always waiting in lock(),    *)
(* the lock is acquired again and again, although records may be orphaned  *)
(* by crashes, lost answers and failed unlocks, and although a caller that *)
(* acquired it need not unlock.  Who acquires it is not said: of two that  *)
(* wait, one may always be faster.                                         *)
Waiting(c) == op[c] = "lock" /\ pc[c] \notin {"idle", "critical", "release", "released"}

Acquired == \E c \in Callers : pc[c] # "critical" /\ pc'[c] = "critical"

Progress ==
  <>[](\E c \in Callers : Waiting(c)) => []<><<Acquired>>_vars

(* A caller within its lease is the owner in the abstract lease lock.      *)
Owner ==
  IF \E c \in Callers : InLease(c) THEN CHOOSE c \in Callers : InLease(c)
  ELSE NoLock

Lease == INSTANCE LeaseLock WITH Clients <- Callers, Nobody <- NoLock,
                                 owner <- Owner

(* The mutex implements the abstract lease lock.                           *)
LeaseLockSpec == Lease!Spec
=============================================================================
