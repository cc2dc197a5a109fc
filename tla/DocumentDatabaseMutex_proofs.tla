-------------------- MODULE DocumentDatabaseMutex_proofs --------------------
(***************************************************************************)
(* Proofs about DocumentDatabaseMutex, for every number of objects and     *)
(* callers, every lockTimeout, every skew of the clocks and any number of  *)
(* faults.                                                                 *)
(***************************************************************************)
EXTENDS DocumentDatabaseMutex, TLAPS

LEMMA AgeCapNat == AgeCap \in Nat
  BY ConstantsAssumption DEF AgeCap

LEMMA OlderAge == ASSUME NEW a \in 0 .. AgeCap
                  PROVE  Older(a) \in 0 .. AgeCap /\ Older(a) >= a
  BY AgeCapNat DEF Older

LEMMA OlderRecordType ==
  ASSUME NEW r \in LockData \cup {NoLock, Malformed}
  PROVE  /\ OlderRecord(r) \in LockData \cup {NoLock, Malformed}
         /\ r \in LockData => /\ OlderRecord(r) \in LockData
                              /\ OlderRecord(r).holder = r.holder
                              /\ OlderRecord(r).version = r.version
                              /\ OlderRecord(r).age = Older(r.age)
         /\ r \notin LockData => OlderRecord(r) = r
  BY OlderAge DEF OlderRecord, LockData

LEMMA NewVersionType ==
  ASSUME TypeOK, NEW o \in Objects, NEW v \in NewVersion(o)
  PROVE  v \in Versions
  BY ConstantsAssumption DEF TypeOK, NewVersion

(* Every variable keeps its type, whatever the backend and the sharing of  *)
(* objects.                                                                *)
THEOREM TypeCorrect == Spec => []TypeOK
  <1>1. Init => TypeOK
    BY ConstantsAssumption, AgeCapNat DEF Init, TypeOK, InitialVersions, Steps
  <1>2. TypeOK /\ [Next]_vars => TypeOK'
    <2> SUFFICES ASSUME TypeOK, [Next]_vars PROVE TypeOK'
      OBVIOUS
    <2> USE ConstantsAssumption, AgeCapNat DEF TypeOK, Steps, Goto
    <2>1. ASSUME NEW c \in Callers, Call(c) PROVE TypeOK'
      BY <2>1 DEF Call
    <2>2. ASSUME NEW c \in Callers, Put(c) PROVE TypeOK'
      <3>1. PICK v \in NewVersion(ObjectOf[c]) :
              /\ store' = [holder |-> ObjectOf[c], version |-> v, age |-> age[c]]
              /\ version' = [version EXCEPT ![ObjectOf[c]] = v]
        BY <2>2 DEF Put
      <3> QED BY <2>2, <3>1, NewVersionType DEF Put, LockData
    <2>3. ASSUME NEW c \in Callers, PutConflict(c) PROVE TypeOK'
      BY <2>3 DEF PutConflict
    <2>4. ASSUME NEW c \in Callers, GetLockData(c) PROVE TypeOK'
      BY <2>4 DEF GetLockData
    <2>5. ASSUME NEW c \in Callers, Compare(c) PROVE TypeOK'
      BY <2>5 DEF Compare, IsOwn, EndOfAttempt
    <2>6. ASSUME NEW c \in Callers, Judge(c) PROVE TypeOK'
      BY <2>6 DEF Judge, EndOfAttempt
    <2>7. ASSUME NEW c \in Callers, DeleteStale(c) PROVE TypeOK'
      BY <2>7 DEF DeleteStale, AfterDelete, EndOfDelete
    <2>8. ASSUME NEW c \in Callers, Wake(c) PROVE TypeOK'
      BY <2>8 DEF Wake
    <2>9. ASSUME NEW c \in Callers, Release(c) PROVE TypeOK'
      BY <2>9 DEF Release, AfterDelete
    <2>10. ASSUME NEW c \in Callers, Released(c) PROVE TypeOK'
      BY <2>10 DEF Released
    <2>11. ASSUME NEW c \in Callers, SanityDelete(c) PROVE TypeOK'
      BY <2>11 DEF SanityDelete
    <2>12. ASSUME NEW c \in Callers, Unlock(c) PROVE TypeOK'
      BY <2>12 DEF Unlock
    <2>13. ASSUME NEW c \in Callers, Fails(c) PROVE TypeOK'
      <3>1. CASE PutFails(c)
        <4>1. CASE UNCHANGED store
          BY <3>1, <4>1 DEF PutFails, Fault
        <4>2. CASE store' # store
          <5>1. PICK v \in NewVersion(ObjectOf[c]) :
                  store' = [holder |-> ObjectOf[c], version |-> v, age |-> age[c]]
            BY <3>1, <4>2 DEF PutFails
          <5> QED BY <3>1, <5>1, NewVersionType DEF PutFails, Fault, LockData
        <4> QED BY <4>1, <4>2
      <3>2. CASE GetFails(c)
        BY <3>2 DEF GetFails, Fault
      <3>3. CASE DeleteStaleFails(c)
        BY <3>3 DEF DeleteStaleFails, EndOfDelete, Fault
      <3>4. CASE ReleaseFails(c)
        BY <3>4 DEF ReleaseFails, Fault
      <3> QED BY <2>13, <3>1, <3>2, <3>3, <3>4 DEF Fails
    <2>14. ASSUME NEW o \in Objects, Crash(o) PROVE TypeOK'
      BY <2>14 DEF Crash, Fault
    <2>15. CASE Tick
      <3>1. age' \in [Callers -> 0 .. AgeCap]
        BY <2>15, OlderAge DEF Tick
      <3> QED BY <2>15, <3>1, OlderRecordType DEF Tick
    <2>16. CASE UNCHANGED vars
      BY <2>16 DEF vars
    <2> QED BY <2>1, <2>2, <2>3, <2>4, <2>5, <2>6, <2>7, <2>8, <2>9, <2>10,
               <2>11, <2>12, <2>13, <2>14, <2>15, <2>16 DEF Next, Continue
  <1> QED BY <1>1, <1>2, PTL DEF Spec

-----------------------------------------------------------------------------
(* The version invariant.  A record that is put carries a version that     *)
(* nothing else refers to; every other step removes the record or leaves   *)
(* it, and Tick ages all copies of a record alike.                         *)

LEMMA FreshVersion ==
  ASSUME TypeOK, FreshVersions, NEW o \in Objects, NEW v \in NewVersion(o)
  PROVE  /\ v \in Versions
         /\ \A p \in Objects : version[p] # v
         /\ \A c \in Callers : seen[c] \in LockData => seen[c].version # v
  BY DEF NewVersion, InUse, VersionsOf

LEMMA StaleMonotone ==
  ASSUME NEW r \in LockData, NEW o \in Objects, Stale(o, r)
  PROVE  Stale(o, OlderRecord(r))
  <1>1. /\ r.age \in 0 .. AgeCap /\ r.holder \in Objects
        /\ OlderRecord(r).age = Older(r.age)
        /\ OlderRecord(r).holder = r.holder
    BY OlderRecordType DEF LockData
  <1>2. Older(r.age) \in Int /\ Older(r.age) >= r.age
    BY <1>1, OlderAge, AgeCapNat
  <1> QED BY <1>1, <1>2, ConstantsAssumption, AgeCapNat DEF Stale

(* A put of a fresh version, learnt by its object or not.                  *)
LEMMA PutVersionInv ==
  ASSUME TypeOK, FreshVersions, VersionInv, TypeOK',
         NEW c \in Callers, NEW v \in NewVersion(ObjectOf[c]),
         store' = [holder |-> ObjectOf[c], version |-> v, age |-> age[c]],
         \/ version' = version
         \/ version' = [version EXCEPT ![ObjectOf[c]] = v],
         seen' = seen,
         \A d \in Callers : pc'[d] = pc[d] \/ pc'[d] \in {"verify", "read"}
  PROVE  VersionInv'
  <1>1. ObjectOf[c] \in Objects
    BY ConstantsAssumption
  <1>2. /\ v \in Versions
        /\ \A p \in Objects : version[p] # v
        /\ \A d \in Callers : seen[d] \in LockData => seen[d].version # v
    BY <1>1, FreshVersion
  <1>3. store' \in LockData /\ store'.version = v /\ store'.holder = ObjectOf[c]
    BY <1>1, <1>2 DEF LockData, TypeOK
  <1>4. \A o \in Objects : version'[o] = store'.version => o = store'.holder
    BY <1>1, <1>2, <1>3 DEF TypeOK
  <1> QED BY <1>2, <1>3, <1>4, NoLockAssumption DEF VersionInv

(* A step that leaves or removes the record, and reads it or forgets it.   *)
LEMMA KeepVersionInv ==
  ASSUME TypeOK, VersionInv,
         store' \in {store, NoLock},
         version' = version,
         \A d \in Callers : \/ seen'[d] \in {seen[d], NoLock}
                            \/ seen'[d] = store /\ store' = store,
         \A d \in Callers : /\ pc'[d] \notin {"sanityVerify", "sanityRead"}
                            /\ pc'[d] = "delete"
                                 => /\ seen'[d] = seen[d]
                                    /\ seen[d] \in LockData
                                    /\ Stale(ObjectOf[d], seen[d])
  PROVE  VersionInv'
  <1> USE NoLockAssumption
  <1>1. store' # Malformed
    BY DEF VersionInv
  <1>2. store' \in LockData =>
          \A o \in Objects : version'[o] = store'.version => o = store'.holder
    BY DEF VersionInv
  <1>3. ASSUME NEW d \in Callers
        PROVE  /\ seen'[d] # Malformed
               /\ store' \in LockData /\ seen'[d] \in LockData
                    => (seen'[d].version = store'.version => seen'[d] = store')
    BY DEF VersionInv
  <1>4. ASSUME NEW d \in Callers, pc'[d] = "delete"
        PROVE  seen'[d] \in LockData /\ Stale(ObjectOf[d], seen'[d])
    BY <1>4
  <1> QED BY <1>1, <1>2, <1>3, <1>4 DEF VersionInv

LEMMA VersionInvStep ==
  ASSUME TypeOK, TypeOK', FreshVersions, VersionInv, [Next]_vars
  PROVE  VersionInv'
  <1> USE DEF Goto
  <1>0. \A d \in Callers : /\ pc[d] \in Steps
                           /\ pc[d] \notin {"sanityVerify", "sanityRead"}
                           /\ pc[d] = "delete" => /\ seen[d] \in LockData
                                                  /\ Stale(ObjectOf[d], seen[d])
    BY DEF TypeOK, VersionInv
  <1>1. ASSUME NEW c \in Callers, Call(c) PROVE VersionInv'
    BY <1>0, <1>1, KeepVersionInv DEF Call, TypeOK
  <1>2. ASSUME NEW c \in Callers, Put(c) PROVE VersionInv'
    BY <1>2, PutVersionInv DEF Put, TypeOK
  <1>3. ASSUME NEW c \in Callers, PutConflict(c) PROVE VersionInv'
    BY <1>0, <1>3, KeepVersionInv DEF PutConflict, TypeOK
  <1>4. ASSUME NEW c \in Callers, GetLockData(c) PROVE VersionInv'
    <2>1. store # Malformed
      BY DEF VersionInv
    <2> QED BY <1>0, <1>4, <2>1, KeepVersionInv DEF GetLockData, TypeOK
  <1>5. ASSUME NEW c \in Callers, Compare(c) PROVE VersionInv'
    BY <1>0, <1>5, KeepVersionInv DEF Compare, EndOfAttempt, TypeOK
  <1>6. ASSUME NEW c \in Callers, Judge(c) PROVE VersionInv'
    <2>1. seen[c] # NoLock => seen[c] \in LockData
      BY DEF VersionInv, TypeOK
    <2> QED BY <1>0, <1>6, <2>1, KeepVersionInv DEF Judge, EndOfAttempt, TypeOK
  <1>7. ASSUME NEW c \in Callers, DeleteStale(c) PROVE VersionInv'
    <2>1. store' \in {store, NoLock}
      BY <1>7 DEF DeleteStale, AfterDelete
    <2>2. /\ version' = version
          /\ seen' = [seen EXCEPT ![c] = NoLock]
          /\ \E s \in {"critical", "sleep"} : pc' = [pc EXCEPT ![c] = s]
      BY <1>7 DEF DeleteStale, EndOfDelete
    <2> QED BY <1>0, <1>7, <2>1, <2>2, KeepVersionInv DEF TypeOK
  <1>8. ASSUME NEW c \in Callers, Wake(c) PROVE VersionInv'
    BY <1>0, <1>8, KeepVersionInv DEF Wake, TypeOK
  <1>9. ASSUME NEW c \in Callers, Release(c) PROVE VersionInv'
    <2>1. store' \in {store, NoLock}
      BY <1>9 DEF Release, AfterDelete
    <2>2. /\ version' = version /\ seen' = seen
          /\ pc' = [pc EXCEPT ![c] = "released"]
      BY <1>9 DEF Release
    <2> QED BY <1>0, <1>9, <2>1, <2>2, KeepVersionInv DEF TypeOK
  <1>10. ASSUME NEW c \in Callers, Released(c) PROVE VersionInv'
    BY <1>0, <1>10, KeepVersionInv DEF Released, TypeOK
  <1>11. ASSUME NEW c \in Callers, SanityDelete(c) PROVE VersionInv'
    <2>1. pc[c] \in {"sanityVerify", "sanityRead"}
      BY <1>11 DEF SanityDelete
    <2> QED BY <1>0, <1>11, <2>1
  <1>12. ASSUME NEW c \in Callers, Unlock(c) PROVE VersionInv'
    BY <1>0, <1>12, KeepVersionInv DEF Unlock, TypeOK
  <1>13. ASSUME NEW c \in Callers, PutFails(c) PROVE VersionInv'
    <2>1. CASE store' = store
      BY <1>0, <1>13, <2>1, KeepVersionInv DEF PutFails, TypeOK
    <2>2. CASE store' # store
      BY <1>13, <2>2, PutVersionInv DEF PutFails, TypeOK
    <2> QED BY <2>1, <2>2
  <1>14. ASSUME NEW c \in Callers, GetFails(c) PROVE VersionInv'
    BY <1>0, <1>14, KeepVersionInv DEF GetFails, TypeOK
  <1>15. ASSUME NEW c \in Callers, DeleteStaleFails(c) PROVE VersionInv'
    BY <1>0, <1>15, KeepVersionInv DEF DeleteStaleFails, EndOfDelete, TypeOK
  <1>16. ASSUME NEW c \in Callers, ReleaseFails(c) PROVE VersionInv'
    BY <1>0, <1>16, KeepVersionInv DEF ReleaseFails, TypeOK
  <1>17. ASSUME NEW o \in Objects, Crash(o) PROVE VersionInv'
    <2>1. /\ version' = [version EXCEPT ![o] = NoVersion]
          /\ store' = store
          /\ \A d \in Callers : \/ seen'[d] = seen[d] /\ pc'[d] = pc[d]
                                \/ seen'[d] = NoLock /\ pc'[d] = "idle"
      <3>1. version' = [version EXCEPT ![o] = NoVersion]
        BY <1>17 DEF Crash
      <3>2. /\ store' = store
            /\ pc' = [d \in Callers |-> IF ObjectOf[d] = o THEN "idle" ELSE pc[d]]
            /\ seen' = [d \in Callers |-> IF ObjectOf[d] = o THEN NoLock ELSE seen[d]]
        BY <1>17 DEF Crash
      <3> QED BY <3>1, <3>2
    <2>2. store \in LockData => store.version # NoVersion
      BY ConstantsAssumption DEF LockData
    <2> QED BY <1>0, <2>1, <2>2, NoLockAssumption DEF VersionInv, TypeOK
  <1>18. CASE Tick
    <2>1. /\ version' = version /\ pc' = pc
          /\ store' = OlderRecord(store)
          /\ \A d \in Callers : seen'[d] = OlderRecord(seen[d])
      BY <1>18 DEF Tick
    <2>2. /\ store' # Malformed
          /\ store' \in LockData <=> store \in LockData
          /\ store \in LockData => /\ store'.version = store.version
                                   /\ store'.holder = store.holder
      BY <2>1, OlderRecordType, NoLockAssumption DEF TypeOK, VersionInv
    <2>3. ASSUME NEW d \in Callers
          PROVE  /\ seen'[d] # Malformed
                 /\ seen'[d] \in LockData <=> seen[d] \in LockData
                 /\ seen[d] \in LockData => seen'[d].version = seen[d].version
                 /\ pc[d] = "delete" => Stale(ObjectOf[d], seen'[d])
      <3>1. seen[d] \in LockData \cup {NoLock, Malformed} /\ seen[d] # Malformed
        BY <2>3 DEF TypeOK, VersionInv
      <3>2. ObjectOf[d] \in Objects
        BY <2>3, ConstantsAssumption
      <3>3. seen'[d] = OlderRecord(seen[d])
        BY <2>1, <2>3
      <3>4. CASE seen[d] = NoLock
        <4>1. seen'[d] = NoLock
          BY <3>3, <3>4, OlderRecordType, NoLockAssumption
        <4> QED BY <1>0, <2>3, <3>4, <4>1, NoLockAssumption
      <3>5. CASE seen[d] \in LockData
        <4>1. seen'[d] \in LockData /\ seen'[d].version = seen[d].version
          BY <3>3, <3>5, OlderRecordType
        <4>2. pc[d] = "delete" => Stale(ObjectOf[d], seen'[d])
          BY <1>0, <2>3, <3>2, <3>3, <3>5, StaleMonotone
        <4> QED BY <3>5, <4>1, <4>2, NoLockAssumption
      <3> QED BY <3>1, <3>4, <3>5
    <2> QED BY <1>0, <2>1, <2>2, <2>3 DEF VersionInv
  <1>19. CASE UNCHANGED vars
    BY <1>19 DEF vars, VersionInv, Stale
  <1> QED BY <1>1, <1>2, <1>3, <1>4, <1>5, <1>6, <1>7, <1>8, <1>9, <1>10,
             <1>11, <1>12, <1>13, <1>14, <1>15, <1>16, <1>17, <1>18, <1>19
          DEF Next, Continue, Fails

LEMMA VersionInvariant ==
  ASSUME FreshVersions PROVE Spec => []VersionInv
  <1>1. Init => VersionInv
    BY NoLockAssumption DEF Init, VersionInv
  <1>2. TypeOK /\ TypeOK' /\ VersionInv /\ [Next]_vars => VersionInv'
    BY VersionInvStep
  <1> QED BY <1>1, <1>2, TypeCorrect, PTL DEF Spec

(* A record is removed only when it is stale, or by the unlock() of the    *)
(* object that put it: with fresh versions, the check of a record's age    *)
(* still holds when the deletion it led to takes effect.                   *)
THEOREM StaleRemoval == ASSUME FreshVersions PROVE Spec => OnlyStaleRemoved
  <1> DEFINE Right == \/ \E o \in Objects : Stale(o, store)
                      \/ \E c \in Callers :
                           pc[c] = "release" /\ ObjectOf[c] = store.holder
  <1>1. TypeOK /\ VersionInv /\ [Next]_vars => [Removed => Right]_vars
    <2> SUFFICES ASSUME TypeOK, VersionInv, [Next]_vars, Removed
                 PROVE  Right
      OBVIOUS
    <2> HIDE DEF Right
    <2>1. store \in LockData /\ store' # store /\ store' # OlderRecord(store)
      BY DEF Removed
    <2>2. store # NoLock
      BY <2>1, NoLockAssumption
    <2>3. ASSUME NEW c \in Callers, DeleteStale(c) PROVE Right
      <3>1. pc[c] = "delete" /\ seen[c].version = store.version
        BY <2>1, <2>3 DEF DeleteStale, AfterDelete
      <3>2. seen[c] = store /\ Stale(ObjectOf[c], seen[c])
        BY <2>1, <2>3, <3>1 DEF VersionInv
      <3> QED BY <2>3, <3>2, ConstantsAssumption DEF Right
    <2>4. ASSUME NEW c \in Callers, Release(c) PROVE Right
      <3>1. pc[c] = "release" /\ store.version = version[ObjectOf[c]]
        BY <2>1, <2>4 DEF Release, AfterDelete
      <3>2. ObjectOf[c] = store.holder
        BY <2>1, <2>4, <3>1, ConstantsAssumption DEF VersionInv
      <3> QED BY <2>4, <3>1, <3>2 DEF Right
    <2>5. ASSUME NEW c \in Callers,
                 \/ Call(c) \/ PutConflict(c) \/ GetLockData(c) \/ Compare(c)
                 \/ Judge(c) \/ Wake(c) \/ Released(c) \/ Unlock(c)
                 \/ GetFails(c) \/ DeleteStaleFails(c) \/ ReleaseFails(c)
          PROVE  store' = store
      BY <2>5 DEF Call, PutConflict, GetLockData, Compare, Judge, Wake,
                  Released, Unlock, GetFails, DeleteStaleFails, ReleaseFails
    <2>6. ASSUME NEW c \in Callers, Put(c) PROVE store = NoLock
      BY <2>6 DEF Put, MayPut
    <2>7. ASSUME NEW c \in Callers, PutFails(c)
          PROVE  store' = store \/ store = NoLock
      BY <2>7 DEF PutFails, MayPut
    <2>8. ASSUME NEW c \in Callers PROVE ~SanityDelete(c)
      BY <2>8 DEF SanityDelete, VersionInv
    <2>9. ASSUME NEW o \in Objects, Crash(o) PROVE store' = store
      BY <2>9 DEF Crash
    <2>10. Tick => store' = OlderRecord(store)
      BY DEF Tick
    <2>11. UNCHANGED vars => store' = store
      BY DEF vars
    <2> QED BY <2>1, <2>2, <2>3, <2>4, <2>5, <2>6, <2>7, <2>8, <2>9, <2>10,
               <2>11 DEF Next, Continue, Fails
  <1>2. Spec => [][Removed => Right]_vars
    BY <1>1, TypeCorrect, VersionInvariant, PTL DEF Spec
  <1> QED BY <1>2 DEF OnlyStaleRemoved

-----------------------------------------------------------------------------
(* The lease invariant.                                                    *)

(* The put of c that nobody may have removed yet, and its record.          *)
Confirmed(c) == /\ pc[c] \in {"verify", "compare", "critical"}
                /\ age[c] + MaxSkew <= LockTimeout

OwnRecord(c) == [holder  |-> ObjectOf[c],
                 version |-> version[ObjectOf[c]],
                 age     |-> age[c]]

(* Nobody finds the record of a caller within its lease stale.             *)
LEMMA ConfirmedNotStale ==
  ASSUME TypeOK, NEW c \in Callers, NEW d \in Callers, Confirmed(c)
  PROVE  ~Stale(ObjectOf[d], OwnRecord(c))
  <1>1. /\ ObjectOf[c] \in Objects /\ ObjectOf[d] \in Objects
        /\ Skew[ObjectOf[c]] \in Int /\ Skew[ObjectOf[d]] \in Int
        /\ Skew[ObjectOf[d]] - Skew[ObjectOf[c]] <= MaxSkew
        /\ age[c] \in Int /\ MaxSkew \in Int /\ LockTimeout \in Int
    BY ConstantsAssumption, AgeCapNat DEF TypeOK
  <1>2. OwnRecord(c).age = age[c] /\ OwnRecord(c).holder = ObjectOf[c]
    BY DEF OwnRecord
  <1> QED BY <1>1, <1>2 DEF Stale, Confirmed

(* Steps that leave the record, the versions and the ages alone, and bring *)
(* no caller between its put and its unlock().                             *)
LEMMA KeepLeaseInv ==
  ASSUME LeaseInv, store' = store, version' = version, age' = age,
         \A c \in Callers :
           /\ pc'[c] \in {"verify", "compare", "critical"}
                => pc[c] \in {"verify", "compare", "critical"}
           /\ hasLock'[ObjectOf[c]]
                => pc'[c] \in {"critical", "release", "released"}
  PROVE  LeaseInv'
  BY DEF LeaseInv

(* A step that leaves or removes the record, without removing the record   *)
(* of a caller within its lease, and keeps the versions of such callers.   *)
LEMMA GuardedLeaseInv ==
  ASSUME LeaseInv,
         \A c \in Callers :
           Confirmed(c)' =>
             /\ Confirmed(c) /\ store' = store /\ age'[c] = age[c]
             /\ version'[ObjectOf[c]] = version[ObjectOf[c]],
         \A c \in Callers :
           hasLock'[ObjectOf[c]]
             => pc'[c] \in {"critical", "release", "released"}
  PROVE  LeaseInv'
  BY DEF LeaseInv, Confirmed

LEMMA LeaseInvStep ==
  ASSUME TypeOK, FreshVersions, SingleCaller, VersionInv, LeaseInv, TypeOK',
         [Next]_vars
  PROVE  LeaseInv'
  <1> USE ConstantsAssumption DEF Goto
  <1>0. \A c \in Callers :
          /\ pc[c] \in Steps /\ ObjectOf[c] \in Objects
          /\ hasLock[ObjectOf[c]] \in BOOLEAN
          /\ hasLock[ObjectOf[c]] => pc[c] \in {"critical", "release", "released"}
          /\ Confirmed(c) => store \in LockData /\ store = OwnRecord(c)
          /\ Confirmed(c) => pc[c] \in {"verify", "compare", "critical"}
    BY DEF TypeOK, LeaseInv, Confirmed, OwnRecord
  <1>1. ASSUME NEW c \in Callers, Call(c) PROVE LeaseInv'
    <2>1. \A d \in Callers : d # c => pc'[d] = pc[d] /\ age'[d] = age[d]
      BY <1>1 DEF Call, TypeOK
    <2>2. pc'[c] = "put" /\ ~hasLock[ObjectOf[c]]
      BY <1>1 DEF Call, TypeOK
    <2>3. store' = store /\ version' = version /\ hasLock' = hasLock
      BY <1>1 DEF Call
    <2> QED BY <1>0, <2>1, <2>2, <2>3, GuardedLeaseInv DEF Confirmed
  <1>2. ASSUME NEW c \in Callers, Put(c) PROVE LeaseInv'
    <2>1. PICK v \in NewVersion(ObjectOf[c]) :
            /\ store' = [holder |-> ObjectOf[c], version |-> v, age |-> age[c]]
            /\ version' = [version EXCEPT ![ObjectOf[c]] = v]
      BY <1>2 DEF Put
    <2>2. /\ store = NoLock /\ pc[c] = "put" /\ pc' = [pc EXCEPT ![c] = "verify"]
          /\ hasLock' = hasLock /\ age' = age
      BY <1>2 DEF Put, MayPut
    <2>3. ASSUME NEW d \in Callers PROVE ~Confirmed(d)
      BY <1>0, <2>2, <2>3, NoLockAssumption
    <2>4. v \in Versions /\ version'[ObjectOf[c]] = v
      BY <1>0, <1>2, <2>1, NewVersionType DEF TypeOK
    <2>5. store' = OwnRecord(c)' /\ store' \in LockData
      BY <1>0, <1>2, <2>1, <2>2, <2>4 DEF OwnRecord, LockData, TypeOK
    <2>6. ASSUME NEW d \in Callers, d # c PROVE ~Confirmed(d)'
      BY <2>2, <2>3, <2>6 DEF Confirmed, TypeOK
    <2>7. \A d \in Callers : ~hasLock'[ObjectOf[d]] \/ pc'[d] = pc[d]
      BY <1>0, <1>2, <2>2 DEF TypeOK
    <2> QED BY <1>0, <2>2, <2>5, <2>6, <2>7 DEF LeaseInv, Confirmed, OwnRecord
  <1>3. ASSUME NEW c \in Callers, PutConflict(c) PROVE LeaseInv'
    BY <1>0, <1>3, GuardedLeaseInv DEF PutConflict, TypeOK, Confirmed
  <1>4. ASSUME NEW c \in Callers, GetLockData(c) PROVE LeaseInv'
    BY <1>0, <1>4, GuardedLeaseInv DEF GetLockData, TypeOK, Confirmed, VersionInv
  <1>5. ASSUME NEW c \in Callers, Compare(c) PROVE LeaseInv'
    <2>1. /\ hasLock' = [hasLock EXCEPT ![ObjectOf[c]] = IsOwn(c)]
          /\ pc[c] = "compare"
          /\ pc' = [pc EXCEPT ![c] = IF IsOwn(c) THEN "critical"
                                     ELSE IF op[c] = "lock" THEN "sleep" ELSE "idle"]
          /\ store' = store /\ version' = version /\ age' = age
      BY <1>5 DEF Compare, EndOfAttempt
    <2>2. IsOwn(c) \in BOOLEAN
      BY DEF IsOwn
    <2>3. \A d \in Callers : d # c => ObjectOf[d] # ObjectOf[c]
      BY <1>5 DEF SingleCaller
    <2> QED BY <1>0, <1>5, <2>1, <2>2, <2>3, GuardedLeaseInv DEF Confirmed, TypeOK
  <1>6. ASSUME NEW c \in Callers, Judge(c) PROVE LeaseInv'
    BY <1>0, <1>6, GuardedLeaseInv DEF Judge, EndOfAttempt, TypeOK, Confirmed
  <1>7. ASSUME NEW c \in Callers, DeleteStale(c) PROVE LeaseInv'
    <2>1. ASSUME NEW d \in Callers, Confirmed(d) PROVE store' = store
      <3>1. store = OwnRecord(d) /\ store \in LockData
        BY <1>0, <2>1
      <3>2. ~Stale(ObjectOf[c], store)
        BY <1>7, <2>1, <3>1, ConfirmedNotStale
      <3>3. seen[c] \in LockData /\ Stale(ObjectOf[c], seen[c])
        BY <1>7 DEF DeleteStale, VersionInv
      <3>4. seen[c].version # store.version
        BY <1>7, <3>1, <3>2, <3>3 DEF VersionInv
      <3> QED BY <1>7, <3>4 DEF DeleteStale, AfterDelete
    <2>2. /\ pc[c] = "delete" /\ version' = version /\ age' = age /\ hasLock' = hasLock
          /\ pc' = [pc EXCEPT ![c] = IF op[c] = "lock" /\ hasLock[ObjectOf[c]]
                                     THEN "critical" ELSE "sleep"]
      BY <1>7 DEF DeleteStale, EndOfDelete
    <2> QED BY <1>0, <1>7, <2>1, <2>2, GuardedLeaseInv DEF Confirmed, TypeOK
  <1>8. ASSUME NEW c \in Callers, Wake(c) PROVE LeaseInv'
    <2>1. ~hasLock[ObjectOf[c]]
      BY <1>0, <1>8 DEF Wake
    <2>2. \A d \in Callers : d # c => pc'[d] = pc[d] /\ age'[d] = age[d]
      BY <1>8, <2>1 DEF Wake, TypeOK
    <2>3. /\ pc'[c] = "put"
          /\ store' = store /\ version' = version /\ hasLock' = hasLock
      BY <1>8, <2>1 DEF Wake, TypeOK
    <2> QED BY <1>0, <2>1, <2>2, <2>3, GuardedLeaseInv DEF Confirmed
  <1>9. ASSUME NEW c \in Callers, Release(c) PROVE LeaseInv'
    <2>1. /\ pc[c] = "release" /\ pc' = [pc EXCEPT ![c] = "released"]
          /\ store' = AfterDelete(version[ObjectOf[c]])
          /\ version' = version /\ age' = age /\ hasLock' = hasLock
      BY <1>9 DEF Release
    <2>2. ASSUME NEW d \in Callers, Confirmed(d) PROVE store' = store
      <3>1. store \in LockData /\ store.holder = ObjectOf[d]
        BY <1>0, <2>2 DEF OwnRecord
      <3>2. d # c
        BY <1>0, <2>1, <2>2
      <3>3. store.holder # ObjectOf[c]
        BY <1>9, <2>2, <3>1, <3>2 DEF SingleCaller
      <3>4. store.version # version[ObjectOf[c]]
        BY <1>9, <3>1, <3>3 DEF VersionInv
      <3> QED BY <2>1, <3>4 DEF AfterDelete
    <2> QED BY <1>0, <1>9, <2>1, <2>2, GuardedLeaseInv DEF Confirmed, TypeOK
  <1>10. ASSUME NEW c \in Callers, Released(c) PROVE LeaseInv'
    <2>1. \A d \in Callers : d # c => ObjectOf[d] # ObjectOf[c]
      BY <1>10 DEF SingleCaller
    <2> QED BY <1>0, <1>10, <2>1, GuardedLeaseInv DEF Released, TypeOK, Confirmed
  <1>11. ASSUME NEW c \in Callers PROVE ~SanityDelete(c)
    BY <1>11 DEF SanityDelete, VersionInv
  <1>12. ASSUME NEW c \in Callers, Unlock(c) PROVE LeaseInv'
    BY <1>0, <1>12, GuardedLeaseInv DEF Unlock, TypeOK, Confirmed
  <1>13. ASSUME NEW c \in Callers, PutFails(c) PROVE LeaseInv'
    <2>1. /\ pc[c] = "put" /\ pc' = [pc EXCEPT ![c] = "read"]
          /\ version' = version /\ age' = age /\ hasLock' = hasLock
          /\ store' = store \/ store = NoLock
      BY <1>13 DEF PutFails, MayPut
    <2> QED BY <1>0, <1>13, <2>1, GuardedLeaseInv, NoLockAssumption
            DEF Confirmed, TypeOK
  <1>14. ASSUME NEW c \in Callers, GetFails(c) PROVE LeaseInv'
    BY <1>0, <1>14, GuardedLeaseInv DEF GetFails, TypeOK, Confirmed
  <1>15. ASSUME NEW c \in Callers, DeleteStaleFails(c) PROVE LeaseInv'
    BY <1>0, <1>15, GuardedLeaseInv DEF DeleteStaleFails, EndOfDelete, TypeOK, Confirmed
  <1>16. ASSUME NEW c \in Callers, ReleaseFails(c) PROVE LeaseInv'
    BY <1>0, <1>16, GuardedLeaseInv DEF ReleaseFails, TypeOK, Confirmed
  <1>17. ASSUME NEW o \in Objects, Crash(o) PROVE LeaseInv'
    <2>1. /\ version' = [version EXCEPT ![o] = NoVersion]
          /\ hasLock' = [hasLock EXCEPT ![o] = FALSE]
          /\ pc' = [d \in Callers |-> IF ObjectOf[d] = o THEN "idle" ELSE pc[d]]
          /\ store' = store /\ age' = age
      BY <1>17 DEF Crash
    <2> QED BY <1>0, <1>17, <2>1, GuardedLeaseInv DEF Confirmed, TypeOK
  <1>18. CASE Tick
    <2>1. /\ version' = version /\ pc' = pc /\ hasLock' = hasLock
          /\ store' = OlderRecord(store)
          /\ age' = [d \in Callers |-> Older(age[d])]
      BY <1>18 DEF Tick
    <2>2. ASSUME NEW d \in Callers, Confirmed(d)'
          PROVE  store' \in LockData /\ store' = OwnRecord(d)'
      <3>1. age[d] \in 0 .. AgeCap /\ age'[d] = Older(age[d])
        BY <2>1, <2>2 DEF TypeOK
      <3>2. age'[d] >= age[d] /\ age'[d] \in Int
        BY <3>1, OlderAge, AgeCapNat
      <3>3. Confirmed(d)
        BY <2>1, <2>2, <3>1, <3>2, AgeCapNat DEF Confirmed
      <3>4. store \in LockData /\ store = OwnRecord(d)
        BY <1>0, <2>2, <3>3
      <3>5. store' = [store EXCEPT !.age = Older(@)] /\ store' \in LockData
        BY <2>1, <3>4, OlderRecordType DEF OlderRecord
      <3> QED BY <2>1, <3>1, <3>4, <3>5 DEF OwnRecord
    <2> QED BY <1>0, <2>1, <2>2 DEF LeaseInv, Confirmed, OwnRecord
  <1>19. CASE UNCHANGED vars
    BY <1>19 DEF vars, LeaseInv
  <1> QED BY <1>1, <1>2, <1>3, <1>4, <1>5, <1>6, <1>7, <1>8, <1>9, <1>10,
             <1>11, <1>12, <1>13, <1>14, <1>15, <1>16, <1>17, <1>18, <1>19
          DEF Next, Continue, Fails

LEMMA LeaseInvariant ==
  ASSUME FreshVersions, SingleCaller PROVE Spec => []LeaseInv
  <1>1. Init => LeaseInv
    BY ConstantsAssumption DEF Init, LeaseInv
  <1>2. TypeOK /\ TypeOK' /\ VersionInv /\ LeaseInv /\ [Next]_vars => LeaseInv'
    BY LeaseInvStep
  <1> QED BY <1>1, <1>2, TypeCorrect, VersionInvariant, PTL DEF Spec

(* The two invariants hold together.                                       *)
THEOREM MutexInvariant ==
  ASSUME FreshVersions, SingleCaller PROVE Spec => []MutexInv
  BY VersionInvariant, LeaseInvariant, PTL DEF MutexInv

(* With fresh versions and one caller per object, a caller within its      *)
(* lease owns the record in the database.                                  *)
THEOREM LeaseOwnership ==
  ASSUME FreshVersions, SingleCaller PROVE Spec => []LeaseOwnsRecord
  <1>1. LeaseInv => LeaseOwnsRecord
    BY DEF LeaseInv, LeaseOwnsRecord, InLease
  <1> QED BY <1>1, LeaseInvariant, PTL

(* Mutual exclusion: at most one caller is within its lease.               *)
THEOREM MutualExclusion ==
  ASSUME FreshVersions, SingleCaller PROVE Spec => []LeaseExclusion
  <1>1. SingleCaller /\ LeaseInv => LeaseExclusion
    <2> SUFFICES ASSUME LeaseInv, NEW c \in Callers, NEW d \in Callers,
                        InLease(c), InLease(d)
                 PROVE  c = d
      BY DEF LeaseExclusion
    <2>1. store.holder = ObjectOf[c] /\ store.holder = ObjectOf[d]
      BY DEF LeaseInv, InLease
    <2> QED BY <2>1 DEF SingleCaller
  <1> QED BY <1>1, LeaseInvariant, PTL

-----------------------------------------------------------------------------
(* Refinement of the abstract lease lock.                                  *)

(* A record is never replaced by that of another holder in one step.       *)
LEMMA HolderKept ==
  ASSUME TypeOK, [Next]_vars, store \in LockData, store' \in LockData
  PROVE  store'.holder = store.holder
  <1> USE NoLockAssumption
  <1>1. ASSUME NEW c \in Callers,
               \/ Call(c) \/ PutConflict(c) \/ GetLockData(c) \/ Compare(c)
               \/ Judge(c) \/ Wake(c) \/ Released(c) \/ Unlock(c)
               \/ GetFails(c) \/ DeleteStaleFails(c) \/ ReleaseFails(c)
        PROVE  store' = store
    BY <1>1 DEF Call, PutConflict, GetLockData, Compare, Judge, Wake,
                Released, Unlock, GetFails, DeleteStaleFails, ReleaseFails
  <1>2. ASSUME NEW c \in Callers, Put(c) \/ PutFails(c)
        PROVE  store' = store
    BY <1>2 DEF Put, PutFails, MayPut
  <1>3. ASSUME NEW c \in Callers, DeleteStale(c) \/ Release(c)
        PROVE  store' = store
    BY <1>3 DEF DeleteStale, Release, AfterDelete
  <1>4. ASSUME NEW c \in Callers PROVE ~SanityDelete(c)
    BY DEF SanityDelete
  <1>5. ASSUME NEW o \in Objects, Crash(o) PROVE store' = store
    BY <1>5 DEF Crash
  <1>6. Tick => store'.holder = store.holder
    BY OlderRecordType DEF Tick
  <1>7. UNCHANGED vars => store' = store
    BY DEF vars
  <1> QED BY <1>1, <1>2, <1>3, <1>4, <1>5, <1>6, <1>7 DEF Next, Continue, Fails

LEMMA OwnerInLease ==
  ASSUME LeaseExclusion
  PROVE  /\ \A c \in Callers : InLease(c) => Owner = c
         /\ Owner # NoLock => Owner \in Callers /\ InLease(Owner)
  BY NoLockAssumption DEF Owner, LeaseExclusion

(* Ownership passes from a caller to another only by way of a free lock.   *)
THEOREM ImplementsLeaseLock ==
  ASSUME FreshVersions, SingleCaller PROVE Spec => LeaseLockSpec
  <1>1. Init => Lease!Init
    BY DEF Init, Lease!Init, Owner, InLease
  <1>2. ASSUME TypeOK, LeaseInv, LeaseExclusion, [Next]_vars,
               LeaseInv', LeaseExclusion'
        PROVE  [Lease!Next]_Owner
    <2>1. Owner # NoLock => \E c \in Callers : Owner = c /\ InLease(c)
      BY <1>2, OwnerInLease
    <2>2. Owner' # NoLock => \E c \in Callers : Owner' = c /\ InLease(c)'
      BY DEF Owner
    <2>3. ASSUME NEW c \in Callers, NEW d \in Callers, InLease(c), InLease(d)'
          PROVE  c = d
      <3>1. store \in LockData /\ store.holder = ObjectOf[c]
        BY <1>2, <2>3 DEF LeaseInv, InLease
      <3>2. store' \in LockData /\ store'.holder = ObjectOf[d]
        BY <1>2, <2>3 DEF LeaseInv, InLease
      <3>3. ObjectOf[c] = ObjectOf[d]
        BY <1>2, <3>1, <3>2, HolderKept
      <3> QED BY <2>3, <3>3 DEF SingleCaller
    <2> QED BY <2>1, <2>2, <2>3 DEF Lease!Next, Lease!GiveUp, Lease!Acquire
  <1>3. Spec => [](TypeOK /\ LeaseInv /\ LeaseExclusion)
    BY TypeCorrect, LeaseInvariant, MutualExclusion, PTL
  <1> QED BY <1>1, <1>2, <1>3, PTL DEF Spec, LeaseLockSpec, Lease!Spec
=============================================================================
