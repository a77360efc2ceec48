------------------------ MODULE SqliteSessionProofs ------------------------
(***************************************************************************)
(* Proofs about SqliteSession, for every number of processes, lanes,       *)
(* claims and writes: the types are kept, the lease always belongs to the  *)
(* latest claimant, so a stale owner never commits, a lease that has not   *)
(* expired leaves its owner only through the owner's own release, the rows *)
(* form one gap-free sequence and a tree, a lane has at most one open      *)
(* operation, and the database implements the log that SessionLog          *)
(* promises.                                                               *)
(***************************************************************************)
EXTENDS SqliteSession, FiniteSetTheorems, TLAPS

-----------------------------------------------------------------------------
(* Type correctness *)

\* A storage stays well typed when an operation of it changes its queue, its
\* timer, its status or its lease error.
LEMMA StorageUpdateType ==
    ASSUME NEW r \in StorageType, NEW q \in Seq(Requests), NEW b \in BOOLEAN,
           NEW e \in BOOLEAN, NEW s \in {"open", "closing", "gone"}
    PROVE  /\ [r EXCEPT !.queue = q] \in StorageType
           /\ [r EXCEPT !.queue = q, !.timer = b] \in StorageType
           /\ [r EXCEPT !.timer = b, !.queue = q] \in StorageType
           /\ [r EXCEPT !.queue = q, !.leaseError = e] \in StorageType
           /\ [r EXCEPT !.queue = q, !.leaseError = e, !.timer = b] \in StorageType
           /\ [r EXCEPT !.status = s, !.timer = b, !.queue = q] \in StorageType
  BY DEF StorageType

\* The serial queue of a storage holds requests before and after an append
\* or the removal of its head.
LEMMA QueueType ==
    ASSUME TypeOK, NEW o \in Owners
    PROVE  /\ st[o] \in StorageType
           /\ st[o].queue \in Seq(Requests)
           /\ \A k \in Requests : Append(st[o].queue, k) \in Seq(Requests)
           /\ st[o].queue # <<>> => Tail(st[o].queue) \in Seq(Requests)
  <1>1. st[o] \in StorageType
    BY DEF TypeOK
  <1>2. st[o].queue \in Seq(Requests)
    BY <1>1 DEF StorageType
  <1> QED
    BY <1>1, <1>2

\* When a storage takes the head off its queue, everything stays well typed,
\* also with a lease error or a timer set; only that storage changes.
LEMMA PoppedType ==
    ASSUME TypeOK, NEW o \in Owners, st[o].queue # <<>>
    PROVE  /\ Popped(o) \in [Owners -> StorageType]
           /\ \A b \in BOOLEAN :
                /\ [Popped(o) EXCEPT ![o].timer = b] \in [Owners -> StorageType]
                /\ [Popped(o) EXCEPT ![o].leaseError = TRUE] \in [Owners -> StorageType]
                /\ [Popped(o) EXCEPT ![o].leaseError = TRUE, ![o].timer = b]
                     \in [Owners -> StorageType]
  <1>1. [st[o] EXCEPT !.queue = Tail(st[o].queue)] \in StorageType
    BY StorageUpdateType, QueueType
  <1>2. Popped(o) \in [Owners -> StorageType]
    BY <1>1 DEF TypeOK, Popped
  <1> QED
    BY <1>2 DEF StorageType

\* claimStorage keeps the types of the lease, the claims and the storages.
LEMMA ClaimType ==
    ASSUME TypeOK, NEW p \in Procs, claimStorage(p)
    PROVE  /\ claims' \in 0..MaxClaims
           /\ lease' \in LeaseType
           /\ st' \in [Owners -> StorageType]
  <1>1. claims + 1 \in Owners /\ claims' \in 0..MaxClaims
    BY ConstantsAssumption DEF TypeOK, claimStorage, Owners
  <1>2. Claimed \in LeaseType
    BY ConstantsAssumption, <1>1 DEF TypeOK, claimStorage, Claimed, LeaseType, Owners
  <1>3. NewStorage(p, Claimed.fence) \in StorageType
    BY <1>2 DEF NewStorage, StorageType, LeaseType
  <1> QED
    BY <1>1, <1>2, <1>3 DEF claimStorage, TypeOK

\* A write operation keeps the types of the rows, the sequence number, the
\* lanes' leaves and their open operations.
LEMMA WriteOperationType ==
    ASSUME TypeOK, writeOperation
    PROVE  /\ nextSeq' \in Nat /\ rows' \subseteq RowType
           /\ leaf' \in [Lanes -> Nat] /\ openOp' \in [Lanes -> Nat]
  <1> DEFINE Typed == /\ nextSeq' \in Nat /\ rows' \subseteq RowType
                      /\ leaf' \in [Lanes -> Nat] /\ openOp' \in [Lanes -> Nat]
  <1>1. \A e \in EntryIds \cup {0} : e \in Nat
    BY DEF TypeOK, EntryIds, RowType
  <1>2. \A l \in Lanes : \A run \in Started(l) : run \in Nat
    BY DEF TypeOK, Started, RowType
  <1>3. ASSUME NEW kind \in {"entry", "lane", "started", "finished", "fact"},
               NEW l \in Lanes, NEW ref \in Nat, commit(Row(kind, l, ref))
        PROVE  nextSeq' \in Nat /\ rows' \subseteq RowType
    BY <1>3 DEF TypeOK, commit, Row, RowType
  <1>4. ASSUME NEW l \in Lanes, NEW e \in EntryIds \cup {0}, createLane(l, e) \/ moveLane(l, e)
        PROVE  Typed
    BY <1>1, <1>3, <1>4 DEF TypeOK, createLane, moveLane
  <1>5. ASSUME NEW l \in Lanes, appendEntry(l) \/ appendStarted(l)
        PROVE  Typed
    BY <1>3, <1>5 DEF TypeOK, appendEntry, appendStarted
  <1>6. ASSUME NEW l \in Lanes, NEW m \in Lanes, NEW run \in Started(m), appendFinished(l, run)
        PROVE  Typed
    BY <1>2, <1>3, <1>6 DEF TypeOK, appendFinished
  <1>7. CASE appendFact
    BY <1>3, <1>7, ConstantsAssumption DEF TypeOK, appendFact
  <1> QED
    BY <1>4, <1>5, <1>6, <1>7 DEF writeOperation

\* Every step of a repository, a storage or the clock keeps the types.
LEMMA TypeStep == TypeOK /\ [Next]_vars => TypeOK'
  <1> SUFFICES ASSUME TypeOK, [Next]_vars PROVE TypeOK'
    OBVIOUS
  <1>0. /\ NoLease \in LeaseType /\ Gone \in StorageType
        /\ Absent \in Nat
    <2>1. NoStorage \in StorageType
      BY DEF NoStorage, StorageType
    <2> QED
      BY <2>1, ConstantsAssumption DEF NoLease, LeaseType, Gone, StorageType, Absent
  <1>1. ASSUME NEW p \in Procs, create(p) PROVE TypeOK'
    BY <1>0, <1>1, ClaimType DEF TypeOK, create
  <1>2. ASSUME NEW p \in Procs, open(p) PROVE TypeOK'
    BY <1>2, ClaimType DEF TypeOK, open, db
  <1>4. ASSUME NEW p \in Procs, crash(p) PROVE TypeOK'
    BY <1>0, <1>4 DEF TypeOK, crash, db, Jobs
  <1>5. ASSUME NEW p \in Procs, NEW k \in {"delete", "repair"}, startJob(p, k) PROVE TypeOK'
    BY <1>5 DEF TypeOK, startJob, db, Jobs
  <1>6. ASSUME NEW p \in Procs, delete(p) PROVE TypeOK'
    <2>1. job' \in [Procs -> Jobs]
      BY <1>6 DEF TypeOK, delete, Jobs
    <2>2. lease' \in LeaseType /\ claims' \in 0..MaxClaims
      BY <1>0, <1>6, ConstantsAssumption DEF TypeOK, delete
    <2>3. nextSeq' \in Nat /\ rows' \subseteq RowType
      BY <1>6 DEF TypeOK, delete, db
    <2>4. exists' \in BOOLEAN
      <3>1. exists' = FALSE \/ exists' = exists
        BY <1>6, Zenon DEF delete, db
      <3> QED
        BY <3>1 DEF TypeOK
    <2>5. leaf' \in [Lanes -> Nat] /\ openOp' \in [Lanes -> Nat]
      BY <1>0, <1>6 DEF TypeOK, delete, db
    <2> QED
      BY <1>6, <2>1, <2>2, <2>3, <2>4, <2>5 DEF TypeOK, delete
  <1>7. ASSUME NEW p \in Procs, repairBranchCache(p) \/ jobFails(p) PROVE TypeOK'
    BY <1>0, <1>7, ConstantsAssumption DEF TypeOK, repairBranchCache, jobFails, db, Jobs
  <1>8. ASSUME NEW o \in Owners, enqueueWrite(o) PROVE TypeOK'
    <2>1. [st[o] EXCEPT !.queue = Append(st[o].queue, "write")] \in StorageType
      BY StorageUpdateType, QueueType DEF Requests
    <2> QED
      BY <2>1, <1>8 DEF TypeOK, enqueueWrite, db
  <1>9. ASSUME NEW o \in Owners, release(o) PROVE TypeOK'
    <2>1. [st[o] EXCEPT !.status = "closing", !.timer = FALSE,
                        !.queue = Append(st[o].queue, "release")] \in StorageType
      BY StorageUpdateType, QueueType DEF Requests
    <2> QED
      BY <2>1, <1>9 DEF TypeOK, release, db
  <1>10. ASSUME NEW o \in Owners, write(o) PROVE TypeOK'
    <2>1. Popped(o) \in [Owners -> StorageType]
      BY <1>10, PoppedType DEF write, NextRequest
    <2>2. lease' \in LeaseType
      BY <1>10, ConstantsAssumption DEF TypeOK, write, LeaseType
    <2>3. commits' \in 0..MaxWrites /\ writer' \in 0..MaxClaims
      BY <1>10, ConstantsAssumption DEF TypeOK, write, Owners
    <2>4. /\ nextSeq' \in Nat /\ rows' \subseteq RowType
          /\ leaf' \in [Lanes -> Nat] /\ openOp' \in [Lanes -> Nat]
      BY <1>10, WriteOperationType DEF write
    <2> QED
      BY <1>10, <2>1, <2>2, <2>3, <2>4 DEF TypeOK, write
  <1>11. ASSUME NEW o \in Owners, writeFails(o) PROVE TypeOK'
    <2>1. /\ Popped(o) \in [Owners -> StorageType]
          /\ [Popped(o) EXCEPT ![o].leaseError = TRUE, ![o].timer = FALSE] \in [Owners -> StorageType]
      BY <1>11, PoppedType DEF writeFails, NextRequest
    <2> QED
      BY <1>11, <2>1 DEF TypeOK, writeFails, db
  <1>12. ASSUME NEW o \in Owners, heartbeatFires(o) PROVE TypeOK'
    <2>1. [st[o] EXCEPT !.timer = FALSE, !.queue = Append(st[o].queue, "heartbeat")] \in StorageType
      BY StorageUpdateType, QueueType DEF Requests
    <2> QED
      BY <2>1, <1>12 DEF TypeOK, heartbeatFires, db
  <1>13. ASSUME NEW o \in Owners, heartbeat(o) PROVE TypeOK'
    <2>1. /\ Popped(o) \in [Owners -> StorageType]
          /\ [Popped(o) EXCEPT ![o].timer = TRUE] \in [Owners -> StorageType]
          /\ [Popped(o) EXCEPT ![o].leaseError = TRUE] \in [Owners -> StorageType]
      BY <1>13, PoppedType DEF heartbeat, NextRequest
    <2>2. lease' \in LeaseType
      BY <1>13, ConstantsAssumption DEF TypeOK, heartbeat, LeaseType
    <2> QED
      BY <1>13, <2>1, <2>2 DEF TypeOK, heartbeat, db
  <1>14. ASSUME NEW o \in Owners, finishRelease(o) PROVE TypeOK'
    BY <1>0, <1>14 DEF TypeOK, finishRelease, Released, db
  <1>15. CASE tick
    BY <1>15, ConstantsAssumption DEF TypeOK, tick, LeaseType, db
  <1>16. CASE UNCHANGED vars
    BY <1>16 DEF TypeOK, vars, db
  <1> QED
    BY <1>1, <1>2, <1>4, <1>5, <1>6, <1>7, <1>8, <1>9, <1>10, <1>11, <1>12,
       <1>13, <1>14, <1>15, <1>16 DEF Next

\* The type invariant holds in every state of the specification.
THEOREM TypeCorrect == Spec => []TypeOK
  <1>1. Init => TypeOK
    <2> SUFFICES ASSUME Init PROVE TypeOK
      OBVIOUS
    <2>1. NoStorage \in StorageType /\ NoLease \in LeaseType /\ Absent \in Nat
      BY ConstantsAssumption DEF NoStorage, StorageType, NoLease, LeaseType, Absent
    <2>2. /\ lease \in LeaseType /\ st \in [Owners -> StorageType]
          /\ leaf \in [Lanes -> Nat] /\ openOp \in [Lanes -> Nat]
      BY <2>1 DEF Init
    <2>3. /\ job \in [Procs -> Jobs] /\ claims \in 0..MaxClaims
          /\ commits \in 0..MaxWrites /\ writer \in 0..MaxClaims
          /\ nextSeq \in Nat /\ rows \subseteq RowType
      BY ConstantsAssumption DEF Init, Jobs
    <2>4. exists \in BOOLEAN
      BY DEF Init
    <2> QED
      BY <2>2, <2>3, <2>4 DEF TypeOK
  <1> QED
    BY <1>1, TypeStep, PTL DEF Spec

-----------------------------------------------------------------------------
(* The lease belongs to the latest claimant *)

\* What a request in a storage's queue says about the storage: a release is
\* only in the queue of a storage that is closing.
ReleaseQueued(s) == \A i \in DOMAIN s.queue : s.queue[i] = "release" => s.status = "closing"

\* Appending a request other than a release, and removing the head, keep that.
LEMMA QueueStep ==
    ASSUME NEW q \in Seq(Requests), NEW k \in Requests
    PROVE  /\ \A i \in DOMAIN Append(q, k) :
                 \/ i \in DOMAIN q /\ Append(q, k)[i] = q[i]
                 \/ Append(q, k)[i] = k
           /\ q # <<>> => \A i \in DOMAIN Tail(q) :
                 i + 1 \in DOMAIN q /\ Tail(q)[i] = q[i + 1]
  OBVIOUS

\* Every step keeps LeaseInv: a claim makes its owner the latest, an owner
\* that is not the latest can no longer renew or release, and only the end of
\* the session or of a lease takes the row away.
LEMMA LeaseStep == TypeOK /\ LeaseInv /\ [Next]_vars => LeaseInv'
  <1> SUFFICES ASSUME TypeOK, LeaseInv, [Next]_vars PROVE LeaseInv'
    OBVIOUS
  <1> DEFINE OwnerOK == lease.owner \in {0, claims} /\ (~exists => lease.owner = 0)
             QueuesOK == \A o \in Owners : ReleaseQueued(st[o])
  <1>0. LeaseInv <=> OwnerOK /\ QueuesOK
    BY DEF LeaseInv, ReleaseQueued
  <1>1. OwnerOK'
    <2>1. ASSUME NEW p \in Procs, create(p) PROVE OwnerOK'
      BY <2>1 DEF TypeOK, create, claimStorage, Claimed
    <2>2. ASSUME NEW p \in Procs, open(p) PROVE OwnerOK'
      BY <2>2 DEF TypeOK, open, claimStorage, Claimed, db
    <2>3. ASSUME NEW p \in Procs, delete(p) \/ repairBranchCache(p) PROVE OwnerOK'
      BY <1>0, <2>3 DEF delete, repairBranchCache, NoLease, db
    <2>4. ASSUME NEW p \in Procs,
                 crash(p) \/ jobFails(p)
                   \/ startJob(p, "delete") \/ startJob(p, "repair")
          PROVE  OwnerOK'
      BY <1>0, <2>4 DEF crash, jobFails, startJob, db
    <2>5. ASSUME NEW o \in Owners,
                 release(o) \/ enqueueWrite(o) \/ writeFails(o) \/ heartbeatFires(o)
          PROVE  OwnerOK'
      BY <1>0, <2>5 DEF release, enqueueWrite, writeFails, heartbeatFires, db
    <2>6. ASSUME NEW o \in Owners, write(o) \/ heartbeat(o) PROVE OwnerOK'
      <3>1. lease' = lease \/ lease' = [lease EXCEPT !.left = TTL]
        BY <2>6 DEF write, heartbeat
      <3>2. lease'.owner = lease.owner
        BY <3>1 DEF TypeOK, LeaseType
      <3>3. claims' = claims /\ exists' = exists
        BY <2>6 DEF write, heartbeat, db
      <3> QED
        BY <1>0, <3>2, <3>3
    <2>7. ASSUME NEW o \in Owners, finishRelease(o) PROVE OwnerOK'
      BY <1>0, <2>7 DEF finishRelease, Released, NoLease, db
    <2>8. CASE tick
      BY <1>0, <2>8 DEF TypeOK, tick, LeaseType, db
    <2>9. CASE UNCHANGED vars
      BY <1>0, <2>9 DEF vars, db
    <2> QED
      BY <2>1, <2>2, <2>3, <2>4, <2>5, <2>6, <2>7, <2>8, <2>9 DEF Next
  <1>2. QueuesOK'
    <2>1. CASE UNCHANGED st
      BY <1>0, <2>1 DEF ReleaseQueued
    <2>2. ASSUME NEW p \in Procs, claimStorage(p) PROVE QueuesOK'
      BY <1>0, <2>2 DEF TypeOK, claimStorage, NewStorage, ReleaseQueued
    <2>3. ASSUME NEW p \in Procs, crash(p) PROVE QueuesOK'
      BY <1>0, <2>3 DEF TypeOK, crash, Gone, NoStorage, ReleaseQueued
    <2>4. ASSUME NEW o \in Owners, release(o) PROVE QueuesOK'
      BY <1>0, <2>4, QueueType, QueueStep DEF TypeOK, release, StorageType, ReleaseQueued
    <2>5. ASSUME NEW o \in Owners, enqueueWrite(o) \/ heartbeatFires(o) PROVE QueuesOK'
      <3>1. PICK k \in {"write", "heartbeat"} :
               st'[o].queue = Append(st[o].queue, k) /\ st'[o].status = st[o].status
        BY <2>5, QueueType DEF TypeOK, enqueueWrite, heartbeatFires, StorageType
      <3>2. \A x \in Owners \ {o} : st'[x] = st[x]
        BY <2>5 DEF TypeOK, enqueueWrite, heartbeatFires
      <3>3. ReleaseQueued(st'[o])
        BY <1>0, <3>1, QueueType, QueueStep DEF ReleaseQueued, Requests
      <3> QED
        BY <1>0, <3>2, <3>3 DEF ReleaseQueued
    <2>6. ASSUME NEW o \in Owners, write(o) \/ writeFails(o) \/ heartbeat(o) PROVE QueuesOK'
      <3>1. st[o].queue # <<>>
        BY <2>6 DEF write, writeFails, heartbeat, NextRequest
      <3>2. /\ Popped(o)[o].queue = Tail(st[o].queue)
            /\ Popped(o)[o].status = st[o].status
            /\ \A x \in Owners \ {o} : Popped(o)[x] = st[x]
        BY QueueType DEF TypeOK, Popped, StorageType
      <3>3. /\ st'[o].queue = Popped(o)[o].queue
            /\ st'[o].status = Popped(o)[o].status
            /\ \A x \in Owners \ {o} : st'[x] = Popped(o)[x]
        <4>1. /\ Popped(o) \in [Owners -> StorageType]
              /\ Popped(o)[o] \in StorageType
          BY <3>1, PoppedType
        <4>2. \/ st' = Popped(o)
              \/ st' = [Popped(o) EXCEPT ![o].leaseError = TRUE, ![o].timer = FALSE]
              \/ st' = [Popped(o) EXCEPT ![o].timer = TRUE]
              \/ st' = [Popped(o) EXCEPT ![o].leaseError = TRUE]
          BY <2>6 DEF write, writeFails, heartbeat
        <4> HIDE DEF Popped
        <4> QED
          BY <4>1, <4>2 DEF StorageType
      <3>4. ReleaseQueued(st'[o])
        BY <1>0, <3>1, <3>2, <3>3, QueueType, QueueStep DEF ReleaseQueued, Requests
      <3> QED
        BY <1>0, <3>2, <3>3, <3>4 DEF ReleaseQueued
    <2>7. ASSUME NEW o \in Owners, finishRelease(o) PROVE QueuesOK'
      BY <1>0, <2>7 DEF TypeOK, finishRelease, Gone, NoStorage, ReleaseQueued
    <2> QED
      BY <2>1, <2>2, <2>3, <2>4, <2>5, <2>6, <2>7
         DEF Next, vars, create, open, startJob, delete, repairBranchCache, jobFails, tick
  <1> QED
    BY <1>0, <1>1, <1>2 DEF LeaseInv, ReleaseQueued

\* In every state the lease is held by the latest claimant or by nobody, a
\* session that was deleted has no lease, and a release waits only in the
\* queue of a closing storage.
THEOREM LeaseCorrect == Spec => []LeaseInv
  <1>1. Init => LeaseInv
    BY DEF Init, LeaseInv, NoLease, NoStorage
  <1> QED
    BY <1>1, LeaseStep, TypeCorrect, PTL DEF Spec

-----------------------------------------------------------------------------
(* What a step may do to the rows and to the lease *)

\* Only write() counts a commit, and it runs with the lease in hand.
LEMMA CommitStep ==
    TypeOK /\ LeaseInv /\ [Next]_vars => [commits' # commits => writer' = claims]_vars
  <1> SUFFICES ASSUME TypeOK, LeaseInv, Next, commits' # commits PROVE writer' = claims
    BY DEF vars
  <1>1. PICK o \in Owners : write(o)
    BY DEF Next, create, open, crash, startJob, delete, repairBranchCache, jobFails,
           release, enqueueWrite, writeFails, heartbeatFires, heartbeat, finishRelease, tick
  <1>2. lease.owner = o /\ writer' = o
    BY <1>1 DEF write, Holds
  <1>3. o # 0
    BY DEF Owners
  <1> QED
    BY <1>2, <1>3 DEF LeaseInv

\* A stale writer never commits: whoever commits made the latest claim of the
\* lease, also after the owners in between released, crashed, or were taken
\* over, and although the fence starts at 1 again after a release.
THEOREM StaleWritersCommitNothing == Spec => OnlyLatestClaimantWrites
  BY CommitStep, TypeCorrect, LeaseCorrect, PTL DEF Spec, OnlyLatestClaimantWrites

\* What a step may do to a lease that has not expired.
KeepsLease ==
    lease.owner # 0 /\ lease.left > 0 =>
        \/ lease'.owner = lease.owner
        \/ /\ lease'.owner = 0
           /\ st[lease.owner].status = "closing"
           /\ st'[lease.owner].status = "gone"

\* Takeovers wait for the expiry; the transactions of delete and repair claim
\* the lease first; a late release of a former owner finds another owner.
LEMMA KeepStep == TypeOK /\ LeaseInv /\ [Next]_vars => [KeepsLease]_vars
  <1> SUFFICES ASSUME TypeOK, LeaseInv, Next, lease.owner # 0, lease.left > 0
               PROVE  \/ lease'.owner = lease.owner
                      \/ /\ lease'.owner = 0
                         /\ st[lease.owner].status = "closing"
                         /\ st'[lease.owner].status = "gone"
    BY DEF KeepsLease
  <1>0. ~Claimable /\ exists
    BY DEF Claimable, LeaseInv, TypeOK, LeaseType
  <1>1. ASSUME NEW p \in Procs,
               create(p) \/ open(p) \/ crash(p) \/ jobFails(p)
                 \/ startJob(p, "delete") \/ startJob(p, "repair")
        PROVE  lease' = lease
    BY <1>0, <1>1 DEF create, open, claimStorage, crash, jobFails, startJob
  <1>2. ASSUME NEW p \in Procs, delete(p) \/ repairBranchCache(p) PROVE lease' = lease
    BY <1>0, <1>2 DEF delete, repairBranchCache
  <1>3. ASSUME NEW o \in Owners,
               release(o) \/ enqueueWrite(o) \/ writeFails(o) \/ heartbeatFires(o)
        PROVE  lease' = lease
    BY <1>3 DEF release, enqueueWrite, writeFails, heartbeatFires
  <1>4. ASSUME NEW o \in Owners, write(o) \/ heartbeat(o) PROVE lease'.owner = lease.owner
    <2>1. lease' = lease \/ lease' = [lease EXCEPT !.left = TTL]
      BY <1>4 DEF write, heartbeat
    <2> QED
      BY <2>1 DEF TypeOK, LeaseType
  <1>5. ASSUME NEW o \in Owners, finishRelease(o), lease'.owner # lease.owner
        PROVE  /\ lease'.owner = 0
               /\ st[lease.owner].status = "closing"
               /\ st'[lease.owner].status = "gone"
    <2>1. lease.owner = o /\ lease' = NoLease
      BY <1>5 DEF finishRelease, Released
    <2>2. 1 \in DOMAIN st[o].queue /\ st[o].queue[1] = "release"
      BY <1>5, QueueType DEF finishRelease, NextRequest
    <2>3. st[o].status = "closing"
      BY <2>2 DEF LeaseInv
    <2>4. st'[o] = Gone
      BY <1>5 DEF finishRelease, TypeOK
    <2>5. Gone.status = "gone"
      BY DEF Gone, NoStorage
    <2> QED
      BY <2>1, <2>3, <2>4, <2>5 DEF NoLease
  <1>6. CASE tick
    BY <1>6 DEF tick, TypeOK, LeaseType
  <1> QED
    BY <1>1, <1>2, <1>3, <1>4, <1>5, <1>6 DEF Next

\* An unexpired lease is never taken from its owner: not by a takeover, not by
\* a stale owner's release and not by a delete.
THEOREM UnexpiredLeaseSafe == Spec => UnexpiredLeaseIsKept
  <1>1. TypeOK /\ LeaseInv /\ [Next]_vars => [KeepsLease]_vars
    BY KeepStep
  <1> QED
    BY <1>1, TypeCorrect, LeaseCorrect, PTL DEF Spec, UnexpiredLeaseIsKept, KeepsLease


-----------------------------------------------------------------------------
(* The rows: the inductive invariant *)

\* What the properties below need to be inductive: there are finitely many
\* rows, their ids are those of past commits, and an operation_finished row
\* names a run of a past commit, so the next id is fresh in every respect.
RowsInv ==
    /\ IsFiniteSet(rows)
    /\ \A r \in rows : r.id \in 1..commits /\ (r.kind = "finished" => r.ref <= commits)

TreeInv == RowsInv /\ TreeWellFormed /\ OneOpenOperation

\* A write adds one row, numbered next and identified by the new commit; what
\* the row refers to is where its lane was, or a run that was started.
LEMMA WriteAddsRow ==
    ASSUME TypeOK, writeOperation
    PROVE  \E kind \in {"entry", "lane", "started", "finished", "fact"}, l \in Lanes, ref \in Nat :
             /\ commit(Row(kind, l, ref))
             /\ kind = "entry" => ref = leaf[l] /\ leaf[l] # Absent
             /\ kind = "finished" => \E m \in Lanes : ref \in Started(m)
  <1>1. \A e \in EntryIds \cup {0} : e \in Nat
    BY DEF TypeOK, EntryIds, RowType
  <1>2. \A l \in Lanes : \A run \in Started(l) : run \in Nat
    BY DEF TypeOK, Started, RowType
  <1>3. ASSUME NEW l \in Lanes, NEW e \in EntryIds \cup {0}, createLane(l, e) \/ moveLane(l, e)
        PROVE  commit(Row("lane", l, e)) /\ e \in Nat
    BY <1>1, <1>3 DEF createLane, moveLane
  <1>4. ASSUME NEW l \in Lanes, appendEntry(l)
        PROVE  commit(Row("entry", l, leaf[l])) /\ leaf[l] \in Nat /\ leaf[l] # Absent
    BY <1>4 DEF appendEntry, TypeOK
  <1>5. ASSUME NEW l \in Lanes, appendStarted(l)
        PROVE  commit(Row("started", l, 0))
    BY <1>5 DEF appendStarted
  <1>6. ASSUME NEW l \in Lanes, NEW m \in Lanes, NEW run \in Started(m), appendFinished(l, run)
        PROVE  commit(Row("finished", l, run)) /\ run \in Nat
    BY <1>2, <1>6 DEF appendFinished
  <1>7. CASE appendFact
    BY <1>7, ConstantsAssumption DEF appendFact
  <1> HIDE DEF commit, Row
  <1> QED
    BY <1>3, <1>4, <1>5, <1>6, <1>7 DEF writeOperation

\* Outside write(), the rows and all that describes them stay as they are,
\* unless a session is created or deleted.
LEMMA RowsStep ==
    ASSUME Next, ~\E o \in Owners : write(o)
    PROVE  /\ UNCHANGED commits
           /\ \/ UNCHANGED db
              \/ \E p \in Procs : create(p)
              \/ /\ exists' = FALSE /\ rows' = {} /\ nextSeq' = 0
                 /\ leaf' = [l \in Lanes |-> Absent] /\ openOp' = [l \in Lanes |-> 0]
  <1>1. ASSUME NEW p \in Procs, create(p) PROVE UNCHANGED commits
    BY <1>1 DEF create
  <1>2. ASSUME NEW p \in Procs,
               open(p) \/ crash(p) \/ startJob(p, "delete") \/ startJob(p, "repair")
                 \/ repairBranchCache(p) \/ jobFails(p)
        PROVE  UNCHANGED <<commits, db>>
    BY <1>2 DEF open, crash, startJob, repairBranchCache, jobFails
  <1>3. ASSUME NEW p \in Procs, delete(p)
        PROVE  /\ UNCHANGED commits
               /\ \/ UNCHANGED db
                  \/ /\ exists' = FALSE /\ rows' = {} /\ nextSeq' = 0
                     /\ leaf' = [l \in Lanes |-> Absent] /\ openOp' = [l \in Lanes |-> 0]
    BY <1>3, Zenon DEF delete
  <1>4. ASSUME NEW o \in Owners,
               release(o) \/ enqueueWrite(o) \/ writeFails(o)
                 \/ heartbeatFires(o) \/ heartbeat(o) \/ finishRelease(o)
        PROVE  UNCHANGED <<commits, db>>
    BY <1>4 DEF release, enqueueWrite, writeFails, heartbeatFires, heartbeat, finishRelease
  <1>5. CASE tick
    BY <1>5 DEF tick
  <1> HIDE DEF db
  <1> QED
    BY <1>1, <1>2, <1>3, <1>4, <1>5, Zenon DEF Next

\* A write runs on a session that exists, and the new row's number is one
\* more than there are rows.
LEMMA NextSeqIsNext ==
    ASSUME TypeOK, LeaseInv, TreeWellFormed, IsFiniteSet(rows), NEW o \in Owners, write(o)
    PROVE  /\ exists /\ exists' = exists
           /\ nextSeq = Cardinality(rows) + 1
           /\ commits' = commits + 1
           /\ writeOperation
  <1>1. lease.owner = o /\ o # 0
    BY DEF write, Holds, Owners
  <1>2. exists
    BY <1>1 DEF LeaseInv
  <1>3. Cardinality(rows) \in Nat
    BY FS_CardinalityType
  <1> QED
    BY <1>2, <1>3 DEF TreeWellFormed, write, TypeOK

\* Every step keeps the rows finite and the next id fresh.
LEMMA RowsInvStep == TypeOK /\ LeaseInv /\ TreeInv /\ [Next]_vars => RowsInv'
  <1> SUFFICES ASSUME TypeOK, LeaseInv, TreeInv, [Next]_vars PROVE RowsInv'
    OBVIOUS
  <1>1. ASSUME NEW o \in Owners, write(o) PROVE RowsInv'
    <2>1. writeOperation /\ commits' = commits + 1
      BY <1>1 DEF write
    <2>2. PICK kind \in {"entry", "lane", "started", "finished", "fact"}, l \in Lanes, ref \in Nat :
             /\ commit(Row(kind, l, ref))
             /\ kind = "finished" => \E m \in Lanes : ref \in Started(m)
      BY <2>1, WriteAddsRow
    <2>3. rows' = rows \cup {Row(kind, l, ref)}
      BY <2>2 DEF commit
    <2>4. IsFiniteSet(rows')
      BY <2>3, FS_AddElement DEF TreeInv, RowsInv
    <2>5. kind = "finished" => ref <= commits
      BY <2>2 DEF Started, TreeInv, RowsInv, TypeOK
    <2> QED
      BY <2>1, <2>3, <2>4, <2>5 DEF TreeInv, RowsInv, Row, TypeOK, RowType
  <1>2. CASE Next /\ ~\E o \in Owners : write(o)
    <2>1. CASE UNCHANGED db
      BY <1>2, <2>1, RowsStep DEF TreeInv, RowsInv, db
    <2>2. ASSUME NEW p \in Procs, create(p) PROVE RowsInv'
      BY <2>2 DEF create, TreeInv, RowsInv
    <2>3. CASE rows' = {}
      BY <1>2, <2>3, RowsStep, FS_EmptySet DEF RowsInv
    <2> QED
      BY <1>2, <2>1, <2>2, <2>3, RowsStep
  <1>3. CASE UNCHANGED vars
    BY <1>3 DEF TreeInv, RowsInv, vars, db
  <1> QED
    BY <1>1, <1>2, <1>3

-----------------------------------------------------------------------------
(* The rows are one sequence and a tree *)

\* One step keeps the tree: a write takes the next number, and a lane moves
\* only to an entry of the session or to the one just appended.
LEMMA TreeStep == TypeOK /\ LeaseInv /\ TreeInv /\ [Next]_vars => TreeWellFormed'
  <1> SUFFICES ASSUME TypeOK, LeaseInv, TreeInv, [Next]_vars PROVE TreeWellFormed'
    OBVIOUS
  <1>0. RowsInv /\ TreeWellFormed
    BY DEF TreeInv
  <1>1. ASSUME NEW o \in Owners, write(o) PROVE TreeWellFormed'
    <2>1. /\ exists /\ exists' = exists
          /\ nextSeq = Cardinality(rows) + 1
          /\ writeOperation
      BY <1>0, <1>1, NextSeqIsNext DEF RowsInv
    <2>2. PICK kind \in {"entry", "lane", "started", "finished", "fact"}, l \in Lanes, ref \in Nat :
             /\ commit(Row(kind, l, ref))
             /\ kind = "entry" => ref = leaf[l] /\ leaf[l] # Absent
      BY <2>1, WriteAddsRow
    <2> DEFINE row == Row(kind, l, ref)
    <2>3. rows' = rows \cup {row} /\ nextSeq' = nextSeq + 1
      BY <2>2 DEF commit, Row
    <2>4. row = [seq |-> nextSeq, id |-> commits + 1, kind |-> kind, lane |-> l, ref |-> ref]
      BY DEF Row
    <2> HIDE DEF row
    <2>5. {r.seq : r \in rows} = 1..(nextSeq - 1) /\ Cardinality(rows) = nextSeq - 1
      BY <1>0, <2>1 DEF TreeWellFormed
    <2>6. row \notin rows
      BY <2>4, <2>5 DEF TypeOK
    <2>7. Cardinality(rows') = nextSeq' - 1
      BY <1>0, <2>1, <2>3, <2>5, <2>6, FS_AddElement, FS_CardinalityType DEF RowsInv, TypeOK
    <2>8. {r.seq : r \in rows'} = 1..(nextSeq' - 1)
      <3>1. {r.seq : r \in rows'} = {r.seq : r \in rows} \cup {nextSeq}
        BY <2>3, <2>4
      <3>2. nextSeq \in Nat /\ nextSeq >= 1
        BY <1>0, <2>1, FS_CardinalityType DEF RowsInv, TypeOK
      <3>3. 1..(nextSeq' - 1) = 1..(nextSeq - 1) \cup {nextSeq}
        BY <2>3, <3>2
      <3> QED
        BY <2>5, <3>1, <3>3
    <2>9. EntryIds \subseteq EntryIds' /\ (kind = "entry" => commits + 1 \in EntryIds')
      BY <2>3, <2>4 DEF EntryIds
    <2>10. \A k \in Lanes : leaf'[k] \in {0, Absent} \cup EntryIds'
      <3>0. \A k \in Lanes : leaf[k] \in {0, Absent} \cup EntryIds
        BY <1>0 DEF TreeWellFormed
      <3>1. ASSUME NEW k \in Lanes, NEW e \in EntryIds \cup {0}, createLane(k, e) \/ moveLane(k, e)
            PROVE  \A m \in Lanes : leaf'[m] \in {0, Absent} \cup EntryIds'
        BY <2>9, <3>0, <3>1 DEF createLane, moveLane, TypeOK
      <3>2. ASSUME NEW k \in Lanes, appendEntry(k)
            PROVE  \A m \in Lanes : leaf'[m] \in {0, Absent} \cup EntryIds'
        <4>1. Row("entry", k, leaf[k]) \in rows'
          BY <3>2 DEF appendEntry, commit
        <4>2. commits + 1 \in EntryIds'
          BY <4>1 DEF EntryIds, Row
        <4> QED
          BY <2>9, <3>0, <3>2, <4>2 DEF appendEntry, TypeOK
      <3>3. CASE UNCHANGED leaf
        BY <2>9, <3>0, <3>3
      <3> QED
        BY <2>1, <3>1, <3>2, <3>3 DEF writeOperation, appendStarted, appendFinished, appendFact
    <2>11. \A e \in {r \in rows' : r.kind = "entry"} :
             e.ref = 0 \/ \E f \in {r \in rows' : r.kind = "entry"} : f.id = e.ref /\ f.seq < e.seq
      <3>1. \A r \in rows : r.seq < nextSeq /\ r.seq \in Nat
        BY <2>5 DEF TypeOK, RowType
      <3>2. kind = "entry" => ref = 0 \/ ref \in EntryIds
        BY <1>0, <2>2 DEF TreeWellFormed
      <3>3. kind = "entry" /\ ref # 0 => \E f \in rows : f.kind = "entry" /\ f.id = ref /\ f.seq < nextSeq
        BY <3>1, <3>2 DEF EntryIds
      <3>4. \A e \in {r \in rows : r.kind = "entry"} :
              e.ref = 0 \/ \E f \in {r \in rows : r.kind = "entry"} : f.id = e.ref /\ f.seq < e.seq
        BY <1>0 DEF TreeWellFormed
      <3> QED
        BY <2>3, <2>4, <3>3, <3>4
    <2> QED
      BY <2>1, <2>7, <2>8, <2>10, <2>11 DEF TreeWellFormed, Absent
  <1>2. CASE Next /\ ~\E o \in Owners : write(o)
    <2>1. CASE UNCHANGED db
      BY <1>0, <2>1 DEF TreeWellFormed, EntryIds, db
    <2>2. ASSUME NEW p \in Procs, create(p) PROVE TreeWellFormed'
      <3>1. rows' = {} /\ exists' = TRUE /\ nextSeq' = 1
        BY <1>0, <2>2 DEF create, TreeWellFormed
      <3>2. {r.seq : r \in rows'} = 1..(nextSeq' - 1) /\ Cardinality(rows') = nextSeq' - 1
        BY <3>1, FS_EmptySet
      <3>3. \A l \in Lanes : leaf'[l] \in {0, Absent}
        BY <2>2 DEF create
      <3> QED
        BY <3>1, <3>2, <3>3 DEF TreeWellFormed, Absent
    <2>3. CASE /\ exists' = FALSE /\ rows' = {}
               /\ leaf' = [l \in Lanes |-> Absent]
      BY <2>3 DEF TreeWellFormed, Absent
    <2> QED
      BY <1>2, <2>1, <2>2, <2>3, RowsStep
  <1>3. CASE UNCHANGED vars
    BY <1>0, <1>3 DEF TreeWellFormed, EntryIds, vars, db
  <1> QED
    BY <1>1, <1>2, <1>3

-----------------------------------------------------------------------------
(* One open operation per lane *)

\* The operations of a lane that were started and not finished.
Unfinished(l) ==
    {i \in Started(l) : ~\E r \in rows : r.kind = "finished" /\ r.lane = l /\ r.ref = i}

\* One step keeps open_operation_id: the id of a new operation_started row is
\* fresh, so no operation_finished row names it yet.
LEMMA OpenOperationStep == TypeOK /\ LeaseInv /\ TreeInv /\ [Next]_vars => OneOpenOperation'
  <1> SUFFICES ASSUME TypeOK, LeaseInv, TreeInv, [Next]_vars PROVE OneOpenOperation'
    OBVIOUS
  <1>0. RowsInv /\ \A l \in Lanes : Unfinished(l) = IF openOp[l] = 0 THEN {} ELSE {openOp[l]}
    BY DEF TreeInv, OneOpenOperation, Unfinished
  <1> SUFFICES ASSUME NEW l \in Lanes
               PROVE  Unfinished(l)' = IF openOp'[l] = 0 THEN {} ELSE {openOp'[l]}
    BY DEF OneOpenOperation, Unfinished
  <1>1. ASSUME NEW o \in Owners, write(o)
        PROVE  Unfinished(l)' = IF openOp'[l] = 0 THEN {} ELSE {openOp'[l]}
    <2>0. writeOperation
      BY <1>1 DEF write
    <2>1. ASSUME NEW k \in Lanes, NEW kind \in {"entry", "lane", "fact"}, NEW ref,
                 commit(Row(kind, k, ref)), openOp' = openOp
          PROVE  Unfinished(l)' = IF openOp'[l] = 0 THEN {} ELSE {openOp'[l]}
      <3>1. rows' = rows \cup {Row(kind, k, ref)} /\ Row(kind, k, ref).kind = kind
        BY <2>1 DEF commit, Row
      <3>2. Started(l)' = Started(l)
        BY <3>1 DEF Started
      <3>3. Unfinished(l)' = Unfinished(l)
        BY <3>1, <3>2 DEF Unfinished
      <3> QED
        BY <1>0, <2>1, <3>3
    <2>2. ASSUME NEW k \in Lanes, appendStarted(k)
          PROVE  Unfinished(l)' = IF openOp'[l] = 0 THEN {} ELSE {openOp'[l]}
      <3> DEFINE row == Row("started", k, 0)
      <3>1. rows' = rows \cup {row} /\ row.kind = "started" /\ row.lane = k /\ row.id = commits + 1
        BY <2>2 DEF appendStarted, commit, Row
      <3> HIDE DEF row
      <3>2. \A r \in rows : r.kind = "finished" => r.ref # commits + 1
        BY <1>0 DEF RowsInv, TypeOK, RowType
      <3>3. CASE k = l
        <4>1. Unfinished(l) = {}
          BY <1>0, <2>2, <3>3 DEF appendStarted, startLaneOperation
        <4>2. Started(l)' = Started(l) \cup {commits + 1}
          BY <3>1, <3>3 DEF Started
        <4>3. Unfinished(l)' = {commits + 1}
          BY <3>1, <3>2, <4>1, <4>2 DEF Unfinished
        <4>4. openOp'[l] = commits + 1 /\ commits + 1 # 0
          BY <2>2, <3>3 DEF appendStarted, TypeOK
        <4> QED
          BY <4>3, <4>4
      <3>4. CASE k # l
        <4>1. Started(l)' = Started(l)
          BY <3>1, <3>4 DEF Started
        <4>2. Unfinished(l)' = Unfinished(l)
          BY <3>1, <4>1 DEF Unfinished
        <4>3. openOp'[l] = openOp[l]
          BY <2>2, <3>4 DEF appendStarted, TypeOK
        <4> QED
          BY <1>0, <4>2, <4>3
      <3> QED
        BY <3>3, <3>4
    <2>3. ASSUME NEW k \in Lanes, NEW m \in Lanes, NEW run \in Started(m), appendFinished(k, run)
          PROVE  Unfinished(l)' = IF openOp'[l] = 0 THEN {} ELSE {openOp'[l]}
      <3> DEFINE row == Row("finished", k, run)
      <3>1. rows' = rows \cup {row} /\ row.kind = "finished" /\ row.lane = k /\ row.ref = run
        BY <2>3 DEF appendFinished, commit, Row
      <3> HIDE DEF row
      <3>2. run # 0
        BY <1>0 DEF RowsInv, Started
      <3>3. Started(l)' = Started(l)
        BY <3>1 DEF Started
      <3>4. CASE k = l
        <4>1. Unfinished(l)' = Unfinished(l) \ {run}
          BY <3>1, <3>3, <3>4 DEF Unfinished
        <4>2. openOp'[l] = IF openOp[l] = run THEN 0 ELSE openOp[l]
          BY <2>3, <3>4 DEF appendFinished, TypeOK
        <4> QED
          BY <1>0, <3>2, <4>1, <4>2
      <3>5. CASE k # l
        <4>1. Unfinished(l)' = Unfinished(l)
          BY <3>1, <3>3, <3>5 DEF Unfinished
        <4>2. openOp'[l] = openOp[l]
          BY <2>3, <3>5 DEF appendFinished, TypeOK
        <4> QED
          BY <1>0, <4>1, <4>2
      <3> QED
        BY <3>4, <3>5
    <2> QED
      BY <2>0, <2>1, <2>2, <2>3, ConstantsAssumption
         DEF writeOperation, createLane, moveLane, appendEntry, appendFact
  <1>2. CASE Next /\ ~\E o \in Owners : write(o)
    <2>1. CASE UNCHANGED db
      BY <1>0, <2>1 DEF Unfinished, Started, db
    <2>2. ASSUME NEW p \in Procs, create(p)
          PROVE  Unfinished(l)' = IF openOp'[l] = 0 THEN {} ELSE {openOp'[l]}
      <3>1. rows' = {} /\ openOp'[l] = 0
        BY <2>2 DEF create, TreeInv, TreeWellFormed
      <3> QED
        BY <3>1 DEF Unfinished, Started
    <2>3. CASE rows' = {} /\ openOp' = [k \in Lanes |-> 0]
      BY <2>3 DEF Unfinished, Started
    <2> QED
      BY <1>2, <2>1, <2>2, <2>3, RowsStep
  <1>3. CASE UNCHANGED vars
    BY <1>0, <1>3 DEF Unfinished, Started, vars, db
  <1> QED
    BY <1>1, <1>2, <1>3

-----------------------------------------------------------------------------
(* The theorems *)

\* The inductive invariant holds in every state.
LEMMA TreeInvariant == Spec => []TreeInv
  <1>1. Init => TreeInv
    BY FS_EmptySet
       DEF Init, TreeInv, RowsInv, TreeWellFormed, OneOpenOperation, Started, EntryIds, Absent
  <1>2. TypeOK /\ LeaseInv /\ TreeInv /\ [Next]_vars => TreeInv'
    BY RowsInvStep, TreeStep, OpenOperationStep DEF TreeInv
  <1> QED
    BY <1>1, <1>2, TypeCorrect, LeaseCorrect, PTL DEF Spec

\* Whoever wrote them, the rows of a session are numbered without a gap or a
\* duplicate, every lane points at an entry of the session, and the parent of
\* an entry was committed before it.
THEOREM TreeCorrect == Spec => []TreeWellFormed
  <1>1. TreeInv => TreeWellFormed
    BY DEF TreeInv
  <1> QED
    BY <1>1, TreeInvariant, PTL

\* In every state a lane has at most one operation that was started and not
\* finished, and open_operation_id names it, whichever process started it.
THEOREM OneOpenOperationCorrect == Spec => []OneOpenOperation
  <1>1. TreeInv => OneOpenOperation
    BY DEF TreeInv
  <1> QED
    BY <1>1, TreeInvariant, PTL

\* A step of the database is a commit of the next mutation, a delete, or
\* changes nothing that a reader of the log sees.
LEMMA LogStep == TypeOK /\ LeaseInv /\ TreeInv /\ [Next]_vars => [Log!Next]_Log!vars
  <1> SUFFICES ASSUME TypeOK, LeaseInv, TreeInv, [Next]_vars PROVE [Log!Next]_Log!vars
    OBVIOUS
  <1>1. ASSUME NEW o \in Owners, write(o) PROVE Log!Next
    <2>1. nextSeq = Cardinality(rows) + 1 /\ writeOperation
      BY <1>1, NextSeqIsNext DEF TreeInv, RowsInv
    <2>2. PICK kind \in {"entry", "lane", "started", "finished", "fact"}, l \in Lanes, ref \in Nat :
             commit(Row(kind, l, ref))
      BY <2>1, WriteAddsRow
    <2>3. rows' = rows \cup {Row(kind, l, ref)} /\ Row(kind, l, ref).seq = Cardinality(rows) + 1
      BY <2>1, <2>2 DEF commit, Row
    <2>4. Log!Cardinality(rows) = Cardinality(rows)
      BY DEF Log!Cardinality, Cardinality
    <2>5. Log!Extended
      BY <2>3, <2>4 DEF Log!Extended
    <2> QED
      BY <2>5 DEF Log!Next, Log!Commit
  <1>2. CASE Next /\ ~\E o \in Owners : write(o)
    <2>1. rows' = rows \/ rows' = {}
      BY <1>2, RowsStep DEF db, create
    <2> QED
      BY <2>1 DEF Log!Next, Log!Delete, Log!vars
  <1>3. CASE UNCHANGED vars
    BY <1>3 DEF vars, db, Log!vars
  <1> QED
    BY <1>1, <1>2, <1>3

\* The SQLite backend implements the log that a SessionStorage promises: over
\* claims, takeovers, releases, crashes and deletes, a committed mutation has
\* the next number and goes only with the session.
THEOREM DatabaseImplementsLog == Spec => ImplementsLog
  <1>1. Init => Log!Init
    BY DEF Init, Log!Init
  <1> QED
    BY <1>1, LogStep, TypeCorrect, LeaseCorrect, TreeInvariant, PTL
       DEF Spec, ImplementsLog, Log!Spec

=============================================================================
