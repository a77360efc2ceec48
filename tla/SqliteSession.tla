--------------------------- MODULE SqliteSession ---------------------------
(***************************************************************************)
(* One session of the SQLite backend                                       *)
(* (packages/session-backends/sqlite-node/src/sqlite), shared by several   *)
(* processes through one database: the writer lease that fences its        *)
(* writers, the storage objects that hold the lease, their serial          *)
(* operation queues and heartbeats, and the rows a write commits.          *)
(*                                                                         *)
(* A step is one transaction (BEGIN IMMEDIATE .. COMMIT) or one            *)
(* synchronous piece of a process.  Every claim makes a new owner id; they *)
(* are numbered in claim order, and a storage is named by its owner id.    *)
(* Of the expiry time only its distance from the clock matters, so the     *)
(* lease keeps the time it has left.                                       *)
(***************************************************************************)
EXTENDS Naturals, Sequences, FiniteSets

CONSTANTS
    Procs,      \* processes, each with one SqliteSessionRepository
    NoProc,     \* the owner of no storage
    Lanes,      \* lane names; "main" is the one every session starts with
    TTL,        \* writerLease.ttlMs in ticks
    MaxClaims,  \* claims of the lease
    MaxWrites,  \* committed writes
    MaxQueue    \* operations waiting in one storage

ASSUME ConstantsAssumption ==
    /\ TTL \in Nat \ {0}
    /\ MaxClaims \in Nat /\ MaxWrites \in Nat /\ MaxQueue \in Nat
    /\ "main" \in Lanes
    /\ NoProc \notin Procs

VARIABLES
    exists,     \* the row of sessions, with its sequence and stats rows
    lease,      \* the row of writer_leases; owner 0 when there is none
    nextSeq,    \* session_sequences.next_seq
    rows,       \* the rows of entries, records, lane_moves and facts
    leaf,       \* lanes.leaf_id: 0 is NULL, Absent is no row
    openOp,     \* lanes.open_operation_id: 0 is NULL
    st,         \* the SqliteSessionStorage of each owner
    job,        \* the repository operation a process is in the middle of
    claims,     \* owner ids handed out
    commits,    \* writes committed, over the whole history
    writer      \* history: the owner that committed last

db   == <<exists, nextSeq, rows, leaf, openOp>>
vars == <<db, lease, st, job, claims, commits, writer>>

Owners == 1..MaxClaims
Absent == MaxWrites + 1
Requests == {"write", "heartbeat", "release"}
Jobs == {"none", "delete", "repair"}

NoLease == [owner |-> 0, fence |-> 0, left |-> 0]

NoStorage == [status |-> "none", proc |-> NoProc, fence |-> 0,
              leaseError |-> FALSE, queue |-> <<>>, timer |-> FALSE]
(* A released or crashed storage: what it held in memory is dead. *)
Gone == [NoStorage EXCEPT !.status = "gone"]
NewStorage(p, fence) ==
    [status |-> "open", proc |-> p, fence |-> fence,
     leaseError |-> FALSE, queue |-> <<>>, timer |-> TRUE]

(* activeStorages of a repository; open() looks at the oldest one first. *)
Active(p) == {o \in Owners : st[o].proc = p /\ st[o].status \in {"open", "closing"}}
Oldest(p) == CHOOSE o \in Active(p) : \A x \in Active(p) : o <= x

EntryIds == {r.id : r \in {x \in rows : x.kind = "entry"}}

-----------------------------------------------------------------------------
(* writer_leases *)

(* acquireWriterLease: insert with fence 1, or take over an expired row. *)
Mutant_NoTakeover == lease.owner = 0
Claimable == lease.owner = 0 \/ lease.left = 0
Mutant_ClaimedTooLong == [owner |-> claims + 1, left |-> TTL + 1,
                          fence |-> IF lease.owner = 0 THEN 1 ELSE lease.fence + 1]
Claimed == [owner |-> claims + 1, left |-> TTL,
            fence |-> IF lease.owner = 0 THEN 1 ELSE lease.fence + 1]

(* renewWriterLease finds its row: same owner, same fence, not expired. *)
Mutant_HoldsByFence(o) == lease.owner # 0 /\ lease.fence = st[o].fence /\ lease.left > 0
Holds(o) == lease.owner = o /\ lease.fence = st[o].fence /\ lease.left > 0

(* releaseWriterLease deletes only its own row. *)
Mutant_ReleaseAny(o) == NoLease
Released(o) == IF lease.owner = o /\ lease.fence = st[o].fence THEN NoLease ELSE lease

-----------------------------------------------------------------------------
(* The repository: create, open, delete, repairBranchCache, close.  One    *)
(* operation of a repository runs at a time (SerialOperationQueue).        *)

claimStorage(p) ==
    /\ claims < MaxClaims
    /\ Claimable
    /\ claims' = claims + 1
    /\ lease' = Claimed
    /\ st' = [st EXCEPT ![claims + 1] = NewStorage(p, Claimed.fence)]

create(p) ==
    /\ job[p] = "none"
    /\ ~exists
    /\ claimStorage(p)
    /\ exists' = TRUE
    /\ nextSeq' = 1
    /\ leaf' = [l \in Lanes |-> IF l = "main" THEN 0 ELSE Absent]
    /\ openOp' = [l \in Lanes |-> 0]
    /\ UNCHANGED <<rows, job, commits, writer>>

(* open() claims the lease, unless this repository still has a storage for *)
(* the session: then it returns the oldest one as it is.                   *)
open(p) ==
    /\ job[p] = "none"
    /\ Active(p) = {}
    /\ exists
    /\ claimStorage(p)
    /\ UNCHANGED <<db, job, commits, writer>>

Mutant_ReleaseStaysOpen(o) ==
    /\ st[o].status = "open"
    /\ st' = [st EXCEPT ![o].timer = FALSE, ![o].queue = Append(@, "release")]
    /\ UNCHANGED <<db, lease, job, claims, commits, writer>>
(* release(): no more writes or heartbeats; the lease goes once the queue  *)
(* has drained.  close() calls it directly, delete and repair through the  *)
(* job, for one storage after the other.                                   *)
release(o) ==
    /\ st[o].status = "open"
    /\ st' = [st EXCEPT ![o].status = "closing", ![o].timer = FALSE,
                        ![o].queue = Append(@, "release")]
    /\ UNCHANGED <<db, lease, job, claims, commits, writer>>

startJob(p, kind) ==
    /\ job[p] = "none"
    /\ job' = [job EXCEPT ![p] = kind]
    /\ UNCHANGED <<db, lease, st, claims, commits, writer>>

(* The transaction of delete(), once its own storages are released: throws *)
(* when another writer holds the lease.                                    *)
delete(p) ==
    /\ job[p] = "delete"
    /\ Active(p) = {}
    /\ job' = [job EXCEPT ![p] = "none"]
    /\ \/ /\ ~exists
          /\ lease' = NoLease
          /\ UNCHANGED <<db, claims>>
       \/ /\ exists /\ ~Claimable
          /\ UNCHANGED <<db, lease, claims>>
       \/ /\ exists /\ Claimable /\ claims < MaxClaims
          /\ claims' = claims + 1
          /\ lease' = NoLease
          /\ exists' = FALSE
          /\ nextSeq' = 0
          /\ rows' = {}
          /\ leaf' = [l \in Lanes |-> Absent]
          /\ openOp' = [l \in Lanes |-> 0]
    /\ UNCHANGED <<st, commits, writer>>

(* The transaction of repairBranchCache(): claim, rebuild, release. *)
repairBranchCache(p) ==
    /\ job[p] = "repair"
    /\ Active(p) = {}
    /\ job' = [job EXCEPT ![p] = "none"]
    /\ \/ /\ exists /\ Claimable /\ claims < MaxClaims
          /\ claims' = claims + 1
          /\ lease' = NoLease
       \/ /\ ~exists \/ ~Claimable
          /\ UNCHANGED <<claims, lease>>
    /\ UNCHANGED <<db, st, commits, writer>>

(* A release that fails, or a transaction that does, ends the job early.   *)
jobFails(p) ==
    /\ job[p] # "none"
    /\ job' = [job EXCEPT ![p] = "none"]
    /\ UNCHANGED <<db, lease, st, claims, commits, writer>>

-----------------------------------------------------------------------------
(* The rows of a write.  Each operation reads what it needs, commits under *)
(* the next sequence number and advances it, all in one transaction.       *)

Row(kind, lane, ref) ==
    [seq |-> nextSeq, id |-> commits + 1, kind |-> kind, lane |-> lane, ref |-> ref]

Mutant_CommitKeepsSeq(row) ==
    /\ rows' = rows \cup {row}
    /\ UNCHANGED nextSeq
commit(row) ==
    /\ rows' = rows \cup {row}
    /\ nextSeq' = row.seq + 1

createLane(l, at) ==
    /\ leaf[l] = Absent
    /\ leaf' = [leaf EXCEPT ![l] = at]
    /\ commit(Row("lane", l, at))
    /\ UNCHANGED openOp

moveLane(l, to) ==
    /\ leaf[l] # Absent
    /\ leaf' = [leaf EXCEPT ![l] = to]
    /\ commit(Row("lane", l, to))
    /\ UNCHANGED openOp

appendEntry(l) ==
    /\ leaf[l] # Absent
    /\ leaf' = [leaf EXCEPT ![l] = commits + 1]
    /\ commit(Row("entry", l, leaf[l]))
    /\ UNCHANGED openOp

(* appendRecord: operation_started takes the lane's open operation, which  *)
(* must be free; operation_finished gives it back if it is the same run.   *)
Mutant_StartAnyway(l) == TRUE
startLaneOperation(l) == openOp[l] = 0

appendStarted(l) ==
    /\ leaf[l] # Absent
    /\ startLaneOperation(l)
    /\ openOp' = [openOp EXCEPT ![l] = commits + 1]
    /\ commit(Row("started", l, 0))
    /\ UNCHANGED leaf

appendFinished(l, run) ==
    /\ leaf[l] # Absent
    /\ openOp' = IF openOp[l] = run THEN [openOp EXCEPT ![l] = 0] ELSE openOp
    /\ commit(Row("finished", l, run))
    /\ UNCHANGED leaf

(* setName, setLabel and the records that touch no lane. *)
appendFact ==
    /\ commit(Row("fact", "main", 0))
    /\ UNCHANGED <<leaf, openOp>>

Started(l) == {r.id : r \in {x \in rows : x.kind = "started" /\ x.lane = l}}

writeOperation ==
    \/ \E l \in Lanes, e \in EntryIds \cup {0} : createLane(l, e) \/ moveLane(l, e)
    \/ \E l \in Lanes : appendEntry(l) \/ appendStarted(l)
    \/ \E l, m \in Lanes : \E run \in Started(m) : appendFinished(l, run)
    \/ appendFact

-----------------------------------------------------------------------------
(* The storage: a serial queue of writes, heartbeats and the release.      *)

Popped(o) == [st EXCEPT ![o].queue = Tail(@)]
NextRequest(o, kind) == st[o].queue # <<>> /\ Head(st[o].queue) = kind

(* enqueueWrite rejects once the storage is closing. *)
enqueueWrite(o) ==
    /\ st[o].status = "open"
    /\ Len(st[o].queue) < MaxQueue
    /\ st' = [st EXCEPT ![o].queue = Append(@, "write")]
    /\ UNCHANGED <<db, lease, job, claims, commits, writer>>

(* A write's transaction: renew the lease, then the operation. *)
write(o) ==
    /\ NextRequest(o, "write")
    /\ ~st[o].leaseError
    /\ Holds(o)
    /\ commits < MaxWrites
    /\ writeOperation
    /\ lease' = [lease EXCEPT !.left = TTL]
    /\ st' = Popped(o)
    /\ commits' = commits + 1
    /\ writer' = o
    /\ UNCHANGED <<exists, job, claims>>

(* The write fails: on a lost lease, now or earlier, or in the operation   *)
(* or the transaction itself, which rolls the renewal back too.            *)
writeFails(o) ==
    /\ NextRequest(o, "write")
    /\ \/ /\ ~st[o].leaseError /\ ~Holds(o)
          /\ st' = [Popped(o) EXCEPT ![o].leaseError = TRUE, ![o].timer = FALSE]
       \/ st' = Popped(o)
    /\ UNCHANGED <<db, lease, job, claims, commits, writer>>

heartbeatFires(o) ==
    /\ st[o].timer
    /\ Len(st[o].queue) < MaxQueue
    /\ st' = [st EXCEPT ![o].timer = FALSE, ![o].queue = Append(@, "heartbeat")]
    /\ UNCHANGED <<db, lease, job, claims, commits, writer>>

(* The heartbeat, and the timer for the next one unless it is pointless.   *)
heartbeat(o) ==
    /\ NextRequest(o, "heartbeat")
    /\ \/ /\ st[o].status # "open" \/ st[o].leaseError
          /\ st' = Popped(o)
          /\ UNCHANGED lease
       \/ /\ st[o].status = "open" /\ ~st[o].leaseError /\ Holds(o)
          /\ st' = [Popped(o) EXCEPT ![o].timer = TRUE]
          /\ lease' = [lease EXCEPT !.left = TTL]
       \/ /\ st[o].status = "open" /\ ~st[o].leaseError /\ ~Holds(o)
          /\ st' = [Popped(o) EXCEPT ![o].leaseError = TRUE]
          /\ UNCHANGED lease
       \/ /\ st[o].status = "open" /\ ~st[o].leaseError   \* a transient failure
          /\ st' = [Popped(o) EXCEPT ![o].timer = TRUE]
          /\ UNCHANGED lease
    /\ UNCHANGED <<db, job, claims, commits, writer>>

(* finishRelease: also when the transaction fails, the storage is gone. *)
finishRelease(o) ==
    /\ NextRequest(o, "release")
    /\ st' = [st EXCEPT ![o] = Gone]
    /\ lease' \in {Released(o), lease}
    /\ UNCHANGED <<db, job, claims, commits, writer>>

-----------------------------------------------------------------------------
(* The environment: the clock, and processes that die. *)

tick ==
    /\ lease.owner # 0 /\ lease.left > 0
    /\ lease' = [lease EXCEPT !.left = @ - 1]
    /\ UNCHANGED <<db, st, job, claims, commits, writer>>

crash(p) ==
    /\ st' = [o \in Owners |-> IF o \in Active(p) THEN Gone ELSE st[o]]
    /\ job' = [job EXCEPT ![p] = "none"]
    /\ UNCHANGED <<db, lease, claims, commits, writer>>

-----------------------------------------------------------------------------
Init ==
    /\ exists = FALSE /\ lease = NoLease /\ nextSeq = 0 /\ rows = {}
    /\ leaf = [l \in Lanes |-> Absent] /\ openOp = [l \in Lanes |-> 0]
    /\ st = [o \in Owners |-> NoStorage] /\ job = [p \in Procs |-> "none"]
    /\ claims = 0 /\ commits = 0 /\ writer = 0

Next ==
    \/ \E p \in Procs :
         \/ create(p) \/ open(p) \/ crash(p)
         \/ startJob(p, "delete") \/ startJob(p, "repair")
         \/ delete(p) \/ repairBranchCache(p) \/ jobFails(p)
    \/ \E o \in Owners :
         \/ release(o) \/ enqueueWrite(o) \/ write(o) \/ writeFails(o)
         \/ heartbeatFires(o) \/ heartbeat(o) \/ finishRelease(o)
    \/ tick

Spec == Init /\ [][Next]_vars

(* Time passes; a repository operation that can go on does; and a process  *)
(* that keeps calling open() gets its turn in the FIFO queue between other *)
(* jobs, so open is strongly fair.                                         *)
FairSpec ==
    /\ Spec
    /\ WF_vars(tick)
    /\ \A p \in Procs : /\ WF_vars(delete(p) \/ repairBranchCache(p))
                        /\ SF_vars(open(p))

-----------------------------------------------------------------------------
(* Properties *)

RowType == [seq : Nat, id : Nat, lane : Lanes, ref : Nat,
            kind : {"entry", "lane", "started", "finished", "fact"}]
LeaseType == [owner : 0..MaxClaims, fence : Nat, left : 0..TTL]
StorageType == [status : {"none", "open", "closing", "gone"}, proc : Procs \cup {NoProc}, fence : Nat,
                leaseError : BOOLEAN, queue : Seq(Requests), timer : BOOLEAN]

\* Every variable stays in its type.
TypeOK ==
    /\ exists \in BOOLEAN
    /\ lease \in LeaseType
    /\ nextSeq \in Nat
    /\ rows \subseteq RowType
    /\ leaf \in [Lanes -> Nat]
    /\ openOp \in [Lanes -> Nat]
    /\ st \in [Owners -> StorageType]
    /\ job \in [Procs -> Jobs]
    /\ claims \in 0..MaxClaims
    /\ commits \in 0..MaxWrites
    /\ writer \in 0..MaxClaims

\* A write is only ever committed by the latest claimant of the lease: from
\* the moment another process claims the session (to write, to repair or to
\* delete it), a stale owner commits nothing, however late its queued writes
\* run and although fences start over at 1 after a release.
OnlyLatestClaimantWrites == [][commits' # commits => writer' = claims]_vars

\* A lease that has not expired is lost to its owner only by the owner's own
\* release: no takeover, no stale owner's release and no delete removes it.
UnexpiredLeaseIsKept ==
    [][lease.owner # 0 /\ lease.left > 0 =>
         \/ lease'.owner = lease.owner
         \/ /\ lease'.owner = 0
            /\ st[lease.owner].status = "closing"
            /\ st'[lease.owner].status = "gone"]_vars

\* The database is the same log of accepted mutations as the JSONL file: however
\* owners change, fail and delete, a committed row is numbered next and stays.
Log == INSTANCE SessionLog WITH log <- rows, acked <- rows, intact <- TRUE
ImplementsLog == Log!Spec

\* The session's rows form one gap-free sequence without duplicates, over all
\* the writers it had; every lane points at an entry of the session, and every
\* entry's parent was committed before it.
TreeWellFormed ==
    LET Entries == {r \in rows : r.kind = "entry"} IN
    /\ exists => /\ Cardinality(rows) = nextSeq - 1
                 /\ {r.seq : r \in rows} = 1..(nextSeq - 1)
    /\ ~exists => rows = {}
    /\ \A l \in Lanes : leaf[l] \in {0, Absent} \cup EntryIds
    /\ \A e \in Entries : e.ref = 0 \/ \E f \in Entries : f.id = e.ref /\ f.seq < e.seq

\* A lane has at most one operation that was started and not finished, also
\* after the process that started it died and another took over, and
\* open_operation_id names it.
OneOpenOperation ==
    \A l \in Lanes :
        {i \in Started(l) : ~\E r \in rows : r.kind = "finished" /\ r.lane = l /\ r.ref = i}
        = IF openOp[l] = 0 THEN {} ELSE {openOp[l]}

\* The invariant behind the two action properties above: whoever holds the
\* lease is the latest claimant, a session that does not exist has no lease,
\* and the lease is released only for a storage that no longer takes writes.
LeaseInv ==
    /\ lease.owner \in {0, claims}
    /\ ~exists => lease.owner = 0
    /\ \A o \in Owners : \A i \in DOMAIN st[o].queue :
           st[o].queue[i] = "release" => st[o].status = "closing"

\* A lease whose owner is gone does not lock the session out: it expires and
\* a process that keeps opening the session claims it, unless every process
\* still has a storage of its own, which open() then returns instead.
AbandonedLeaseIsTakenOver ==
    \A o \in Owners :
        lease.owner = o /\ st[o].status = "gone"
        ~> \/ lease.owner # o \/ claims = MaxClaims
           \/ \A p \in Procs : Active(p) # {}

\* open() acquires the claim: the storage it returns, a new one or the one
\* the repository already has, has not lost its lease.
OpenAcquiresClaim ==
    \A p \in Procs : job[p] = "none" /\ Active(p) # {} => ~st[Oldest(p)].leaseError

=============================================================================
