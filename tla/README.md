# A verification project for pi-codex

TLA+ models of the parts of pi-codex whose correctness depends on orders of
events: the agent loop, the coding agent's session around it, the session
backends that survive crashes and share data, and the server and the client that
share live sessions. TLC checks them on small instances. For every instance TLAPS
proves each safety property that TLC finds to hold, and that backends and server
implement the safety of their abstract specifications; liveness is left to TLC.

    tlc -workers 2 -config AgentQueues.cfg AgentLoop
    tlapm AgentMessagesProofs.tla

`PROJECT.json` lists the runs, the source lines behind each definition, the
hazards, the findings and, for each property, a mutant: a plausible bug
(definitions named `Mutant_...`, used by no specification) that breaks it.

## Inventory

Paths are below `src/packages`.

| Part | State | Operations | Hard because | Correct when |
|---|---|---|---|---|
| Agent and turn loop (`agent/src/agent.ts`, `agent-loop.ts`): `AgentLoop` | transcript, streaming message, pending tool calls, steering and follow-up queue, active run | prompt, continue, steer, followUp, clear, abort, reset; provider stream, tool batches, hooks, listeners | callers act at every await; listeners throw; tools run in parallel; aborts cut batches short | no message lost, doubled or reordered; results answer calls; the provider is sent the transcript; every run ends |
| Coding-agent session (`coding-agent/src/core/agent-session.ts`, `session-manager.ts`, `compaction/`): `AgentSession` | the branch, the live context, retry and recovery counters, abort controllers, deferred shell results, waiters | prompt, steer, followUp, abort, compact, executeBash; retry, automatic compaction, overflow recovery | retries, compactions and recoveries follow each other over many awaits, with the context in two copies | a run gives up; the two copies agree; calls and results stay together; everyone who waits is woken |
| SQLite backend (`session-backends/sqlite-node`): `SqliteSession` | session, lease, sequence, entry, record, lane and fact rows; in each process storages with a queue, a timer and a lease error | create, open, delete, repair, close, fork; writes; heartbeat | several processes on one file; a lease that expires; sleeping and dying owners | stale owners commit nothing; a live lease is kept, a dead one taken over; the tree is whole |
| SQLite branch cache (`sqlite/branch-cache.ts`, `storage/branch-*.ts`): `BranchCache` | branches: their entries and tips | append, rebuild, scan, fork | shared prefixes; reads of several statements beside writers | a scan equals the walk along parent links; a fork is whole |
| JSONL backend (`agent/src/harness/session/jsonl`, `../state.ts`): `JsonlSession` | file, state in memory, write queue | create, open, appends, fork, delete, tail repair | crash inside an append; repair while others use the file | what was acknowledged loads again |
| Session server (`server/src/sessions.ts`, `server.ts`): `SessionServer` | live sessions, connections, opening and disposing promises, operation counts | attach, detach, operations, disconnect, terminate, close | disposal races attachment | one runtime at a time; none disposed while used; none leaked; nobody waits for ever |
| Session client (`client/src`): `SessionClient` | lease counts and generations, pending requests, snapshots | acquire, release, reconnect, dispose | responses, events, removals and disconnects interleave | counts match leases; attached exactly while leased; newest snapshot wins; calls settle |
| Memory backend (`harness/session/memory.ts`) | the same `SessionState` | as JSONL | no persistence | as JSONL |
| Wire protocol (`protocol/src`) | none | framing, CBOR, schemas | malformed input | round trip |
| Harness reducer (`harness/reducer.ts`) | none, pure | fold of records | many record kinds | equals its reference definition |
| Agent harness (`harness/agent-harness.ts`) | - | mostly `HarnessNotImplemented` | - | - |
| File mutation queue (`harness/tools/file-mutation-queue.ts`) | chain of promises per path | withFileMutationQueue | paths that alias | one mutation per file at a time |
| Providers (`ai`), terminal UI (`tui`) | - | adapters, rendering | external services, layout | not modelled |

The client leases sessions from the server; the server drives a runtime, which
drives an `Agent`; the `Agent` emits events to listeners that persist messages;
sessions are stored by one of the backends. Each module meets its neighbours
through what the code can see of them: `AgentLoop` sees the session as listeners
that may throw, `AgentSession` sees a run as messages that are appended and then
saved, `SessionServer` sees runtimes that work, fail and are disposed,
`SessionClient` sees the server as an ordered stream of answers and events.
Two abstract specifications state what is promised across such a boundary:
`SessionLog` (a storage to its callers, implemented by both backends) and
`ExclusiveRuntime` (the server to the service whose runtimes it acquires).

## The modules

### AgentLoop, AgentLoopProofs, AgentMessagesProofs

`Agent` around `runLoop`. A step is the code between two awaits; `pc` is the
await the run is at and `loop` holds the locals of `runLoop` and of the function
it is in.

* `prompt`, `continue`, `steer`, `followUp`, `clearQueues`, `abort` and `reset`
  are the public operations. Those that throw without changing anything are no
  steps. The drain mode may differ at every drain, since both modes have setters.
* `Emit` is `processEvents`: the state is reduced, then the listeners are
  awaited, and either they all return or one throws. `Throw` unwinds into
  `handleRunFailure`, whose own events may throw again.
* `StreamPartial`, `StreamWhole`, `StreamFinal` and `StreamThrows` are
  `streamAssistantResponse`; `message_update` changes no state the model keeps.
  The provider (`Answers`) is external: any number of calls, any stop reason,
  "aborted" only after an abort.
* `ToolStart` to `ResultEnd` are the three kinds of batch: sequential, parallel,
  and the one that fails the calls of a truncated message. `OrphanCompletes` is
  an execution of a parallel batch whose run has failed meanwhile.
* Left out: arguments and contents of messages, and the hooks' effects on them.
  `prepareNextTurn` is taken to keep the messages of the context, as the one of
  `coding-agent/src/core/agent-session.ts` does. A message that stops with
  "error" or "aborted" is taken to carry an error text, as the providers' do.

### AgentSession, MCAgentSession, AgentSessionProofs

One `AgentSession` with several callers of `prompt()`, one of `compact()`, and
callers of `abort()`, `steer()`, `executeBash()` and so on between any two awaits.
`caller[c].pc` is the await a prompt is at: `Submit`, `Preflight`, `Start` lead to
a run (`Launch`), and `PostRun`, `BackoffOver`, `CheckCompaction`, `ContinueRun`
and `Settle` are the loop of `_runAgentPrompt`. A run is reduced to what the
session sees of it (`RunPrompt` to `RunEnds`): a message joins the live context,
its listeners are awaited, and `Persist` saves it to the branch. `Auto...` is
`_runAutoCompaction`, `Compact...` is `compact()`.

* A message is its kind and a number. The stop reason "error" is split into
  transient, overflow and fatal by what `isRetryableError` and
  `isContextOverflow` make of it; when the context is large, and where a
  compaction cuts, is left open (`CompactionChoices`, `CutPoints`).
* Left out: extensions, model and thinking-level changes, tree navigation.

### SqliteSession, MCSqliteSession, SqliteSessionProofs

One session row and everything that belongs to it, with several processes. A
step is a transaction (`BEGIN IMMEDIATE`, so transactions are serial) or a
synchronous piece of a process. Each claim makes a new owner id; owners are
numbered in claim order and name their storage. The lease keeps the time it has
left in place of an absolute expiry: only the difference is ever compared.

* `create`, `open`, `delete`, `repairBranchCache` are the repository's
  operations. The latter two first release the process's storages
  (`startJob`, then `release` and `finishRelease`), then run their transaction.
* `enqueueWrite`, `write`, `writeFails`, `heartbeatFires`, `heartbeat`,
  `release` and `finishRelease` are the storage with its serial queue.
* `createLane`, `moveLane`, `appendEntry`, `appendStarted`, `appendFinished` and
  `appendFact` are the writes; statistics and payloads are left out.
* `tick` and `crash` are the environment. A process that merely sleeps is one
  that takes no step while `tick` does.
* `ImplementsLog`: the rows are the log of `SessionLog`, and since every write is
  one transaction, a mutation is stored and acknowledged in one step.

### BranchCache, BranchCacheProofs

The branch tables of one SQLite session, its writers' transactions, and the two
callers that read the cache statement by statement: `findEntriesOnBranch()`
(`readCachedBranch`, then the query) and `fork()` (`forkTree` or `forkBranch` to
`insertFork`). Leases are left to `SqliteSession`: readers take none, so any
writer may come between two statements. Every query of order, stop, filter,
cursor and limit is compared with the walk of `SessionState.findEntriesOnBranch`,
which the other backends use.

### JsonlSession, JsonlSessionProofs

The file is a sequence of lines, and a line is what a reader makes of it: the
header, a mutation, or garbage. An append may reach the file in two parts
(`appendPart`, then `appendMutation` or `appendFails`), and `crash` may strike
in between. `load` reads the file, `loaded` replays and repairs it, so that
other steps can fall between the two. `SessionState` is the sequence of the
mutations applied, and `Leaf`, `OpenOperations`, `Valid` read it the way
`applyMutation` maintains its maps. `createForkMutations` is the pure fork.

Two storages for one file are not modelled: `docs/harness.md:575` says of them
that the session "is corrupt and undetected".

`ImplementsLog` maps what a reader would recover from the file to the log of
`SessionLog`; here a mutation is stored first and acknowledged later, and a crash
may fall between the two.

### SessionLog

What a `SessionStorage` promises: a log with consecutive numbers, of which at most
one mutation is stored without its caller having been told, and from which
nothing goes but by `delete`. `intact` is FALSE from a step outside the contract
(a failed append, a fork that meets a half-done one) to the next load.

### SessionServer, ExclusiveRuntime, SessionServerProofs

The server's connections and, for one session, the runtimes it acquires. A step
is the code between two awaits. A command occupies a slot, whose `pc` is the
promise it waits for. Promises that are settled already resume before anything
else (`Pending`), and the commands of one chunk are dispatched before any of them
resumes (`reader`); both follow from how JavaScript schedules. `accept`, `hello`,
`finishHandshake`, `failProtocol` and `disconnect` are a connection's life;
`AttachCommand`, `DetachCommand` and `OperationCommand` the requests; `acquire`,
`OpenDone`, `attach`, `maybeDispose`, `DisposeDone`, `terminate` the life of a
runtime; `close`, `closeConnections`, `awaitOpenings`, `disposeLive` and `closed`
the shutdown. The service may answer late, refuse, or return another session.

`ExclusiveRuntime` is what `PiServerService` asks of its user: a session is
acquired by one runtime at a time and not given up under an operation.

### SessionClient, SessionClientProofs

One `PiClient` and one session. A call of `acquireSession()` and the lease it
returns share a record; `jobs` are continuations of settled promises, in order.
Users and connection changes act only while `jobs` is empty, as tasks do after
microtasks; messages may arrive in one chunk, so `Deliver` does not wait. The
server part (`ServerAttaches`, `ServerAnswers`, `ServerDetaches`, `ServerChanges`)
is what `SessionServer` does for one connection; `ServerRemoves` is the protocol's
`session_removed`, which the client handles and this server never sends.

## The runs

| Run | Bounds | Distinct states | Shows |
|---|---|---|---|
| AgentQueues | 3 messages, 2 runs, 1 tool turn, both drain modes | 1.4 M | `MessagesConserved`, `DeliveryOrder`, `NoneLeftBehind` |
| AgentTools | 1 message, 2 runs, 2 tool turns of 2 calls, 1 exception, both batch modes | 0.2 M | `ToolResultsAnswerCalls`, `ContextIsTranscript`, `SettledBetweenTurns`, `OnlyCompleteCallsExecute`, `RunSettles` |
| SessionRuns | 2 callers, 2 prompts, 3 answers other than a stop, 1 retry, 1 compaction, 1 other call | 1.8 M | `RetriesAreBounded`, `LiveIsSessionContext`, `ToolResultsFollowCalls`, `SomeoneSettles` |
| SqliteLease | 2 processes, 3 claims, 1 write, TTL 1 | 0.3 M | `LeaseInv`, `OnlyLatestClaimantWrites`, `UnexpiredLeaseIsKept`, `AbandonedLeaseIsTakenOver` |
| SqliteTree | 2 processes, 2 claims, 3 writes, 2 lanes | 1.0 M | `TreeWellFormed`, `OneOpenOperation`, `ImplementsLog` |
| SqliteBranches | 3 entries, 2 lanes, 2 moves, 1 repair, 1 fork | 0.5 M | `QueriesAgree`, `ForkIsWhole` |
| JsonlCrash | 3 mutations, 2 lanes, 1 fork | 0.6 M | `CrashesAreHarmless`, `MemoryMirrorsFile`, `ForkReplays`, `ImplementsLog` |
| ServerSessions | 2 connections, 4 commands, 3 at a time | 86 k | `WorkIsKept`, `NoLeakedRuntime`, `AttachmentsAgree`, `ImplementsContract`, `NothingHangs` |
| ClientLeases | 3 leases, 2 faults, 1 change on the server | 0.4 M | `LeasesAreCounted`, `SnapshotIsCurrent`, `AttachedWhileLeased`, `CallsSettle` |

Three runs end in a violation, each of a sentence in the repository:

* **SqliteOpen**: "`open()` acquires the claim" (`docs/harness.md:570`). A
  repository that still has a storage for the session returns it, also when that
  storage knows that it has lost its lease.
* **JsonlFailedAppend**: only "the unacknowledged partial append" is dropped
  (`jsonl/storage.ts:86`). An append that failed half-way leaves its text in the
  file, and the next, acknowledged one runs into it.
* **SessionRecovery**: an overflow is to "remove the failed assistant message,
  compact, and retry the turn once" (`agent-session.ts:2291`). A transient error
  that was retried is gone from the live context and still on the branch. When
  the retry overflows, the compaction rebuilds the context from the branch, only
  its last message is removed, and the older error is last: `agent.continue()`
  throws.

### Why the bounds are enough

*Messages and runs*: two messages are needed to overtake each other and a third
to wait behind them; two runs let what one leaves behind (queues, transcript,
orphans) meet the next. *Calls*: two, one to fail and one to be running.
*Answers*: three, such as a transient error, an overflow after its retry and a
failure after the recovery; one prompt more lets the next one meet what they
left. *Claims*: three, a stale owner, its replacement after a release (whose fence
is 1 again) and another. *TTL*: expired or not is all that is compared, so 1 is
enough, and the proof covers the rest. *Entries*: a branch, a point to split it
at and a second branch, with a move to get there and one between the statements
of a read; four entries with one move hold as well. *Mutations*: a torn one, one
behind it, and one that makes the damage show. *Commands*: an attach that opens,
one that shares or waits for a disposal, one that reopens, and an operation or
detach among them; safety was also checked with three connections and with six
commands. *Leases*: one exclusive among two shared, or one being released while
two wait; *faults*: a failed detach and a lost connection after it. Safety was
also checked with two changes on the server, liveness with three faults over two
leases.

The processes are symmetric and `SqliteTree` and `SqliteOpen` use that, as are the
callers of `SessionRuns`; runs that check liveness use no symmetry.

Deadlock checking is off where the model rightly stops: in `SessionRuns` and
`SessionRecovery` all calls the bounds allow have been made, in `ServerSessions`
the server has closed, in `ClientLeases` the client is disposed or has no lease
left to ask for, in `SqliteBranches` the fork is done.

### What properties except

Some interleavings the code does not handle are in the models, recorded by a
history variable, and excepted by the properties that would otherwise be about
little else. Each is listed among the hazards.

* `AgentSession.overlap`: two calls of `prompt()`, or a prompt and `compact()`,
  pass their own checks while the other waits for authentication or a preflight
  compaction. `SessionRuns` stops there (`Overlaps = FALSE`); with `Overlaps = TRUE`
  and one answer, `SomeoneSettles` holds for the overlapping calls as well
  (3.8 M states).
* `SessionServer.raced`: a connection is attached to a runtime whose disposal has
  begun (`sessions.ts:305`). Only `AttachmentsAgree` excepts it.
* `SessionClient.torn`: a removal meets a lease being acquired or released and
  discards its reservation (`client.ts:402`). `suspect`: the last answer about the
  attachment was an error, after which the server may have attached or not.
* `JsonlSession.upset`: an append failed half-way, or a live fork repaired the
  file under the writer.
* `BranchCache`, `stale`: a repair or delete falls between two statements of one
  reading call.

### Fairness

* `AgentLoop`: weak fairness of the loop's own steps, that is, every promise the
  loop awaits settles (provider, tools, hooks and listeners are outside the
  code). Nothing is assumed of callers, and tools left behind need not end.
* `SqliteSession`: the clock goes on, and a repository operation that can run
  does (weak). `open` is strongly fair: the repository's queue is first in,
  first out, so an `open()` that is called again and again gets its turn between
  jobs that keep coming. Nothing makes heartbeats, writes or releases happen.
* `SessionServer`: settled promises resume, and what the server awaits outside
  settles: the service's answers, disposals, operations, transports being closed.
  Nothing makes clients send, runtimes become idle or connections fail.
* `SessionClient`: continuations run, messages that were sent arrive unless the
  connection is lost, and the server answers. Nothing makes users release,
  connections come back or the session change.

## The proofs

Eight modules hold proofs, each for every value of the constants that the
assumptions named below allow. Every one has the same plan: an invariant that is
inductive (TLC checked it first, on the bounds of the runs), a lemma for every
action or group of actions that preserves it, and theorems that follow from it.

| Module | Theorems |
|---|---|
| `SqliteSessionProofs` | `TypeCorrect`, `LeaseCorrect` (`LeaseInv`), `StaleWritersCommitNothing` (`OnlyLatestClaimantWrites`), `UnexpiredLeaseSafe` (`UnexpiredLeaseIsKept`), `TreeCorrect` (`TreeWellFormed`), `OneOpenOperationCorrect`, `DatabaseImplementsLog` (`ImplementsLog`) |
| `BranchCacheProofs` | `ForkCorrect` (`ForkIsWhole`), `QueriesCorrect` (`QueriesAgree`), `CacheCorrect` (a cached branch is the path of each of its entries) |
| `JsonlSessionProofs` | `TypeCorrect`, `CrashSafe` (`CrashesAreHarmless`), `MemoryCorrect` (`MemoryMirrorsFile`), `ForkCorrect` (`ForkReplays`), `FileImplementsLog` (`ImplementsLog`) |
| `SessionServerProofs` | `TypeCorrect`, `WorkKept` (`WorkIsKept`), `NothingLeaked` (`NoLeakedRuntime`), `AttachmentsCorrect` (`AttachmentsAgree`), `ServerImplementsContract` |
| `SessionClientProofs` | `TypeCorrect`, `LeasesCounted` (`LeasesAreCounted`), `AttachCorrect` (the invariant below), `SnapshotCurrent` (`SnapshotIsCurrent`), `AttachedLeased` (`AttachedWhileLeased`) |
| `AgentLoopProofs` | `TypeCorrect`, `SettledCorrect` (`SettledBetweenTurns`), `NoneLeftCorrect` (`NoneLeftBehind`) |
| `AgentMessagesProofs` | `OnlyCompleteCorrect` (`OnlyCompleteCallsExecute`), `DeliveryCorrect` (`DeliveryOrder`), `ConservedCorrect` (`MessagesConserved`), `ContextCorrect` (`ContextIsTranscript`), `ResultsCorrect` (`ToolResultsAnswerCalls`) |
| `AgentSessionProofs` | `TypeCorrect`, `SomeoneSettlesCorrect` (`SomeoneSettles`), `RetriesBounded` (`RetriesAreBounded`), `ContextInvCorrect` (the invariant below), `LiveCorrect` (`LiveIsSessionContext`), `ToolResultsCorrect` (`ToolResultsFollowCalls`) |

### The writer lease

The two action properties are not inductive by themselves. That a writer is the
latest claimant follows from `Holds` (its owner id is in the lease row) only if
the owner in the lease row is the latest claimant, which is the first conjunct of
`LeaseInv`. It is kept because a claim replaces the row and `claims` together and
every other step either keeps the owner or deletes the row; the claims of
`delete` and `repairBranchCache`, which leave no row, fit as well. That a live
lease goes only by its owner's release needs two more facts: `delete` of a
session that does not exist removes the row unconditionally, so such a session
must have none (second conjunct); and a release that is waiting in a queue
belongs to a storage that is closing (third conjunct, shown with `QueueStep` from
the fact that only `release` puts one there). The argument uses no fence: owner
ids are unique, and the fence adds nothing to them.

### The rows

`TreeInv` adds to the two properties that there are finitely many rows, that their
ids are those of past commits, and that an `operation_finished` names a run of a
past commit: so the id of the next commit is fresh, and a write adds a row without
touching what others say. The sequence numbers have no gap because the sequence
row holds one more than the number of rows. For `ImplementsLog` the rows are the
log and all of it is acknowledged; a write adds the row with the next number,
`delete` empties the log, and all else stutters.

### The branch cache

`CacheInv`: a cached branch is the path from its tip to the root, every entry is
on one, and the next branch id is not in use. An append starts a branch, extends
the one whose tip is the parent, or copies one up to the parent; in each case the
new members are the parent's path and the new entry. `PathShape` is what makes the copies right:
the part of a path up to an entry on it is that entry's path. `CallInv` says what
`fork()` has read so far. It reads entries and lanes first and tips last, and
paths never shrink but by a repair or delete (`stale`), so the tips read last
cover all that was read before; for the fork of one branch the entry it starts
from is the tip. `ForkIsWhole` is inductive with these.

`QueriesAgree` is about two recursions, a filter of the members in order and a
walk along the parent links. Both give the members of the same set
(`Found`), one in the order asked for and the other from the start entry down;
two sequences in the same order with the same members are equal (`SameItems`),
before and after the reversal and the limit. That `validateCachedBranchRows`
accepts the result rests on the same set: the parent of an entry on a path is the
next below it (`ParentOnPath`), so links are broken only where a filter leaves
entries out.

### The JSONL file

`FileInv` has two cases. While a storage is open, the file is the clean file of
the log in memory, followed, when an append got half-way, by a part of its line
(`Mirrored`). Without a storage, the file recovers what was acknowledged and at
most one mutation more (`Kept`). A crash leads from the first case to the second
and a load back, since what a torn tail leaves out was never acknowledged, and
what it leaves in is the mutation that was being appended. `StorageInv` provides
what this needs: memory is what callers were told, and the file does not change
under a load unless a live fork does the loading. `ForkInv` says that a fork
writes a valid log, which is the content of `ForkReplays`: `createForkMutations`
leaves no lane or parent pointing at what it did not copy. What replay does to a
log is read off the sequence of mutations (`Valid`, `Leaf`, `OpenOperations`), so
no fold is left in the statements. `FileImplementsLog` adds the numbers: the
stored mutations are those a reader recovers, the next one is numbered after the
last of them, and a repair drops nothing that a reader could have found.

### The server

`RuntimesInv` says which runtime the maps of `sessions.ts` hold, and that at most
one holds the session; `CloseInv` how far `close()` has come; `WaitInv` what each
command waits for, in particular that a command that is about to attach finds the
runtime still there; `CountInv` that the operation count is the number of commands
in an operation, and that runtimes are acquired in order, one for a command at
most (which bounds them); `AttachInv` who may be attached when no runtime is
there. `ServerImplementsContract` then shows that every step is a step of
`ExclusiveRuntime`, or leaves its state alone: `Contract!Safe` is that
specification without its fairness.

### The client

`LeasesAreCounted` holds between turns of the event loop. Within one, the
counts are wrong on purpose: a lost connection empties the books at once, while
the calls it fails run later, each undoing its own reservation if the generation
is still its own. `BooksInv` is the disjunction that makes this inductive: the
books are exact, or they are empty, the connection is gone, and every call
under way is about to fail (`Doomed`). `DetachInv` and `CurrentInv` are needed for
the one call that may still succeed, a detach whose answer was already delivered;
`WaitInv` shows that a call that waits has a promise to wait for, so that between
turns nothing is left of the second case.

`AttachInv` is about the attachment, as long as no removal has torn a lease
(`torn`). `PromisesInv`: one exchange with the server is under way at a time, and
someone waits for it. `JobsInv`: the leases resumed together are resumed for one
reason and with one outcome, before anything else is settled. `LinkInv`: a request
the server has handled is answered once, and behind what it sent before.
`ServerInv` is what the two properties follow from: the client knows what the
server holds for it or is about to learn it (`Newest`: the newest snapshot is in
the inbox, in an answer under way, or applied), and a client that is attached
without the server knowing of it has the news in its inbox. It does not hold while
a removal travels ahead of the answer to a request that is pending (`Crossed`):
its arrival will set `torn`, as the lease that waits for the answer is torn by it.

### The agent loop

`CoreInv` says what the loop holds at each await: which locals are empty, which
calls of a batch are done, running or to come, that the pending calls are those
under way, and that a message which was there when the loop last polled has been
taken. The theorems of `AgentLoopProofs` follow from it. Those of
`AgentMessagesProofs` add one invariant each. `OrderInv`: transcript, the
messages in the loop's hands and the queues are, in this order, sorted for each
door. `ConserveInv`: the number of places a message is in is at most 1, and is 1
as long as nothing was thrown; it is a sum of cardinalities, and each step that
moves a message moves one unit. `ContextInv`: how context and transcript
differ at every await, which between a request and the end of its turn is by the
answer being streamed or by the results already given. `ResultsInv`: every result
follows its answer in source order, and only the answer of the current batch may
still lack results. `ResultsCorrect` rests on `ContextInv`, as the position of
that answer is the length of the context.

### The coding agent's session

`BaseInv` holds with overlapping calls too. Its core is `TurnInv` (the caller who
awaits the agent is the one whose run it is) and `ActiveInv` (while the session is
active a caller is on the way to `_emitAgentSettled`; waiters may also be left to
one that is just there). `AloneInv` is what the absence of an overlap gives: one
call at a time is past its checks. `RetryInv` counts. A streak of failed answers
has a part before the overflow recovery and a part after it, and in each part the
failures seen by `_prepareRetry` are the retries made (`Ready`), plus the one not
looked at yet (`ErrorInv`). The difficult part is that a length stop resets
`retryAttempt` (`_handleAgentEvent`), so that the bound would not hold if the
loop went on from there without a recovery or a new message: `PostInv` shows
that it does not, because the context then ends with an assistant message, also
after a compaction (`BuildIs`: the rebuilt context ends with the last entry), and
`agent.continue()` from such a context needs a queued message, which starts a new
streak. The numbers in `NumberInv`, `KeepInv` and `SummaryInv` are there for that lemma: what
a compaction keeps exists, so the rebuilt context is well defined.

`ContextInv` is about the two copies of the context, for calls that do not
overlap. Every step has one of eight effects on them: it leaves both alone, emits
a message (into the live context), persists the one that was emitted, flushes the
deferred shell results, commits a compaction, drops a failed answer from the live
context, or records or defers a shell result. `LiveIsSessionContext` says that
leaving failed answers aside the copies have the same messages, each once and in
the same order. It is stated by the positions of the messages, since a `SelectSeq`
of two sequences is a recursion over each, and it needs that every message has a
number of its own (`NumbersInv`). `PairsInv` says when a context may end with a
tool call: while tools run, or, for the branch, until their result is saved. A cut
is never at a tool result (`CutsInv`), so what a compaction keeps begins with a
message that needs no other, and `buildSessionContext` keeps calls and results
together. `LastInv` is for the step that drops a failed answer: the one that the
post-run loop looked at is still the last message.

### Recursion

What a recursive definition gives is mostly shown by an induction, for which the
provers have no usable theorem. Where it was needed (the paths, the walk, the
filter, the replay of a log), the definition is a recursive function and the
proof takes a least number for which the claim fails and derives it from the one
below; that there is a least one is `WFMin` of `WellFoundedInduction`.

### Assumptions

Only the named assumptions on the constants, which TLC evaluates in the runs:
`ConstantsAssumption` of `SqliteSession`, `JsonlAssumption` of `JsonlSession` and the
`BoundsAssumption` of the others.
Bounds are natural numbers, slots of the server are numbered, sets of modes are
not empty, "main" is a lane, the callers of `prompt()` are finitely many and none is called
"manual" or "none". In the models, not in the proofs: SQLite transactions are
serial, a failed one leaves no trace, owner ids (UUIDv7) are unique, and processes
read one clock; JavaScript runs to the next await, and continuations in order.

### Only model-checked

* All liveness, since the prover handles neither fairness nor ENABLED:
  `RunSettles`, `AbandonedLeaseIsTakenOver`, `NothingHangs`, `CallsSettle`, and the
  fairness of `ExclusiveRuntime` within `ImplementsContract`, whose safety is
  `ServerImplementsContract`.
* The three runs that end in a violation: a counterexample is its own proof.

## Known limits

Of the code, as the models show it:

* After a listener has thrown during a parallel batch, the other tools of the
  batch go on under an agent that is idle (`waitForIdle` has resolved), and their
  events come after the run's `agent_end`, which `agent.ts:256` calls "the final
  emitted event for a run". The next run is not disturbed: `SettledBetweenTurns`
  and `ToolResultsAnswerCalls` hold with such orphans.
* A live fork of the JSONL backend that finds a half-written line repairs the file
  under the writer, although `docs/harness.md:868` says that an active storage
  "queues the snapshot with commits".
* A crash inside `create` of the JSONL backend leaves a header that never loads.
  The model has it; nothing acknowledged is lost.
* `fork` of the SQLite backend reads without a transaction, although
  `docs/harness.md:804` says "SQLite uses one read transaction". An append in
  between makes it throw; a delete in between makes a session without lanes.
* A repair between the two statements of `findEntriesOnBranch` gives an empty
  result without an error.
* `abort()` of the coding agent ends the run and a retry, not an automatic
  compaction: it waits for that.

## Not modelled

The repository has 190 000 lines of implementation, most of which a model checker
can say little about, and a model that named them would only restate them:

* **Terminal UI, interactive mode, export templates** (`tui`,
  `coding-agent/src/modes`, `core/export-html`): layout, key bindings and
  rendering. What is decided there is how text looks.
* **Providers and model tables** (`ai`): adapters from one request format to
  another, and generated lists of models. What the loop depends on, the shape and
  the stop reason of an answer, is the nondeterminism of `AgentLoop` and
  `AgentSession`.
* **Tools, package manager, settings, extensions** (`coding-agent/src/core`):
  sequential code over files, processes and npm, whose difficulty lies in the data.
* **Wire protocol**: codecs without state; **harness reducer**: a pure fold over
  data; both are covered by unit tests, and their inputs are too wide to enumerate
  in a way that would add to those.
* **Agent harness**: most operations throw `HarnessNotImplemented`.
* **Memory backend**: the `mem` part of `JsonlSession` without a file.
* **File mutation queue**: a chain of promises per resolved path; its one hazard,
  paths that alias, lies in the file system.
* Within the modelled parts: lists and catalog queries, statistics, listeners and
  the server's own snapshot, `createSession` of server and client (an id that
  nobody else knows yet, so nothing to race with), branch summaries and tree
  navigation of the coding agent.

Server and client are not composed in one module: the client's server part is
`SessionServer` seen from one connection, and the product of the two state spaces
is beyond TLC at bounds where their interleavings mean anything.

## Further work

No safety property of the runs is left without a proof. What would come next:

1. Two JSONL storages on one file, of which `docs/harness.md:575` says that they
   corrupt it: a model would show which of their interleavings do.
2. Tree navigation and branch summaries in `AgentSession`, which move the leaf
   under the live context and would be two more effects in the proof of
   `ContextInv`.
3. Extensions in `AgentSession`, whose handlers run between the awaits of a prompt.
