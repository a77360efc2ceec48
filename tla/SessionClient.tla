---------------------------- MODULE SessionClient ----------------------------
(***************************************************************************)
(* PiClient of packages/client/src (client.ts, connection.ts, state.ts)    *)
(* for one session: the leases that its users acquire and release, the     *)
(* attach and detach requests they share, the connection they are sent on  *)
(* and the snapshots that come back.                                       *)
(*                                                                         *)
(* The server is reduced to what SessionServer does for one connection:    *)
(* whether it holds the connection attached, the session's snapshot, and   *)
(* an ordered stream of messages, in which a response may carry an older   *)
(* snapshot than an event before it.  All messages that have arrived may   *)
(* be in one chunk, so a promise settled by one of them resumes (jobs, in  *)
(* order) after any number of the others has been handled.                 *)
(***************************************************************************)
EXTENDS Naturals, Sequences, FiniteSets

CONSTANTS
    MaxLeases,     \* bounds: calls of acquireSession(),
    MaxFaults,     \*   failed requests, lost connections, removals,
    MaxChanges     \*   changes of the session on the server

ASSUME BoundsAssumption ==
    MaxLeases \in Nat /\ MaxFaults \in Nat /\ MaxChanges \in Nat

Leases == 1..MaxLeases

VARIABLES
    link,          \* Connection.#lifecycle
    lease,         \* the calls of acquireSession() and the leases they return
    mode,          \* the mode each asks for
    count,         \* #sessionLeaseCounts
    exclusive,     \* #exclusiveSessionLeases, 0 when there is none
    generation,    \* #sessionLeaseGenerations
    cleanup,       \* #sessionCleanupRequired
    detachment,    \* #sessionDetachments: the lease whose detach is pending
    attachment,    \* #sessionAttachments: an attach is pending
    reconciliation,\* #sessionReconciliations: a clean-up detach is pending
    attached,      \* ClientState.#attachedSessionIds
    snapshot,      \* ClientState.#sessionSnapshots
    previous,      \* the snapshot that a pending #attachSession() forgot
    jobs,          \* continuations of settled promises
    inflight,      \* #pendingRequests, and what the server has made of them
    inbox,         \* messages on their way to the client
    server,        \* the server: attached or not, and the session's snapshot
    used,          \* leases, faults and changes so far
    torn,          \* history: a removal met a lease being acquired or released
    suspect        \* history: the last answer about the attachment was an error

books == <<count, exclusive, generation, cleanup>>
promises == <<detachment, attachment, reconciliation>>
state == <<attached, snapshot, previous>>
vars == <<link, lease, mode, books, promises, state, jobs, inflight, inbox, server,
          used, torn, suspect>>

Requests == {"attach", "detach", "reconcile"}
NoSnapshot == [epoch |-> 0, rev |-> 0]
NoLease == [pc |-> "none", generation |-> 0, hard |-> FALSE]
Labels == {"none", "detachment", "reconciliation", "attachment", "active",
           "releasing", "done"}
Acquiring == {"detachment", "reconciliation", "attachment"}
Snapshots == [epoch : Nat, rev : Nat]

TypeOK ==
    /\ link \in {"disconnected", "connecting", "connected", "disposed"}
    /\ lease \in [Leases -> [pc : Labels, generation : Nat, hard : BOOLEAN]]
    /\ mode \in [Leases -> {"shared", "exclusive"}]
    /\ count \in 0..MaxLeases /\ exclusive \in {0} \cup Leases
    /\ generation \in Nat /\ cleanup \in BOOLEAN
    /\ detachment \in {0} \cup Leases
    /\ attachment \in BOOLEAN /\ reconciliation \in BOOLEAN
    /\ attached \in BOOLEAN /\ snapshot \in Snapshots /\ previous \in Snapshots
    /\ jobs \in Seq([of : {"lease", "attach", "reconcile"}, lease : {0} \cup Leases,
                     ok : BOOLEAN])
    /\ inflight \in [Requests -> {"no", "sent", "handled"}]
    /\ inbox \in Seq([type : {"ok", "error", "event", "removed"},
                      request : Requests, snapshot : Snapshots])
    /\ server \in [has : BOOLEAN, snapshot : Snapshots, reply : Snapshots]
    /\ used \in [leases : 0..MaxLeases, faults : 0..MaxFaults, changes : 0..MaxChanges]
    /\ torn \in BOOLEAN /\ suspect \in BOOLEAN

Init ==
    /\ link = "disconnected"
    /\ lease = [l \in Leases |-> NoLease] /\ mode = [l \in Leases |-> "shared"]
    /\ count = 0 /\ exclusive = 0 /\ generation = 0 /\ cleanup = FALSE
    /\ detachment = 0 /\ attachment = FALSE /\ reconciliation = FALSE
    /\ attached = FALSE /\ snapshot = NoSnapshot /\ previous = NoSnapshot
    /\ jobs = <<>> /\ inflight = [k \in Requests |-> "no"] /\ inbox = <<>>
    /\ server = [has |-> FALSE, snapshot |-> [epoch |-> 1, rev |-> 2], reply |-> NoSnapshot]
    /\ used = [leases |-> 0, faults |-> 0, changes |-> 0]
    /\ torn = FALSE /\ suspect = FALSE

(* refreshState and isActive: the lease is of this generation. *)
Active(l) == lease[l].pc = "active" /\ lease[l].generation = generation /\ attached
Goto(l, pc) == lease' = [lease EXCEPT ![l].pc = pc]
Job(of, l, ok) == [of |-> of, lease |-> l, ok |-> ok]
(* What the answer to a request resumes. *)
Settles(k, ok) == IF k = "detach" THEN Job("lease", detachment, ok) ELSE Job(k, 0, ok)
(* Those that await a promise resume in the order in which they came.      *)
Waiting(pc) == {l \in Leases : lease[l].pc = pc}
Rank(S, l) == Cardinality({k \in S : k <= l})
Ordered(S) == [i \in 1..Cardinality(S) |-> CHOOSE l \in S : Rank(S, l) = i]
Woken(pc, ok) == LET W == Ordered(Waiting(pc)) IN [i \in DOMAIN W |-> Job("lease", W[i], ok)]

-----------------------------------------------------------------------------
(* The books. *)

reserveSessionLease(l, m) ==
    /\ m = "exclusive" => count = 0
    /\ m = "shared" => exclusive = 0
    /\ count' = count + 1
    /\ exclusive' = IF m = "exclusive" THEN l ELSE exclusive
    /\ UNCHANGED <<generation, cleanup>>

Mutant_NoFloor(l) ==
    /\ count' = count - 1
    /\ exclusive' = IF exclusive = l THEN 0 ELSE exclusive
    /\ UNCHANGED generation
releaseSessionLease(l) ==
    /\ count' = IF count <= 1 THEN 0 ELSE count - 1
    /\ exclusive' = IF exclusive = l THEN 0 ELSE exclusive
    /\ UNCHANGED generation

Mutant_SameGeneration ==
    /\ count' = 0 /\ exclusive' = 0 /\ cleanup' = FALSE
    /\ UNCHANGED generation
invalidateSessionLeases ==
    /\ count' = 0 /\ exclusive' = 0 /\ cleanup' = FALSE
    /\ generation' = generation + 1

-----------------------------------------------------------------------------
(* acquireSession(). *)

(* #request: sent, or rejected at once without a connection. *)
Send(k, rest) ==
    IF link = "connected"
    THEN inflight' = [inflight EXCEPT ![k] = "sent"] /\ jobs' = rest
    ELSE jobs' = Append(rest, Settles(k, FALSE)) /\ UNCHANGED inflight

Mutant_SnapshotKept == snapshot
Forgotten == NoSnapshot

(* Join the pending attach, or start one: #attachSession(). *)
Attach(l, rest) ==
    /\ lease' = [lease EXCEPT ![l].pc = "attachment"]
    /\ attachment' = TRUE
    /\ IF attachment
       THEN jobs' = rest /\ UNCHANGED <<inflight, snapshot, previous>>
       ELSE /\ previous' = snapshot /\ snapshot' = Forgotten
            /\ Send("attach", rest)
    /\ UNCHANGED <<attached, detachment, reconciliation>>

(* After the pending detach: clean up, attach, or take the lease. *)
AfterDetachment(l, rest) ==
    \/ /\ cleanup
       /\ Goto(l, "reconciliation")
       /\ reconciliation' = TRUE
       /\ IF reconciliation THEN jobs' = rest /\ UNCHANGED inflight
          ELSE Send("reconcile", rest)
       /\ UNCHANGED <<state, detachment, attachment>>
    \/ /\ ~ cleanup /\ ~ attached
       /\ Attach(l, rest)
    \/ /\ ~ cleanup /\ attached
       /\ lease' = [lease EXCEPT ![l].pc = "active", ![l].generation = generation]
       /\ jobs' = rest
       /\ UNCHANGED <<state, inflight, promises>>

acquireSession(l, m) ==
    /\ jobs = <<>> /\ link # "disposed" /\ l = used.leases + 1
    /\ reserveSessionLease(l, m)
    /\ used' = [used EXCEPT !.leases = l] /\ mode' = [mode EXCEPT ![l] = m]
    /\ \/ /\ detachment # 0
          /\ Goto(l, "detachment")
          /\ UNCHANGED <<state, jobs, inflight, promises>>
       \/ /\ detachment = 0
          /\ AfterDetachment(l, jobs)
    /\ UNCHANGED <<link, inbox, server, torn, suspect>>

-----------------------------------------------------------------------------
(* Release: detach() and, hard, dispose() of a lease. *)

Mutant_AlwaysDetach(l) == TRUE
(* The last lease detaches from the server. *)
LastLease(l) == count <= 1

release(l, hard) ==
    /\ jobs = <<>> /\ link = "connected" /\ Active(l)
    /\ LastLease(l) => detachment = 0    \* a second one only when torn: not followed
    /\ IF LastLease(l)
       THEN /\ lease' = [lease EXCEPT ![l].pc = "releasing", ![l].hard = hard]
            /\ detachment' = l
            /\ Send("detach", jobs)
            /\ UNCHANGED books
       ELSE /\ Goto(l, "done")
            /\ releaseSessionLease(l)
            /\ UNCHANGED <<cleanup, detachment, inflight, jobs>>
    /\ UNCHANGED <<link, mode, attachment, reconciliation, state, inbox, server, used,
                   torn, suspect>>

-----------------------------------------------------------------------------
(* Continuations. *)

(* The detach of a releasing lease is settled; those that wait for it go on. *)
Released(l, ok, rest) ==
    /\ detachment' = 0
    /\ jobs' = rest \o Woken("detachment", TRUE)
    /\ \/ /\ ok
          /\ releaseSessionLease(l) /\ Goto(l, "done")
          /\ UNCHANGED cleanup
       \/ /\ ~ ok /\ lease[l].generation # generation       \* invalidated
          /\ Goto(l, "done")
          /\ UNCHANGED books
       \/ /\ ~ ok /\ lease[l].generation = generation
          /\ IF lease[l].hard
             THEN /\ releaseSessionLease(l) /\ Goto(l, "done")
                  /\ cleanup' = TRUE
             ELSE Goto(l, "active") /\ UNCHANGED books
    /\ UNCHANGED <<inflight, attachment, reconciliation, state>>

(* acquireSession() goes on, or gives its reservation back. *)
Resumed(l, ok, rest) ==
    \/ /\ lease[l].pc = "detachment"
       /\ AfterDetachment(l, rest)
       /\ UNCHANGED books
    \/ /\ lease[l].pc = "reconciliation" /\ ok
       /\ Attach(l, rest)
       /\ UNCHANGED books
    \/ /\ lease[l].pc = "attachment" /\ ok
       /\ lease' = [lease EXCEPT ![l].pc = "active", ![l].generation = generation]
       /\ jobs' = rest
       /\ UNCHANGED <<books, state, inflight, promises>>
    \/ /\ lease[l].pc \in {"reconciliation", "attachment"} /\ ~ ok
       /\ releaseSessionLease(l) /\ Goto(l, "done")
       /\ jobs' = rest
       /\ UNCHANGED <<cleanup, state, inflight, promises>>

RunJob ==
    /\ jobs # <<>>
    /\ LET j == Head(jobs)  rest == Tail(jobs) IN
       \/ /\ j.of = "attach"                  \* #attachSession() settles
          /\ attachment' = FALSE
          /\ snapshot' = IF ~ j.ok /\ snapshot = NoSnapshot THEN previous ELSE snapshot
          /\ previous' = NoSnapshot
          /\ jobs' = rest \o Woken("attachment", j.ok)
          /\ UNCHANGED <<lease, books, detachment, reconciliation, attached, inflight>>
       \/ /\ j.of = "reconcile"               \* #reconcileSessionCleanup() settles
          /\ reconciliation' = FALSE
          /\ cleanup' = (cleanup /\ ~ j.ok)
          /\ jobs' = rest \o Woken("reconciliation", j.ok)
          /\ UNCHANGED <<lease, count, exclusive, generation, detachment, attachment,
                         state, inflight>>
       \/ /\ j.of = "lease" /\ lease[j.lease].pc = "releasing"
          /\ Released(j.lease, j.ok, rest)
       \/ /\ j.of = "lease" /\ lease[j.lease].pc # "releasing"
          /\ Resumed(j.lease, j.ok, rest)
    /\ UNCHANGED <<link, mode, inbox, server, used, torn, suspect>>

-----------------------------------------------------------------------------
(* Messages from the server: #handleMessage, applyResult and applyEvent. *)

(* #applySessionSnapshot leaves a newer snapshot alone. *)
IsNewer(s) == snapshot = NoSnapshot \/ s.rev >= snapshot.rev

applySessionSnapshot(s) ==
    IF IsNewer(s) THEN snapshot' = s /\ attached' = TRUE
    ELSE UNCHANGED <<snapshot, attached>>

Deliver ==
    /\ inbox # <<>> /\ link = "connected"
    /\ inbox' = Tail(inbox)
    /\ LET m == Head(inbox) IN
       \/ /\ m.type = "ok" /\ m.request = "attach"
          /\ applySessionSnapshot(m.snapshot)
          /\ UNCHANGED <<books, torn>>
       \/ /\ m.type = "ok" /\ m.request # "attach"
          /\ attached' = FALSE
          /\ UNCHANGED <<books, snapshot, torn>>
       \/ /\ m.type = "error"
          /\ UNCHANGED <<books, attached, snapshot, torn>>
       \/ /\ m.type = "event"
          /\ applySessionSnapshot(m.snapshot)
          /\ UNCHANGED <<books, torn>>
       \/ /\ m.type = "removed"
          /\ invalidateSessionLeases
          /\ attached' = FALSE /\ snapshot' = NoSnapshot
          /\ torn' = (torn \/ \E l \in Leases :
                                lease[l].pc \in Acquiring \cup {"releasing"})
    /\ LET m == Head(inbox)  answer == m.type \in {"ok", "error"} IN
          /\ inflight' = IF answer THEN [inflight EXCEPT ![m.request] = "no"] ELSE inflight
          /\ jobs' = IF answer THEN Append(jobs, Settles(m.request, m.type = "ok"))
                               ELSE jobs
          /\ suspect' = IF answer THEN m.type = "error" ELSE suspect
    /\ UNCHANGED <<link, lease, mode, promises, previous, server, used>>

-----------------------------------------------------------------------------
(* The connection. *)

connect ==
    /\ jobs = <<>> /\ link = "disconnected"
    /\ link' = "connecting"
    /\ snapshot' = NoSnapshot /\ attached' = FALSE
    /\ UNCHANGED <<lease, mode, books, promises, previous, jobs, inflight, inbox, server,
                   used, torn, suspect>>

handshake ==
    /\ jobs = <<>> /\ link = "connecting" /\ link' = "connected"
    /\ UNCHANGED <<lease, mode, books, promises, state, jobs, inflight, inbox, server,
                   used, torn, suspect>>

(* #invalidateAllSessionLeases: the session has an entry while it has leases. *)
invalidateAllSessionLeases ==
    IF count > 0 THEN invalidateSessionLeases
    ELSE cleanup' = FALSE /\ UNCHANGED <<count, exclusive, generation>>

Mutant_NoRejection == <<>>
rejectPendingRequests ==
    LET Rejected(k) == IF inflight[k] = "no" THEN <<>> ELSE <<Settles(k, FALSE)>>
    IN  Rejected("attach") \o Rejected("detach") \o Rejected("reconcile")

(* disconnect(), a lost transport, a failed handshake, or dispose(). *)
disconnect(how) ==
    /\ jobs = <<>> /\ link \in {"connecting", "connected"}
    /\ used.faults < MaxFaults /\ used' = [used EXCEPT !.faults = @ + 1]
    /\ link' = how
    /\ attached' = FALSE
    /\ snapshot' = IF how = "disposed" THEN NoSnapshot ELSE snapshot
    /\ invalidateAllSessionLeases
    /\ jobs' = rejectPendingRequests
    /\ inflight' = [k \in Requests |-> "no"] /\ inbox' = <<>>
    /\ server' = [server EXCEPT !.has = FALSE, !.reply = NoSnapshot]
    /\ suspect' = FALSE
    /\ UNCHANGED <<lease, mode, promises, previous, torn>>

-----------------------------------------------------------------------------
(* The server. *)

Message(type, k, s) == [type |-> type, request |-> k, snapshot |-> s]

(* attach takes effect, and its response follows when everyone attached has *)
(* been told; it may also fail, before or after it takes effect.            *)
ServerAttaches ==
    /\ inflight["attach"] = "sent"
    /\ \/ /\ server' = [server EXCEPT !.has = TRUE, !.reply = server.snapshot]
          /\ inflight' = [inflight EXCEPT !["attach"] = "handled"]
          /\ UNCHANGED <<inbox, used>>
       \/ /\ used.faults < MaxFaults /\ used' = [used EXCEPT !.faults = @ + 1]
          /\ inbox' = Append(inbox, Message("error", "attach", NoSnapshot))
          /\ inflight' = [inflight EXCEPT !["attach"] = "handled"]
          /\ \E effect \in BOOLEAN : server' = [server EXCEPT !.has = @ \/ effect]
    /\ UNCHANGED <<link, lease, mode, books, promises, state, jobs, torn, suspect>>

ServerAnswers ==
    /\ server.reply # NoSnapshot
    /\ inbox' = inbox \o <<Message("event", "attach", server.reply),
                           Message("ok", "attach", server.reply)>>
    /\ server' = [server EXCEPT !.reply = NoSnapshot]
    /\ UNCHANGED <<link, lease, mode, books, promises, state, jobs, inflight, used, torn,
                   suspect>>

(* detach always takes effect, but what it does next may fail. *)
ServerDetaches(k) ==
    /\ k \in {"detach", "reconcile"} /\ inflight[k] = "sent"
    /\ server' = [server EXCEPT !.has = FALSE]
    /\ inflight' = [inflight EXCEPT ![k] = "handled"]
    /\ \/ /\ inbox' = Append(inbox, Message("ok", k, NoSnapshot))
          /\ UNCHANGED used
       \/ /\ server.has /\ used.faults < MaxFaults
          /\ used' = [used EXCEPT !.faults = @ + 1]
          /\ inbox' = Append(inbox, Message("error", k, NoSnapshot))
    /\ UNCHANGED <<link, lease, mode, books, promises, state, jobs, torn, suspect>>

(* The session changes, and its attached connections are told; without one, *)
(* it may be closed and opened again, which starts its revisions anew.      *)
ServerChanges ==
    LET s == server.snapshot IN
    /\ used.changes < MaxChanges /\ used' = [used EXCEPT !.changes = @ + 1]
    /\ \/ /\ server' = [server EXCEPT !.snapshot.rev = @ + 1]
          /\ inbox' = IF server.has
                      THEN Append(inbox, Message("event", "attach", [s EXCEPT !.rev = @ + 1]))
                      ELSE inbox
       \/ /\ ~ server.has
          /\ server' = [server EXCEPT !.snapshot = [epoch |-> s.epoch + 1, rev |-> 1]]
          /\ UNCHANGED inbox
    /\ UNCHANGED <<link, lease, mode, books, promises, state, jobs, inflight, torn, suspect>>

(* session_removed, which the protocol has for a session that is deleted. *)
ServerRemoves ==
    /\ link = "connected" /\ server.has /\ server.reply = NoSnapshot
    /\ used.faults < MaxFaults /\ used' = [used EXCEPT !.faults = @ + 1]
    /\ server' = [server EXCEPT !.has = FALSE]
    /\ inbox' = Append(inbox, Message("removed", "attach", NoSnapshot))
    /\ UNCHANGED <<link, lease, mode, books, promises, state, jobs, inflight, torn, suspect>>

-----------------------------------------------------------------------------
(* The specification. *)

Server == \/ ServerAttaches \/ ServerAnswers
          \/ \E k \in Requests : ServerDetaches(k)

Next ==
    \/ \E l \in Leases : \/ \E m \in {"shared", "exclusive"} : acquireSession(l, m)
                          \/ \E hard \in BOOLEAN : release(l, hard)
    \/ RunJob \/ Deliver
    \/ connect \/ handshake \/ \E how \in {"disconnected", "disposed"} : disconnect(how)
    \/ Server \/ ServerChanges \/ ServerRemoves

Spec == Init /\ [][Next]_vars

(* Settled promises resume; the server answers, and its messages arrive,    *)
(* unless the connection is lost.                                           *)
FairSpec == Spec /\ WF_vars(RunJob) /\ WF_vars(Deliver) /\ WF_vars(Server)

-----------------------------------------------------------------------------
(* Properties. *)

Idle == jobs = <<>>
Quiet == /\ link = "connected" /\ Idle /\ inbox = <<>>
         /\ \A k \in Requests : inflight[k] = "no"

Reserved == {l \in Leases :
                \/ lease[l].pc \in Acquiring
                \/ lease[l].pc \in {"active", "releasing"}
                   /\ lease[l].generation = generation}

(* "Exclusive acquisition fails while any lease exists, and shared          *)
(* acquisition fails while an exclusive lease exists": failed detaches,     *)
(* lost connections and shared requests never leave two holders beside an   *)
(* exclusive one, and the counts that decide it (and who sends the detach)  *)
(* are those of the leases that exist. A removal that meets a lease being   *)
(* acquired or released is excepted: it discards the reservation, and the   *)
(* lease comes to life without one.                                         *)
LeasesAreCounted ==
    ~ torn /\ Idle =>
        /\ count = Cardinality(Reserved)
        /\ exclusive = 0 \/ Reserved = {exclusive}
        /\ \A l \in Reserved : mode[l] = "exclusive" => exclusive = l

(* When nothing is in flight, a session that the server counts as attached  *)
(* is attached here too, with the snapshot that the server has: neither a   *)
(* response overtaken by an event nor the revisions of an earlier opening   *)
(* hide the newest state.  An attach that failed is excepted, because the   *)
(* server may fail it after attaching, and so is what follows a torn lease. *)
SnapshotIsCurrent ==
    ~ torn /\ ~ suspect /\ Quiet /\ server.has =>
        attached /\ snapshot = server.snapshot

(* When nothing is in flight, the server holds the session for this client  *)
(* exactly while it has leases: after the last one is released the session  *)
(* is detached, or marked for clean-up, and a lease that can be used is     *)
(* attached.  A request that failed is excepted: the server may have done   *)
(* part of it.                                                              *)
AttachedWhileLeased ==
    ~ torn /\ Quiet =>
        /\ count = 0 => (server.has => suspect) /\ (attached => cleanup \/ suspect)
        /\ (\E l \in Leases : Active(l)) => server.has \/ suspect

(* acquireSession() and release() settle, whoever's request they wait for.  *)
CallsSettle == \A l \in Leases :
    lease[l].pc \in Acquiring \cup {"releasing"}
        ~> lease[l].pc \in {"active", "done"}
=============================================================================
