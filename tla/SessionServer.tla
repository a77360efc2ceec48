---------------------------- MODULE SessionServer ----------------------------
(***************************************************************************)
(* The session server of packages/server/src (server.ts, sessions.ts): its *)
(* connections, the commands they send and, for one session, the runtimes  *)
(* that LiveSessionManager acquires, shares among the attached connections *)
(* and disposes when nobody uses them.                                     *)
(*                                                                         *)
(* A step is the code between two awaits.  Promises that are already       *)
(* settled resume before anything else happens (Pending); what is settled  *)
(* by the service, a transport or a timer is a step of its own.  Commands  *)
(* that arrive in one chunk are dispatched before any of them resumes.     *)
(***************************************************************************)
EXTENDS Naturals, FiniteSets

CONSTANTS
    Conns,         \* connections a client may open
    Slots,         \* commands that may be in progress together
    MaxCommands    \* bound: commands in all

ASSUME BoundsAssumption == MaxCommands \in Nat /\ Slots \subseteq Nat

Runtimes == 1..MaxCommands     \* a command acquires at most one

VARIABLES
    conn,       \* ConnectionState: stage, and whether sessionIds has the session
    slot,       \* the commands in progress: what each awaits
    rt,         \* the runtimes: LiveSession and the life of its runtime
    current,    \* liveSessions.get(id), 0 when there is none
    opening,    \* openingSessions.get(id), 0 when there is none
    srv,        \* how far PiServer.close() has come
    awaited,    \* the runtime that LiveSessionManager.close() waits for
    reader,     \* the connection whose chunk is being dispatched
    commands,   \* commands dispatched so far
    raced       \* history: a connection was attached to a disposing runtime

vars == <<conn, slot, rt, current, opening, srv, awaited, reader, commands, raced>>

NoConn == "none"
Stages == {"new", "awaitingHello", "handshaking", "ready", "closing", "closed"}
Free == [pc |-> "free", conn |-> NoConn, rt |-> 0]
Awaits == {"free", "disposing", "opening", "attach", "detach", "operation"}
NoRuntime == [status |-> "none", members |-> {}, ops |-> 0, busy |-> FALSE,
              terminal |-> "no", doomed |-> {}]
Statuses == {"none", "opening", "checking", "discarding", "failed",
             "live", "disposing", "gone"}

TypeOK ==
    /\ conn \in [Conns -> [stage : Stages, has : BOOLEAN]]
    /\ slot \in [Slots -> [pc : Awaits, conn : Conns \cup {NoConn}, rt : {0} \cup Runtimes]]
    /\ rt \in [Runtimes -> [status : Statuses, members : SUBSET Conns, ops : Nat,
                            busy : BOOLEAN, terminal : {"no", "closing", "done"},
                            doomed : SUBSET Conns]]
    /\ current \in {0} \cup Runtimes /\ opening \in {0} \cup Runtimes
    /\ srv \in {"up", "listeners", "connections", "openings", "disposing", "closed"}
    /\ awaited \in {0} \cup Runtimes /\ reader \in Conns \cup {NoConn}
    /\ commands \in 0..MaxCommands /\ raced \in BOOLEAN

Init ==
    /\ conn = [c \in Conns |-> [stage |-> "new", has |-> FALSE]]
    /\ slot = [s \in Slots |-> Free]
    /\ rt = [r \in Runtimes |-> NoRuntime]
    /\ current = 0 /\ opening = 0
    /\ srv = "up" /\ awaited = 0
    /\ reader = NoConn /\ commands = 0 /\ raced = FALSE

closing == srv # "up"

-----------------------------------------------------------------------------
(* Disposal. *)

Mutant_UnusedIgnoresOps(rts, r) ==
    /\ ~ closing /\ rts[r].status = "live" /\ rts[r].members = {}
    /\ rts[r].terminal = "no" => ~ rts[r].busy
(* Nobody uses the runtime: no connection, no operation, and no work. *)
Unused(rts, r) ==
    /\ ~ closing /\ rts[r].status = "live"
    /\ rts[r].members = {} /\ rts[r].ops = 0
    /\ rts[r].terminal = "no" => ~ rts[r].busy

(* rts after maybeDispose on runtime r. *)
maybeDispose(rts, r) ==
    IF Unused(rts, r) THEN [rts EXCEPT ![r].status = "disposing"] ELSE rts

(* runtime.dispose() returns or throws: the session leaves the maps. *)
DisposeDone(r) ==
    /\ \/ /\ rt[r].status = "disposing"
          /\ rt' = [rt EXCEPT ![r].status = "gone"]
          /\ current' = IF current = r THEN 0 ELSE current
          /\ UNCHANGED opening
       \/ /\ rt[r].status = "discarding"
          /\ rt' = [rt EXCEPT ![r].status = "failed"]
          /\ opening' = IF opening = r THEN 0 ELSE opening
          /\ UNCHANGED current
    /\ UNCHANGED <<conn, slot, srv, awaited, commands, raced>>

-----------------------------------------------------------------------------
(* Acquiring a runtime. *)

Take(s, pc, c, r) == slot' = [slot EXCEPT ![s] = [pc |-> pc, conn |-> c, rt |-> r]]

Mutant_AcquireBesideDisposing(s, c) ==
    \/ /\ current # 0 /\ rt[current].terminal = "no" /\ rt[current].status = "live"
       /\ Take(s, "attach", c, current)
       /\ UNCHANGED <<rt, opening>>
    \/ /\ opening = 0
       /\ IF current = 0 THEN TRUE ELSE rt[current].status = "disposing"
       /\ LET r == CHOOSE n \in Runtimes : /\ rt[n].status = "none"
                                           /\ \A m \in 1..(n - 1) : rt[m].status # "none"
          IN  /\ rt' = [rt EXCEPT ![r].status = "opening"]
              /\ opening' = r
              /\ Take(s, "opening", c, r)
(* One round of the loop of acquire(). *)
acquire(s, c) ==
    \/ /\ current # 0 /\ rt[current].terminal # "no"       \* session_locked
       /\ slot' = [slot EXCEPT ![s] = Free]
       /\ UNCHANGED <<rt, opening>>
    \/ /\ current # 0 /\ rt[current].terminal = "no"
       /\ Take(s, IF rt[current].status = "disposing" THEN "disposing" ELSE "attach",
               c, current)
       /\ UNCHANGED <<rt, opening>>
    \/ /\ current = 0 /\ opening # 0
       /\ Take(s, "opening", c, opening)
       /\ UNCHANGED <<rt, opening>>
    \/ /\ current = 0 /\ opening = 0
       /\ LET r == CHOOSE n \in Runtimes : /\ rt[n].status = "none"
                                           /\ \A m \in 1..(n - 1) : rt[m].status # "none"
          IN  /\ rt' = [rt EXCEPT ![r].status = "opening"]
              /\ opening' = r
              /\ Take(s, "opening", c, r)

(* createSession() or openSession() returns, or throws. *)
OpenDone(r) ==
    /\ rt[r].status = "opening"
    /\ \/ /\ rt' = [rt EXCEPT ![r].status = IF closing THEN "discarding" ELSE "checking"]
          /\ UNCHANGED opening
       \/ /\ rt' = [rt EXCEPT ![r].status = "failed"]
          /\ opening' = 0
    /\ UNCHANGED <<conn, slot, current, srv, awaited, commands, raced>>

(* The first snapshot: the session is live, or its runtime is refused. *)
Checked(r) ==
    /\ rt[r].status = "checking"
    /\ \/ /\ rt' = [rt EXCEPT ![r].status = "live"]
          /\ current' = r /\ opening' = 0
       \/ /\ rt' = [rt EXCEPT ![r].status = "discarding"]
          /\ UNCHANGED <<current, opening>>
    /\ UNCHANGED <<conn, slot, srv, awaited, commands, raced>>

-----------------------------------------------------------------------------
(* Commands. *)

(* A command whose promise is settled resumes before anything else. *)
Resumes(s) ==
    LET r == slot[s].rt IN
    \/ slot[s].pc = "attach"
    \/ slot[s].pc = "disposing" /\ rt[r].status = "gone"
    \/ slot[s].pc = "opening" /\ rt[r].status \in {"failed", "live", "disposing", "gone"}
Pending == \E s \in Slots : Resumes(s)

(* attach(): a connection that has gone leaves the runtime to nobody. *)
Mutant_AttachLeaks(s) ==
    LET c == slot[s].conn  r == slot[s].rt  ready == conn[c].stage = "ready" IN
    /\ conn' = [conn EXCEPT ![c].has = @ \/ ready]
    /\ rt' = IF ready THEN [rt EXCEPT ![r].members = @ \cup {c}] ELSE rt
    /\ raced' = (raced \/ (ready /\ rt[r].status # "live"))
attach(s) ==
    LET c == slot[s].conn  r == slot[s].rt  ready == conn[c].stage = "ready" IN
    /\ conn' = [conn EXCEPT ![c].has = @ \/ ready]
    /\ rt' = IF ready THEN [rt EXCEPT ![r].members = @ \cup {c}] ELSE maybeDispose(rt, r)
    /\ raced' = (raced \/ (ready /\ rt[r].status # "live"))

Resume(s) ==
    /\ Resumes(s)
    /\ \/ /\ slot[s].pc = "disposing"
          /\ acquire(s, slot[s].conn)
          /\ UNCHANGED <<conn, raced>>
       \/ /\ slot[s].pc = "disposing" \/ rt[slot[s].rt].status = "failed"    \* it threw
          /\ slot' = [slot EXCEPT ![s] = Free]
          /\ UNCHANGED <<conn, rt, opening, raced>>
       \/ /\ slot[s].pc # "disposing" /\ rt[slot[s].rt].status # "failed"
          /\ attach(s)
          /\ slot' = [slot EXCEPT ![s] = Free]
          /\ UNCHANGED opening
    /\ reader' = NoConn
    /\ UNCHANGED <<current, srv, awaited, commands>>

(* A command of a ready connection, taken from a chunk of its own or from  *)
(* the one being dispatched.                                               *)
Dispatch(s, c) ==
    /\ conn[c].stage = "ready" /\ commands < MaxCommands
    /\ Pending => reader = c
    /\ slot[s] = Free /\ \A t \in Slots : t < s => slot[t] # Free
    /\ commands' = commands + 1 /\ reader' = c
    /\ UNCHANGED <<current, srv, awaited, raced>>

(* attach, and create, whose session is new *)
AttachCommand(s, c) ==
    /\ Dispatch(s, c)
    /\ acquire(s, c)
    /\ UNCHANGED conn

DetachCommand(s, c) ==
    LET left == [rt EXCEPT ![current].members = @ \ {c}] IN
    /\ Dispatch(s, c)
    /\ conn[c].has
    /\ conn' = [conn EXCEPT ![c].has = FALSE]
    /\ \/ /\ current = 0
          /\ UNCHANGED <<rt, slot>>
       \/ /\ current # 0 /\ left[current].members # {}     \* tell the others first
          /\ rt[current].terminal = "no" /\ rt[current].status = "live"
          /\ rt' = left
          /\ Take(s, "detach", c, current)
       \/ /\ current # 0
          /\ ~ (/\ left[current].members # {}
                /\ rt[current].terminal = "no" /\ rt[current].status = "live")
          /\ rt' = maybeDispose(left, current)
          /\ UNCHANGED slot
    /\ UNCHANGED opening

(* The snapshot of a detach was sent, or failed. *)
DetachDone(s) ==
    /\ slot[s].pc = "detach"
    /\ rt' \in {rt, maybeDispose(rt, slot[s].rt)}
    /\ slot' = [slot EXCEPT ![s] = Free]
    /\ UNCHANGED <<conn, current, opening, srv, awaited, commands, raced>>

(* requireAttached *)
requireAttached(c) ==
    /\ conn[c].has /\ current # 0
    /\ rt[current].terminal = "no" /\ rt[current].status = "live"

(* prompt, steer, abort, set_model and set_thinking: runOperation *)
Mutant_Uncounted(s, c) ==
    /\ Dispatch(s, c)
    /\ requireAttached(c)
    /\ Take(s, "operation", c, current)
    /\ UNCHANGED <<conn, opening, rt>>
OperationCommand(s, c) ==
    /\ Dispatch(s, c)
    /\ requireAttached(c)
    /\ rt' = [rt EXCEPT ![current].ops = @ + 1]
    /\ Take(s, "operation", c, current)
    /\ UNCHANGED <<conn, opening>>

OperationDone(s) ==
    LET r == slot[s].rt IN
    /\ slot[s].pc = "operation"
    /\ rt' = maybeDispose([rt EXCEPT ![r].ops = @ - 1], r)
    /\ slot' = [slot EXCEPT ![s] = Free]
    /\ UNCHANGED <<conn, current, opening, srv, awaited, commands, raced>>

-----------------------------------------------------------------------------
(* The runtime, seen through its phase and its events. *)

(* A prompt has been accepted and goes on after its command. *)
RuntimeWorks(r) ==
    /\ rt[r].status = "live" /\ rt[r].ops > 0 /\ ~ rt[r].busy
    /\ rt' = [rt EXCEPT ![r].busy = TRUE]
    /\ UNCHANGED <<conn, slot, current, opening, srv, awaited, commands, raced>>

(* The work ends, and handleRuntimeEvent hears of it while subscribed. *)
RuntimeIdles(r) ==
    LET idle == [rt EXCEPT ![r].busy = FALSE] IN
    /\ rt[r].busy
    /\ rt' = IF rt[r].status = "live" /\ rt[r].terminal = "no" THEN maybeDispose(idle, r)
             ELSE idle
    /\ UNCHANGED <<conn, slot, current, opening, srv, awaited, commands, raced>>

(* A terminal error: terminate() closes the transports of the attached      *)
(* connections, disconnects them and disposes the runtime.                  *)
terminate(r) ==
    /\ rt[r].status = "live" /\ rt[r].terminal = "no"
    /\ rt' = [rt EXCEPT ![r].terminal = "closing", ![r].doomed = rt[r].members]
    /\ conn' = [c \in Conns |-> IF c \in rt[r].members /\ conn[c].stage # "closed"
                                THEN [conn[c] EXCEPT !.stage = "closing"] ELSE conn[c]]
    /\ UNCHANGED <<slot, current, opening, srv, awaited, commands, raced>>

terminateDone(r) ==
    /\ rt[r].terminal = "closing"
    /\ \A c \in rt[r].doomed : conn[c].stage = "closed"
    /\ rt' = maybeDispose([rt EXCEPT ![r].terminal = "done", ![r].doomed = {}], r)
    /\ UNCHANGED <<conn, slot, current, opening, srv, awaited, commands, raced>>

-----------------------------------------------------------------------------
(* Connections. *)

Stage(c, from, to) ==
    /\ conn[c].stage \in from
    /\ conn' = [conn EXCEPT ![c].stage = to]
    /\ UNCHANGED <<slot, rt, current, opening, srv, awaited, commands, raced>>

accept(c) == ~ closing /\ Stage(c, {"new"}, "awaitingHello")
hello(c) == Stage(c, {"awaitingHello"}, "handshaking")
finishHandshake(c) == ~ closing /\ Stage(c, {"handshaking"}, "ready")

(* The handshake times out, or a frame is refused: failProtocol(). *)
failProtocol(c) == Stage(c, {"awaitingHello", "handshaking", "ready"}, "closing")

Mutant_DisconnectKeepsMember(c) ==
    /\ conn[c].stage \notin {"new", "closed"}
    /\ conn' = [conn EXCEPT ![c] = [stage |-> "closed", has |-> FALSE]]
    /\ UNCHANGED <<rt, slot, current, opening, srv, awaited, commands, raced>>
(* The transport closes, or has been closed: disconnect(). *)
disconnect(c) ==
    /\ conn[c].stage \notin {"new", "closed"}
    /\ conn' = [conn EXCEPT ![c] = [stage |-> "closed", has |-> FALSE]]
    /\ rt' = IF conn[c].has /\ current # 0
             THEN maybeDispose([rt EXCEPT ![current].members = @ \ {c}], current)
             ELSE rt
    /\ UNCHANGED <<slot, current, opening, srv, awaited, commands, raced>>

-----------------------------------------------------------------------------
(* PiServer.close(): listeners, then connections, then the sessions. *)

close ==
    /\ srv = "up" /\ srv' = "listeners"
    /\ UNCHANGED <<conn, slot, rt, current, opening, awaited, commands, raced>>

closeConnections ==
    /\ srv = "listeners" /\ srv' = "connections"
    /\ conn' = [c \in Conns |-> IF conn[c].stage \in {"new", "closed"} THEN conn[c]
                                ELSE [conn[c] EXCEPT !.stage = "closing"]]
    /\ UNCHANGED <<slot, rt, current, opening, awaited, commands, raced>>

awaitOpenings ==
    /\ srv = "connections" /\ \A c \in Conns : conn[c].stage \in {"new", "closed"}
    /\ srv' = "openings" /\ awaited' = opening
    /\ UNCHANGED <<conn, slot, rt, current, opening, commands, raced>>

Mutant_CloseMaybeDisposes ==
    /\ srv = "openings"
    /\ awaited # 0 => rt[awaited].status \notin {"opening", "checking", "discarding"}
    /\ srv' = "disposing" /\ awaited' = current /\ current' = 0
    /\ rt' = IF current # 0 THEN maybeDispose(rt, current) ELSE rt
    /\ UNCHANGED <<conn, slot, opening, commands, raced>>
disposeLive ==
    /\ srv = "openings"
    /\ awaited # 0 => rt[awaited].status \notin {"opening", "checking", "discarding"}
    /\ srv' = "disposing" /\ awaited' = current /\ current' = 0
    /\ rt' = IF current # 0 /\ rt[current].status = "live"
             THEN [rt EXCEPT ![current].status = "disposing"] ELSE rt
    /\ UNCHANGED <<conn, slot, opening, commands, raced>>

closed ==
    /\ srv = "disposing" /\ (awaited # 0 => rt[awaited].status = "gone")
    /\ srv' = "closed"
    /\ UNCHANGED <<conn, slot, rt, current, opening, awaited, commands, raced>>

-----------------------------------------------------------------------------
(* The specification. *)

Service(r) == OpenDone(r) \/ Checked(r) \/ DisposeDone(r)
Runtime(r) == RuntimeWorks(r) \/ RuntimeIdles(r) \/ terminate(r) \/ terminateDone(r)
Settles(s) == DetachDone(s) \/ OperationDone(s)
Closing == closeConnections \/ awaitOpenings \/ disposeLive \/ closed

(* What starts with an event of the outside. *)
Event ==
    /\ ~ Pending /\ reader' = NoConn
    /\ \/ \E r \in Runtimes : Service(r) \/ Runtime(r)
       \/ \E s \in Slots : Settles(s)
       \/ \E c \in Conns : accept(c) \/ hello(c) \/ finishHandshake(c)
                           \/ failProtocol(c) \/ disconnect(c)
       \/ close \/ Closing

Command(s, c) == AttachCommand(s, c) \/ DetachCommand(s, c) \/ OperationCommand(s, c)

Next ==
    \/ \E s \in Slots : Resume(s)
    \/ \E s \in Slots, c \in Conns : Command(s, c)
    \/ Event

Spec == Init /\ [][Next]_vars

Fire(A) == A /\ ~ Pending /\ reader' = NoConn

(* Promises that are settled resume, and the service, the transports being  *)
(* closed and the operations settle theirs.                                 *)
FairSpec ==
    /\ Spec
    /\ \A s \in Slots : WF_vars(Resume(s)) /\ WF_vars(Fire(Settles(s)))
    /\ \A r \in Runtimes : WF_vars(Fire(Service(r))) /\ WF_vars(Fire(terminateDone(r)))
    /\ \A c \in Conns : WF_vars(conn[c].stage = "closing" /\ Fire(disconnect(c)))
    /\ WF_vars(Fire(Closing))

-----------------------------------------------------------------------------
(* Properties. *)

Held == {r \in Runtimes : rt[r].status \notin {"none", "failed", "gone"}}

(* What the service sees of the session: who holds it, and what runs on it. *)
Phase ==
    IF Held = {} THEN "free"
    ELSE CASE \E r \in Held : rt[r].status \in {"opening", "checking"} -> "acquiring"
           [] \E r \in Held : rt[r].status = "live" -> "held"
           [] OTHER -> "releasing"
Work ==
    IF \E r \in Held : rt[r].status = "live"
    THEN rt[CHOOSE r \in Held : rt[r].status = "live"].ops ELSE 0

(* The server keeps the contract of its service: it never opens a session   *)
(* that it still holds, however attaches, failures, disposals and close()   *)
(* interleave, and runs operations on live runtimes only.                   *)
Contract == INSTANCE ExclusiveRuntime WITH phase <- Phase, work <- Work, shut <- closing
ImplementsContract == Contract!Spec

(* Work is not lost: "keeps busy work alive after disconnect": a runtime    *)
(* at work, or in an operation of whichever connection, is neither disposed *)
(* nor being disposed unless it failed or the server closes.                *)
WorkIsKept ==
    ~ closing => \A r \in Runtimes :
        /\ rt[r].ops > 0 => rt[r].status = "live"
        /\ rt[r].busy => rt[r].status = "live" \/ rt[r].terminal # "no"

(* Nor is a runtime leaked: one that nobody uses is being disposed, or a    *)
(* command that is about to attach to it will see to it.                    *)
NoLeakedRuntime ==
    \A r \in Runtimes : Unused(rt, r) =>
        \/ \E s \in Slots : Resumes(s) /\ slot[s].rt = r
        \/ rt[r].terminal = "closing"

(* A connection that the server lets operate on the session is one that the *)
(* runtime's events are sent to, and the other way round: attaching,        *)
(* detaching, failures and reopening keep the two sets the same. Attaching  *)
(* to a runtime that is already being disposed is excepted: then the        *)
(* connection holds the session id without being told of anything.          *)
AttachmentsAgree ==
    ~ raced /\ current # 0 =>
        \A c \in Conns : conn[c].has <=> c \in rt[current].members

(* No command and no close() waits for ever: acquire() waits for a disposal *)
(* or an opening that somebody else started, close() for both; and a closed *)
(* server has given up every runtime, one acquired meanwhile included.      *)
NothingHangs ==
    /\ \A s \in Slots : slot[s].pc # "free" ~> slot[s].pc = "free"
    /\ closing ~> [](srv = "closed" /\ Held = {})
=============================================================================
