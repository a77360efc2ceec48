----------------------------- MODULE AgentLoop -----------------------------
(***************************************************************************)
(* The agent: the stateful Agent of packages/agent/src/agent.ts around the *)
(* turn loop of packages/agent/src/agent-loop.ts.                          *)
(*                                                                         *)
(* A step is the code between two awaits.  Callers (prompt, continue,      *)
(* steer, followUp, clear, abort, reset) and tools interleave at every     *)
(* await.  Every event goes through processEvents: the state is reduced    *)
(* first, then the listeners are awaited, and a listener may throw, which  *)
(* unwinds the whole loop into handleRunFailure.                           *)
(***************************************************************************)
EXTENDS Naturals, Sequences, FiniteSets

CONSTANTS
    MaxMsgs,       \* user messages handed to prompt, steer and followUp
    MaxRuns,       \* runs started by prompt and continue
    MaxToolTurns,  \* provider answers that ask for tools
    MaxCalls,      \* tool calls of one assistant message
    MaxThrows,     \* exceptions thrown by listeners, hooks and the provider
    QueueModes,    \* the drain modes the queues may be switched to
    ToolModes      \* the execution modes a batch may get

ASSUME BoundsAssumption ==
    /\ MaxMsgs \in Nat /\ MaxRuns \in Nat /\ MaxToolTurns \in Nat
    /\ MaxCalls \in Nat /\ MaxThrows \in Nat
    /\ QueueModes \subseteq {"all", "one-at-a-time"} /\ QueueModes # {}
    /\ ToolModes \subseteq {"sequential", "parallel"} /\ ToolModes # {}

VARIABLES
    \* Agent state
    messages, streamingMessage, pendingToolCalls, errorMessage,
    steeringQueue, followUpQueue,
    activeRun, aborted,
    \* the run in progress: where it awaits, and its local variables
    pc, loop,
    \* tool executions whose run has failed under them
    orphans,
    \* counters and history
    issued, run, turn, toolTurns, throws,
    cleared, interrupted, executed, marks, exit

agentState == <<messages, streamingMessage, pendingToolCalls, errorMessage>>
queues     == <<steeringQueue, followUpQueue>>
runState   == <<activeRun, aborted, run>>
history    == <<cleared, executed, marks, exit>>
vars == <<agentState, queues, runState, pc, loop, orphans,
          issued, turn, toolTurns, throws, interrupted, history>>

-----------------------------------------------------------------------------
(* Messages: what the loop and the transcript tell apart. *)

None == [role |-> "none"]
User(id, via) == [role |-> "user", id |-> id, via |-> via]
Assistant(t, r, n, s) ==
    [role |-> "assistant", id |-> t, run |-> r, calls |-> n, stopReason |-> s]
ToolResult(t, i) == [role |-> "toolResult", id |-> t, call |-> i]

Vias == {"prompt", "steer", "followUp"}
FailedStops == {"error", "aborted"}
StopReasons == FailedStops \cup {"stop", "length", "partial"}
MaxTurns == MaxToolTurns + MaxMsgs + MaxRuns
UserMessage == [role : {"user"}, id : 1..MaxMsgs, via : Vias]
AssistantMessage ==
    [role : {"assistant"}, id : 0..MaxTurns, run : 1..MaxRuns,
     calls : 0..MaxCalls, stopReason : StopReasons]
ToolResultMessage ==
    [role : {"toolResult"}, id : 1..MaxTurns, call : 1..MaxCalls]
Message == UserMessage \cup AssistantMessage \cup ToolResultMessage

IsAssistant(m) == m.role = "assistant"

(* A tool call of the current batch. *)
Waiting == [status |-> "waiting", terminate |-> FALSE]
CallStatus == {"waiting", "started", "prepared", "running", "settled", "done"}
Call == [status : CallStatus, terminate : BOOLEAN]

(* The locals of runLoop and of the function it awaits. *)
NoLoop == [context |-> <<>>, newMessages |-> <<>>, prompts |-> <<>>,
           pending |-> <<>>, firstTurn |-> TRUE, hasMore |-> TRUE,
           skipPoll |-> FALSE, message |-> None, mode |-> "none",
           calls |-> <<>>, next |-> 1, reason |-> "none"]

-----------------------------------------------------------------------------
(* processEvents: reduce the state for an event. Listeners come after.     *)
(* Definitions named Mutant_... are plausible wrong versions of the        *)
(* definition that follows them; no specification uses them.               *)

Event(type) == [type |-> type, message |-> None, call |-> <<0, 0>>]
MessageStart(m) == [Event("message_start") EXCEPT !.message = m]
MessageEnd(m)   == [Event("message_end") EXCEPT !.message = m]
TurnEndEvent(m) == [Event("turn_end") EXCEPT !.message = m]
ToolStartEvent(c) == [Event("tool_execution_start") EXCEPT !.call = c]
ToolEndEvent(c)   == [Event("tool_execution_end") EXCEPT !.call = c]

Mutant_PendingKept(e) ==
    IF e.type = "tool_execution_start" THEN pendingToolCalls \cup {e.call}
                                       ELSE pendingToolCalls
PendingAfter(e) ==
    CASE e.type = "tool_execution_start" -> pendingToolCalls \cup {e.call}
      [] e.type = "tool_execution_end" -> pendingToolCalls \ {e.call}
      [] OTHER -> pendingToolCalls

processEvents(e) ==
    /\ messages' = IF e.type = "message_end" THEN Append(messages, e.message)
                                             ELSE messages
    /\ streamingMessage' =
         CASE e.type = "message_start" -> e.message
           [] e.type \in {"message_end", "agent_end"} -> None
           [] OTHER -> streamingMessage
    /\ pendingToolCalls' = PendingAfter(e)
    /\ errorMessage' =
         (errorMessage \/ (e.type = "turn_end" /\ e.message.stopReason \in FailedStops))

-----------------------------------------------------------------------------
(* Control: continue the loop at a new await, or unwind into the failure   *)
(* handler with the locals lost and unfinished parallel tools orphaned.    *)

Goto(label) == pc' = label /\ UNCHANGED <<throws, interrupted, orphans>>

Running(l) == {i \in DOMAIN l.calls : l.calls[i].status = "running"}

(* An exception raised while call `by` of a batch was at work, or by the   *)
(* loop itself (by = 0): Promise.all rejects at once, and the other        *)
(* executions of the batch go on.                                          *)
Throw(by) ==
    /\ throws < MaxThrows
    /\ throws' = throws + 1
    /\ interrupted' = interrupted \cup {run}
    /\ orphans' = IF pc = "parallel"
                  THEN orphans \cup {<<loop.message.id, i>> :
                                        i \in Running(loop) \ {by}}
                  ELSE orphans
    /\ pc' = "failStart"
    /\ loop' = [NoLoop EXCEPT !.reason = "failed", !.message =
                  Assistant(0, run, 0, IF aborted THEN "aborted" ELSE "error")]

(* Emit an event from the loop: the state is reduced, and either all       *)
(* listeners return and the loop goes on, or one throws.                   *)
Emit(e, label, locals) ==
    /\ processEvents(e)
    /\ \/ Goto(label) /\ loop' = locals
       \/ Throw(0)

-----------------------------------------------------------------------------
(* PendingMessageQueue *)

Mutant_EnqueueFront(q, m) == <<m>> \o q
enqueue(q, m) == Append(q, m)

Mutant_DrainedUnguarded(q, mode) ==
    IF mode = "all" THEN q ELSE IF q = <<>> THEN <<None>> ELSE <<Head(q)>>
Drained(q, mode) == IF mode = "all" \/ q = <<>> THEN q ELSE <<Head(q)>>

Mutant_DrainKeeps(q, mode) == IF mode = "all" THEN <<>> ELSE q
AfterDrain(q, mode) == IF mode = "all" \/ q = <<>> THEN <<>> ELSE Tail(q)

-----------------------------------------------------------------------------
(* The public operations of Agent.  prompt, continue and reset throw while *)
(* a run is active and change nothing then, which is no step.              *)

steer ==
    /\ issued < MaxMsgs
    /\ issued' = issued + 1
    /\ steeringQueue' = enqueue(steeringQueue, User(issued', "steer"))
    /\ UNCHANGED <<agentState, followUpQueue, runState, pc, loop, orphans,
                   turn, toolTurns, throws, interrupted, history>>

followUp ==
    /\ issued < MaxMsgs
    /\ issued' = issued + 1
    /\ followUpQueue' = enqueue(followUpQueue, User(issued', "followUp"))
    /\ UNCHANGED <<agentState, steeringQueue, runState, pc, loop, orphans,
                   turn, toolTurns, throws, interrupted, history>>

Ids(q) == {q[i].id : i \in DOMAIN q}

clearQueues(clearSteering, clearFollowUp) ==
    /\ steeringQueue' = IF clearSteering THEN <<>> ELSE steeringQueue
    /\ followUpQueue' = IF clearFollowUp THEN <<>> ELSE followUpQueue
    /\ cleared' = cleared \cup (IF clearSteering THEN Ids(steeringQueue) ELSE {})
                          \cup (IF clearFollowUp THEN Ids(followUpQueue) ELSE {})
    /\ UNCHANGED <<agentState, runState, pc, loop, orphans, issued, turn,
                   toolTurns, throws, interrupted, executed, marks, exit>>

abort ==
    /\ activeRun
    /\ ~aborted
    /\ aborted' = TRUE
    /\ interrupted' = interrupted \cup {run}
    /\ UNCHANGED <<agentState, queues, activeRun, run, pc, loop, orphans, issued,
                   turn, toolTurns, throws, history>>

reset ==
    /\ ~activeRun
    /\ messages' = <<>>
    /\ streamingMessage' = None
    /\ pendingToolCalls' = {}
    /\ errorMessage' = FALSE
    /\ steeringQueue' = <<>>
    /\ followUpQueue' = <<>>
    /\ cleared' = cleared \cup Ids(steeringQueue) \cup Ids(followUpQueue)
                          \cup {messages[i].id : i \in {j \in DOMAIN messages : messages[j].role = "user"}}
    /\ exit' = "none"
    /\ UNCHANGED <<runState, pc, loop, orphans, issued, turn, toolTurns, throws,
                   interrupted, executed, marks>>

(* runWithLifecycle up to the first await of the executor.  The context is *)
(* the snapshot of the transcript followed by the prompts.                 *)
runWithLifecycle(prompts, skip) ==
    /\ run < MaxRuns
    /\ run' = run + 1
    /\ activeRun' = TRUE
    /\ aborted' = FALSE
    /\ streamingMessage' = None
    /\ errorMessage' = FALSE
    /\ loop' = [NoLoop EXCEPT !.context = messages \o prompts, !.newMessages = prompts,
                              !.prompts = prompts, !.skipPoll = skip]
    /\ pc' = "agentStart"
    /\ exit' = "none"
    /\ UNCHANGED <<messages, pendingToolCalls, orphans, turn, toolTurns, throws,
                   interrupted, cleared, executed, marks>>

prompt ==
    /\ ~activeRun
    /\ issued < MaxMsgs
    /\ issued' = issued + 1
    /\ runWithLifecycle(<<User(issued', "prompt")>>, FALSE)
    /\ UNCHANGED queues

(* continue(): from an assistant message the queues supply the prompts,    *)
(* steering first and without the initial poll; from any other message the *)
(* loop runs on the transcript as it is.                                   *)
continue ==
    /\ ~activeRun
    /\ messages # <<>>
    /\ UNCHANGED issued
    /\ \/ /\ IsAssistant(messages[Len(messages)])
          /\ steeringQueue # <<>>
          /\ \E mode \in QueueModes :
               /\ steeringQueue' = AfterDrain(steeringQueue, mode)
               /\ runWithLifecycle(Drained(steeringQueue, mode), TRUE)
          /\ UNCHANGED followUpQueue
       \/ /\ IsAssistant(messages[Len(messages)])
          /\ steeringQueue = <<>>
          /\ followUpQueue # <<>>
          /\ \E mode \in QueueModes :
               /\ followUpQueue' = AfterDrain(followUpQueue, mode)
               /\ runWithLifecycle(Drained(followUpQueue, mode), FALSE)
          /\ UNCHANGED steeringQueue
       \/ /\ ~IsAssistant(messages[Len(messages)])
          /\ runWithLifecycle(<<>>, FALSE)
          /\ UNCHANGED queues

Caller ==
    \/ steer \/ followUp \/ abort \/ reset \/ prompt \/ continue
    \/ clearQueues(TRUE, FALSE) \/ clearQueues(FALSE, TRUE) \/ clearQueues(TRUE, TRUE)

-----------------------------------------------------------------------------
(* The loop: from the start of the run to the first provider request.      *)

LoopFrame == UNCHANGED <<queues, runState, issued, turn, toolTurns,
                         cleared, executed, marks, exit>>

AgentStart ==
    /\ pc = "agentStart"
    /\ Emit(Event("agent_start"), "firstTurnStart", loop)
    /\ LoopFrame

PromptLabel(prompts) == IF prompts = <<>> THEN "pollSteering" ELSE "promptStart"

FirstTurnStart ==
    /\ pc = "firstTurnStart"
    /\ Emit(Event("turn_start"), PromptLabel(loop.prompts), loop)
    /\ LoopFrame

PromptMessageStart ==
    /\ pc = "promptStart"
    /\ Emit(MessageStart(Head(loop.prompts)), "promptEnd", loop)
    /\ LoopFrame

PromptMessageEnd ==
    /\ pc = "promptEnd"
    /\ Emit(MessageEnd(Head(loop.prompts)), PromptLabel(Tail(loop.prompts)),
            [loop EXCEPT !.prompts = Tail(@)])
    /\ LoopFrame

InjectLabel(pending) == IF pending = <<>> THEN "stream" ELSE "injectStart"

Mutant_InnerIgnoresPending(l) ==
    IF l.hasMore THEN IF l.firstTurn THEN InjectLabel(l.pending) ELSE "turnStart"
                 ELSE "pollFollowUp"
(* The condition of the inner loop, and the turn_start it begins with. *)
InnerLabel(l) ==
    IF l.hasMore \/ l.pending # <<>>
    THEN IF l.firstTurn THEN InjectLabel(l.pending) ELSE "turnStart"
    ELSE "pollFollowUp"

(* getSteeringMessages, before the first turn and after each turn. *)
PollSteering ==
    /\ pc = "pollSteering"
    /\ \/ /\ loop.skipPoll
          /\ loop' = [loop EXCEPT !.skipPoll = FALSE, !.firstTurn = FALSE]
          /\ Goto(InnerLabel(loop))
          /\ UNCHANGED <<steeringQueue, marks>>
       \/ /\ ~loop.skipPoll
          /\ \E mode \in QueueModes :
               LET l == [loop EXCEPT !.pending = Drained(steeringQueue, mode)] IN
               /\ steeringQueue' = AfterDrain(steeringQueue, mode)
               /\ loop' = [l EXCEPT !.firstTurn = FALSE]
               /\ Goto(InnerLabel(l))
          /\ marks' = [marks EXCEPT !.steering = issued]
    /\ UNCHANGED <<agentState, followUpQueue, runState, issued, turn, toolTurns,
                   cleared, executed, exit>>

TurnStart ==
    /\ pc = "turnStart"
    /\ Emit(Event("turn_start"), InjectLabel(loop.pending), loop)
    /\ LoopFrame

InjectStart ==
    /\ pc = "injectStart"
    /\ Emit(MessageStart(Head(loop.pending)), "injectEnd", loop)
    /\ LoopFrame

InjectEnd ==
    /\ pc = "injectEnd"
    /\ LET m == Head(loop.pending) IN
       Emit(MessageEnd(m), InjectLabel(Tail(loop.pending)),
            [loop EXCEPT !.pending = Tail(@), !.context = Append(@, m),
                         !.newMessages = Append(@, m)])
    /\ LoopFrame

-----------------------------------------------------------------------------
(* streamAssistantResponse.  The provider is external: it answers with any *)
(* number of calls and any stop reason, "aborted" only after an abort.     *)

Answers ==
    {Assistant(turn + 1, run, n, s) :
        n \in IF toolTurns < MaxToolTurns THEN 0..MaxCalls ELSE {0},
        s \in {"stop", "length", "error"} \cup (IF aborted THEN {"aborted"} ELSE {})}

Answered(m) ==
    /\ turn' = m.id
    /\ toolTurns' = IF m.calls = 0 THEN toolTurns ELSE toolTurns + 1

(* "start": a partial message joins the context. *)
StreamPartial ==
    /\ pc = "stream"
    /\ LET partial == Assistant(turn + 1, run, 0, "partial") IN
       Emit(MessageStart(partial), "streaming", [loop EXCEPT !.context = Append(@, partial)])
    /\ LoopFrame

(* No partial was seen: the final message is announced first. *)
StreamWhole ==
    /\ pc = "stream"
    /\ \E m \in Answers :
         /\ Answered(m)
         /\ Emit(MessageStart(m), "answerEnd",
                 [loop EXCEPT !.context = Append(@, m), !.message = m])
    /\ UNCHANGED <<queues, runState, issued, cleared, executed, marks, exit>>

(* "done" or "error": the final message replaces the partial one. *)
StreamFinal ==
    /\ pc = "streaming"
    /\ \E m \in Answers :
         /\ Answered(m)
         /\ loop' = [loop EXCEPT !.context[Len(loop.context)] = m, !.message = m]
    /\ Goto("answerEnd")
    /\ UNCHANGED <<agentState, queues, runState, issued, history>>

(* The request, a conversion hook or a listener of an update throws. *)
StreamThrows ==
    /\ pc \in {"stream", "streaming"}
    /\ Throw(0)
    /\ UNCHANGED <<agentState, queues, runState, issued, turn, toolTurns, history>>

(* What runLoop does with the answer once its message_end is out. *)
AfterAnswer(l, mode) ==
    LET m == l.message IN
    [l EXCEPT !.newMessages = Append(@, m), !.mode = mode, !.next = 1, !.hasMore = FALSE,
              !.calls = IF m.stopReason \in FailedStops THEN <<>>
                        ELSE [i \in 1..m.calls |-> Waiting],
              !.reason = IF m.stopReason \in FailedStops THEN "error" ELSE @]

Mutant_TruncatedRuns(m) == ToolModes
BatchModes(m) == IF m.stopReason = "length" THEN {"truncated"} ELSE ToolModes

AnswerEnd ==
    /\ pc = "answerEnd"
    /\ \E mode \in BatchModes(loop.message) :
         LET l == AfterAnswer(loop, mode) IN
         Emit(MessageEnd(loop.message),
              IF l.calls = <<>> THEN "turnEnd" ELSE "toolStart", l)
    /\ LoopFrame

-----------------------------------------------------------------------------
(* Tool calls.  loop.next is the call the loop is at.                      *)

Current == <<loop.message.id, loop.next>>
WithStatus(l, i, status) == [l EXCEPT !.calls[i].status = status]
Finalized(l, i, status, terminate) ==
    [l EXCEPT !.calls[i] = [status |-> status, terminate |-> terminate]]

ToolStart ==
    /\ pc = "toolStart"
    /\ Emit(ToolStartEvent(Current),
            IF loop.mode = "truncated" THEN "toolEnd" ELSE "prepare",
            WithStatus(loop, loop.next, IF loop.mode = "truncated" THEN "settled" ELSE "started"))
    /\ LoopFrame

(* prepareToolCall: an immediate outcome (unknown tool, invalid arguments, *)
(* a hook that throws, blocks or comes back to an aborted run), or a call  *)
(* ready to execute.                                                       *)
PrepareToolCall ==
    /\ pc = "prepare"
    /\ \/ /\ \E terminate \in IF aborted THEN {FALSE} ELSE BOOLEAN :
               loop' = Finalized(loop, loop.next, "settled", terminate)
          /\ Goto("toolEnd")
       \/ /\ ~aborted
          /\ loop' = WithStatus(loop, loop.next, "prepared")
          /\ Goto(IF loop.mode = "sequential" THEN "execute" ELSE "advance")
    /\ UNCHANGED <<agentState, queues, runState, issued, turn, toolTurns, history>>

(* Sequential execution of the call, its afterToolCall hook included.      *)
Execute ==
    /\ pc = "execute"
    /\ loop' = WithStatus(loop, loop.next, "running")
    /\ executed' = executed \cup {Current}
    /\ Goto("executing")
    /\ UNCHANGED <<agentState, queues, runState, issued, turn, toolTurns,
                   cleared, marks, exit>>

ExecuteSettles ==
    /\ pc = "executing"
    /\ \/ /\ \E terminate \in BOOLEAN :
               loop' = Finalized(loop, loop.next, "settled", terminate)
          /\ Goto("toolEnd")
       \/ Throw(0)   \* a listener of tool_execution_update threw
    /\ UNCHANGED <<agentState, queues, runState, issued, turn, toolTurns, history>>

(* tool_execution_end of a call the loop itself finalizes. *)
ToolEnd ==
    /\ pc = "toolEnd"
    /\ Emit(ToolEndEvent(Current),
            IF loop.mode = "parallel" THEN "advance" ELSE "resultStart",
            WithStatus(loop, loop.next, "done"))
    /\ LoopFrame

shouldTerminateToolBatch(calls) ==
    calls # <<>> /\ \A i \in DOMAIN calls : calls[i].terminate

Mutant_ResultsForgotten(l) ==
    LET results == [i \in DOMAIN l.calls |-> ToolResult(l.message.id, i)] IN
    [l EXCEPT !.newMessages = @ \o results,
              !.hasMore = l.mode = "truncated" \/ ~shouldTerminateToolBatch(l.calls)]
(* The batch is over: its results join the context. *)
BatchDone(l) ==
    LET results == [i \in DOMAIN l.calls |-> ToolResult(l.message.id, i)] IN
    [l EXCEPT !.context = @ \o results, !.newMessages = @ \o results,
              !.hasMore = l.mode = "truncated" \/ ~shouldTerminateToolBatch(l.calls)]

(* The end of the body of the call loop: the next call, or, after the last *)
(* one or an abort, the end of a sequential batch or the start of every    *)
(* call prepared for a parallel one.                                       *)
Mutant_LastCallEarly == loop.next + 1 >= Len(loop.calls)
LastCall == loop.next = Len(loop.calls) \/ (aborted /\ loop.mode # "truncated")

Mutant_UnstartedAwaited(l) == l.calls
(* finalizedCalls holds the calls the loop came to, not the later ones. *)
FinalizedCalls(l) == SubSeq(l.calls, 1, l.next)

Advance ==
    /\ pc = "advance"
    /\ LET cut == [loop EXCEPT !.calls = FinalizedCalls(loop)] IN
       \/ /\ ~LastCall
          /\ loop' = [loop EXCEPT !.next = @ + 1]
          /\ Goto("toolStart")
          /\ UNCHANGED executed
       \/ /\ LastCall /\ loop.mode # "parallel"
          /\ loop' = BatchDone(cut)
          /\ Goto("turnEnd")
          /\ UNCHANGED executed
       \/ /\ LastCall /\ loop.mode = "parallel"
          /\ LET ready == {i \in DOMAIN cut.calls : cut.calls[i].status = "prepared"} IN
             /\ loop' = [cut EXCEPT !.calls = [i \in DOMAIN cut.calls |->
                            IF i \in ready THEN [Waiting EXCEPT !.status = "running"]
                                           ELSE cut.calls[i]]]
             /\ executed' = executed \cup {<<loop.message.id, i>> : i \in ready}
          /\ Goto("parallel")
    /\ UNCHANGED <<agentState, queues, runState, issued, turn, toolTurns,
                   cleared, marks, exit>>

(* A parallel execution completes: finalized, then announced. *)
ParallelCompletes(i) ==
    /\ pc = "parallel"
    /\ i \in Running(loop)
    /\ \E terminate \in BOOLEAN :
         \/ /\ processEvents(ToolEndEvent(<<loop.message.id, i>>))
            /\ \/ Goto("parallel") /\ loop' = Finalized(loop, i, "done", terminate)
               \/ Throw(i)
         \/ Throw(i) /\ UNCHANGED agentState   \* an update listener
    /\ LoopFrame

(* Promise.all has every outcome, in source order. *)
ParallelDone ==
    /\ pc = "parallel"
    /\ \A i \in DOMAIN loop.calls : loop.calls[i].status = "done"
    /\ loop' = [loop EXCEPT !.next = 1]
    /\ Goto("resultStart")
    /\ UNCHANGED <<agentState, queues, runState, issued, turn, toolTurns, history>>

ResultStart ==
    /\ pc = "resultStart"
    /\ Emit(MessageStart(ToolResult(loop.message.id, loop.next)), "resultEnd", loop)
    /\ LoopFrame

ResultEnd ==
    /\ pc = "resultEnd"
    /\ LET e == MessageEnd(ToolResult(loop.message.id, loop.next)) IN
       \/ loop.mode # "parallel" /\ Emit(e, "advance", loop)
       \/ /\ loop.mode = "parallel" /\ loop.next < Len(loop.calls)
          /\ Emit(e, "resultStart", [loop EXCEPT !.next = @ + 1])
       \/ /\ loop.mode = "parallel" /\ loop.next = Len(loop.calls)
          /\ Emit(e, "turnEnd", BatchDone(loop))
    /\ LoopFrame

(* An execution left behind by a failed run completes.  Its event reaches  *)
(* whatever run is active by then; when none is, processEvents throws      *)
(* after it has reduced the state, and nobody awaits the promise.          *)
OrphanCompletes(o) ==
    /\ processEvents(ToolEndEvent(o))
    /\ orphans' = orphans \ {o}
    /\ UNCHANGED <<queues, runState, pc, loop, issued, turn, toolTurns, throws,
                   interrupted, cleared, executed, marks, exit>>

-----------------------------------------------------------------------------
(* The end of a turn, of the run, and the failure handler.                 *)

TurnEnd ==
    /\ pc = "turnEnd"
    /\ Emit(TurnEndEvent(loop.message),
            IF loop.reason = "error" THEN "agentEnd" ELSE "afterTurn", loop)
    /\ LoopFrame

(* prepareNextTurn, then shouldStopAfterTurn. *)
AfterTurn ==
    /\ pc = "afterTurn"
    /\ \/ Goto("pollSteering") /\ UNCHANGED loop
       \/ Goto("agentEnd") /\ loop' = [loop EXCEPT !.reason = "stopped"]
       \/ Throw(0)
    /\ UNCHANGED <<agentState, queues, runState, issued, turn, toolTurns, history>>

PollFollowUp ==
    /\ pc = "pollFollowUp"
    /\ \/ /\ followUpQueue = <<>>
          /\ loop' = [loop EXCEPT !.reason = "drained"]
          /\ Goto("agentEnd")
          /\ UNCHANGED followUpQueue
       \/ /\ followUpQueue # <<>>
          /\ \E mode \in QueueModes :
               /\ followUpQueue' = AfterDrain(followUpQueue, mode)
               /\ loop' = [loop EXCEPT !.pending = Drained(followUpQueue, mode),
                                       !.hasMore = TRUE]
          /\ Goto("turnStart")
    /\ marks' = [marks EXCEPT !.followUp = issued]
    /\ UNCHANGED <<agentState, steeringQueue, runState, issued, turn, toolTurns,
                   cleared, executed, exit>>

AgentEnd ==
    /\ pc = "agentEnd"
    /\ Emit(Event("agent_end"), "finish", loop)
    /\ LoopFrame

(* handleRunFailure: four events, any of which may throw out of it. *)
FailureEvents ==
    [failStart   |-> [event |-> MessageStart(loop.message), next |-> "failEnd"],
     failEnd     |-> [event |-> MessageEnd(loop.message), next |-> "failTurnEnd"],
     failTurnEnd |-> [event |-> TurnEndEvent(loop.message), next |-> "failAgentEnd"],
     failAgentEnd |-> [event |-> Event("agent_end"), next |-> "finish"]]

handleRunFailure ==
    /\ pc \in DOMAIN FailureEvents
    /\ processEvents(FailureEvents[pc].event)
    /\ \/ pc' = FailureEvents[pc].next /\ UNCHANGED throws
       \/ /\ throws < MaxThrows
          /\ throws' = throws + 1
          /\ pc' = "finish"
    /\ UNCHANGED <<loop, interrupted, orphans>>
    /\ LoopFrame

finishRun ==
    /\ pc = "finish"
    /\ activeRun' = FALSE
    /\ streamingMessage' = None
    /\ pendingToolCalls' = {}
    /\ pc' = "idle"
    /\ loop' = NoLoop
    /\ exit' = loop.reason
    /\ UNCHANGED <<messages, errorMessage, queues, aborted, run, orphans, issued, turn,
                   toolTurns, throws, interrupted, cleared, executed, marks>>

-----------------------------------------------------------------------------
Init ==
    /\ messages = <<>> /\ streamingMessage = None
    /\ pendingToolCalls = {} /\ errorMessage = FALSE
    /\ steeringQueue = <<>> /\ followUpQueue = <<>>
    /\ activeRun = FALSE /\ aborted = FALSE /\ run = 0
    /\ pc = "idle" /\ loop = NoLoop /\ orphans = {}
    /\ issued = 0 /\ turn = 0 /\ toolTurns = 0 /\ throws = 0
    /\ cleared = {} /\ interrupted = {} /\ executed = {}
    /\ marks = [steering |-> 0, followUp |-> 0] /\ exit = "none"

LoopStep ==
    \/ AgentStart \/ FirstTurnStart \/ PromptMessageStart \/ PromptMessageEnd
    \/ PollSteering \/ TurnStart \/ InjectStart \/ InjectEnd
    \/ StreamPartial \/ StreamWhole \/ StreamFinal \/ StreamThrows \/ AnswerEnd
    \/ ToolStart \/ PrepareToolCall \/ Execute \/ ExecuteSettles \/ ToolEnd
    \/ Advance \/ ParallelDone \/ ResultStart \/ ResultEnd
    \/ \E i \in 1..MaxCalls : ParallelCompletes(i)
    \/ TurnEnd \/ AfterTurn \/ PollFollowUp \/ AgentEnd
    \/ handleRunFailure \/ finishRun

Next ==
    \/ Caller
    \/ LoopStep
    \/ \E o \in orphans : OrphanCompletes(o)

Spec == Init /\ [][Next]_vars

(* The provider, the tools, the hooks and the listeners settle: every      *)
(* await of the loop returns.  Nothing is assumed of the callers.          *)
FairSpec == Spec /\ WF_vars(LoopStep)

-----------------------------------------------------------------------------
(* Properties *)

Labels ==
    {"idle", "agentStart", "firstTurnStart", "promptStart", "promptEnd", "pollSteering",
     "turnStart", "injectStart", "injectEnd", "stream", "streaming", "answerEnd",
     "toolStart", "prepare", "execute", "executing", "toolEnd", "advance", "parallel",
     "resultStart", "resultEnd", "turnEnd", "afterTurn", "pollFollowUp", "agentEnd",
     "failStart", "failEnd", "failTurnEnd", "failAgentEnd", "finish"}
Reasons == {"none", "drained", "stopped", "error", "failed"}
ToolCallId == (1..MaxTurns) \X (1..MaxCalls)

\* Every variable stays in its type, and a run is active exactly while the
\* loop is somewhere in runWithLifecycle.
TypeOK ==
    /\ \A i \in DOMAIN messages : messages[i] \in Message
    /\ streamingMessage \in Message \cup {None}
    /\ pendingToolCalls \subseteq ToolCallId
    /\ errorMessage \in BOOLEAN
    /\ \A q \in {steeringQueue, followUpQueue, loop.pending, loop.prompts} :
         \A i \in DOMAIN q : q[i] \in UserMessage
    /\ aborted \in BOOLEAN
    /\ pc \in Labels
    /\ activeRun = (pc # "idle")
    /\ \A i \in DOMAIN loop.calls : loop.calls[i] \in Call
    /\ loop.reason \in Reasons /\ exit \in Reasons
    /\ orphans \subseteq ToolCallId
    /\ issued \in 0..MaxMsgs /\ run \in 0..MaxRuns /\ turn \in 0..MaxTurns
    /\ throws \in 0..MaxThrows /\ toolTurns \in 0..MaxToolTurns

Occurrences(id, q) == Cardinality({i \in DOMAIN q : q[i].role = "user" /\ q[i].id = id})

\* A message given to prompt, steer or followUp is at every moment in one
\* place: a queue, the loop's hands, the transcript, or cleared by the caller.
\* It is never injected twice, and only an exception that unwinds the loop
\* between the drain of a queue and the message_end can lose it.
MessagesConserved ==
    \A id \in 1..issued :
        LET places == Occurrences(id, steeringQueue) + Occurrences(id, followUpQueue)
                      + Occurrences(id, loop.pending) + Occurrences(id, loop.prompts)
                      + Occurrences(id, messages) + (IF id \in cleared THEN 1 ELSE 0)
        IN /\ places <= 1
           /\ throws = 0 => places = 1

\* Messages that came in by the same door enter the transcript in the order
\* they were handed over, whatever mixture of drain modes is in force.
DeliveryOrder ==
    \A i, j \in DOMAIN messages :
        /\ i < j
        /\ messages[i].role = "user" /\ messages[j].role = "user"
        /\ messages[i].via = messages[j].via
        => messages[i].id < messages[j].id

\* Tool results follow their assistant message directly and in source order,
\* however the executions of a parallel batch complete; a finished turn of a
\* run that was neither aborted nor failed has a result for every call.
ToolResultsAnswerCalls ==
    /\ \A q \in DOMAIN messages :
         LET r == messages[q] IN
         r.role = "toolResult" =>
            /\ q > 1
            /\ IF r.call > 1 THEN messages[q - 1] = ToolResult(r.id, r.call - 1)
               ELSE LET a == messages[q - 1] IN
                    IsAssistant(a) /\ a.id = r.id /\ a.stopReason \notin FailedStops
    /\ \A p \in DOMAIN messages :
         LET a == messages[p] IN
         /\ IsAssistant(a) /\ a.stopReason \notin FailedStops /\ a.calls > 0
         /\ a.run \notin interrupted
         /\ loop.message = a => pc \in {"afterTurn", "agentEnd", "finish"}
         => p + a.calls <= Len(messages) /\ messages[p + a.calls] = ToolResult(a.id, a.calls)

\* What the provider is sent is the transcript: the loop's own context, kept
\* by pushes of its own, agrees with the messages the Agent reduced from the
\* events at every request and at the end of the run, and the messages the
\* run reports as new are the tail of that transcript.
ContextIsTranscript ==
    pc \in {"stream", "afterTurn", "pollFollowUp", "agentEnd"} /\ loop.reason # "failed" =>
        /\ loop.context = messages
        /\ loop.newMessages = SubSeq(messages, Len(messages) - Len(loop.newMessages) + 1,
                                     Len(messages))

\* When the agent is idle no message streams and no tool call is pending, and
\* errorMessage tells how the last run ended; between turns no call is pending
\* either, also when an abort cut a batch short.
SettledBetweenTurns ==
    /\ pc \in {"idle", "turnEnd", "afterTurn", "stream", "agentEnd"} => pendingToolCalls = {}
    /\ pc = "idle" => /\ streamingMessage = None
                      /\ exit = "error" => errorMessage
                      /\ exit \in {"drained", "stopped"} => ~errorMessage

\* No call of a message cut off by the token limit, or of a failed message,
\* was ever executed.
OnlyCompleteCallsExecute ==
    \A p \in DOMAIN messages :
        LET a == messages[p] IN
        IsAssistant(a) /\ a.stopReason # "stop" =>
            \A i \in 1..a.calls : <<a.id, i>> \notin executed

\* A run that ends because nothing is left to do leaves no message behind that
\* was queued when it last looked: what is still queued came in after that.
NoneLeftBehind ==
    pc = "idle" /\ exit = "drained" =>
        /\ \A id \in Ids(steeringQueue) : id > marks.steering
        /\ \A id \in Ids(followUpQueue) : id > marks.followUp

\* A run, once started, ends: the agent becomes idle again.
RunSettles == activeRun ~> ~activeRun
=============================================================================
