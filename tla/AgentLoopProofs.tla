-------------------------- MODULE AgentLoopProofs --------------------------
(***************************************************************************)
(* Proofs about AgentLoop, for any number of messages, runs, tool calls    *)
(* and exceptions.                                                         *)
(***************************************************************************)
EXTENDS AgentLoop, FiniteSetTheorems, SequenceTheorems, TLAPS

-----------------------------------------------------------------------------
(* The inductive invariant *)

Modes == {"none", "sequential", "parallel", "truncated"}
LoopType ==
    [context : Seq(Message), newMessages : Seq(Message),
     prompts : Seq(UserMessage), pending : Seq(UserMessage),
     firstTurn : BOOLEAN, hasMore : BOOLEAN, skipPoll : BOOLEAN,
     message : AssistantMessage \cup {None}, mode : Modes,
     calls : Seq(Call), next : Nat, reason : Reasons]

\* The variables, with the locals of the loop.
AgentType ==
    /\ messages \in Seq(Message) /\ streamingMessage \in Message \cup {None}
    /\ pendingToolCalls \subseteq ToolCallId /\ errorMessage \in BOOLEAN
QueueType ==
    /\ steeringQueue \in Seq(UserMessage) /\ followUpQueue \in Seq(UserMessage)
    /\ issued \in 0..MaxMsgs /\ marks \in [steering : 0..issued, followUp : 0..issued]
RunType ==
    /\ activeRun = (pc # "idle") /\ aborted \in BOOLEAN
    /\ run \in 0..MaxRuns /\ turn \in Nat
    /\ throws \in 0..MaxThrows /\ toolTurns \in 0..MaxToolTurns
TypeInv ==
    /\ AgentType /\ QueueType /\ RunType
    /\ pc \in Labels /\ loop \in LoopType /\ exit \in Reasons
    /\ orphans \subseteq ToolCallId

\* Where the loop is: on its way to the first request, to a request, in a batch
\* of tool calls, with an answer, or in the failure handler.
Starting == {"agentStart", "firstTurnStart", "promptStart", "promptEnd"}
Requesting == {"turnStart", "injectStart", "injectEnd", "stream", "streaming"}
Batch == {"toolStart", "prepare", "execute", "executing", "toolEnd", "advance", "parallel",
          "resultStart", "resultEnd"}
WithAnswer == Batch \cup {"answerEnd", "turnEnd", "afterTurn"}
Failing == {"failStart", "failEnd", "failTurnEnd", "failAgentEnd"}

\* What the loop holds at each await.
ControlInv ==
    /\ pc # "idle" => run >= 1
    /\ loop.prompts # <<>> => pc \in Starting
    /\ pc \in {"promptStart", "promptEnd"} => loop.prompts # <<>>
    /\ loop.pending # <<>> => pc \in {"turnStart", "injectStart", "injectEnd"}
    /\ pc \in {"injectStart", "injectEnd"} => loop.pending # <<>>
    /\ loop.skipPoll => pc \in Starting \cup {"pollSteering"} /\ loop.hasMore
    /\ pc \in Starting => loop.hasMore
    /\ pc \in WithAnswer =>
         /\ loop.message \in AssistantMessage
         /\ loop.message.id = turn /\ turn >= 1 /\ loop.message.run = run
         /\ loop.message.stopReason # "partial"
    /\ pc \in Failing =>
         /\ loop.message \in AssistantMessage
         /\ loop.message.id = 0 /\ loop.message.calls = 0
         /\ loop.message.stopReason \in FailedStops
    /\ pc \in {"turnEnd", "afterTurn"} /\ loop.hasMore => loop.message.calls > 0
    /\ pc = "finish" => loop.reason # "none"
    /\ pc = "agentEnd" => loop.reason \in {"drained", "stopped", "error"}
    /\ pc \in Failing => loop.reason = "failed"
    /\ pc = "turnEnd" => loop.reason = IF loop.message.stopReason \in FailedStops THEN "error"
                                       ELSE "none"
    /\ pc \notin Failing \cup {"turnEnd", "agentEnd", "finish"} => loop.reason = "none"
    /\ aborted => run \in interrupted
    /\ pc \in Failing => run \in interrupted

\* The calls of a batch: which are under way, done, or not come to yet.
UnderWay == {"started", "prepared", "running", "settled"}
Status(i) == loop.calls[i].status
CallsInv ==
    pc \in Batch =>
      /\ loop.message.stopReason \in {"stop", "length"}
      /\ loop.mode = "truncated" <=> loop.message.stopReason = "length"
      /\ loop.mode # "none"
      /\ loop.next \in 1..Len(loop.calls) /\ Len(loop.calls) <= loop.message.calls
      /\ Len(loop.calls) = loop.message.calls \/ aborted
      /\ pc \in {"execute", "executing"} => loop.mode = "sequential"
      /\ pc = "prepare" => loop.mode # "truncated"
      /\ pc = "parallel" => loop.mode = "parallel"
      /\ pc = "parallel" => \A i \in DOMAIN loop.calls : Status(i) \in {"running", "done"}
      /\ pc # "parallel" =>
           /\ \A i \in DOMAIN loop.calls : i < loop.next =>
                Status(i) \in {"done"} \cup (IF loop.mode = "parallel" THEN {"prepared"} ELSE {})
           /\ pc \notin {"resultStart", "resultEnd"} \/ loop.mode # "parallel" =>
                \A i \in DOMAIN loop.calls : i > loop.next => Status(i) = "waiting"
      /\ Status(loop.next) \in
           CASE pc = "toolStart" -> {"waiting"}
             [] pc = "prepare" -> {"started"}
             [] pc = "execute" -> {"prepared"}
             [] pc = "executing" -> {"running"}
             [] pc = "toolEnd" -> {"settled"}
             [] pc = "advance" -> {"done"} \cup (IF loop.mode = "parallel" THEN {"prepared"} ELSE {})
             [] pc = "parallel" -> {"running", "done"}
             [] OTHER -> {"done"}
      /\ pc \in {"resultStart", "resultEnd"} /\ loop.mode = "parallel" =>
           \A i \in DOMAIN loop.calls : Status(i) = "done"

\* The calls that the agent shows as pending are those under way, and none
\* outside a batch; what a failed run left running belongs to an earlier turn.
PendingInv ==
    /\ pc \in Batch =>
         pendingToolCalls = {<<loop.message.id, i>> : i \in {j \in DOMAIN loop.calls : Status(j) \in UnderWay}}
    /\ pc \notin Batch \cup Failing \cup {"finish"} => pendingToolCalls = {}
    /\ pc \in {"agentEnd"} => pendingToolCalls = {}
    /\ \A o \in orphans : o[1] <= turn /\ (pc \in WithAnswer => o[1] < turn)

\* errorMessage tells a failed answer.
ErrorInv ==
    /\ pc = "idle" => streamingMessage = None
    /\ pc \notin Failing \cup {"idle", "agentEnd", "finish"} => ~ errorMessage
    /\ pc \in {"agentEnd", "finish"} =>
         /\ loop.reason = "error" => errorMessage
         /\ loop.reason \in {"drained", "stopped"} => ~ errorMessage
    /\ pc = "idle" => /\ exit = "error" => errorMessage
                      /\ exit \in {"drained", "stopped"} => ~ errorMessage

\* What the loop found in the queues when it looked last.
MarksInv ==
    /\ \/ pc = "pollFollowUp"
       \/ pc \in {"agentEnd", "finish"} /\ loop.reason = "drained"
       \/ pc = "idle" /\ exit = "drained"
       => \A i \in DOMAIN steeringQueue : steeringQueue[i].id > marks.steering
    /\ \/ pc \in {"agentEnd", "finish"} /\ loop.reason = "drained"
       \/ pc = "idle" /\ exit = "drained"
       => \A i \in DOMAIN followUpQueue : followUpQueue[i].id > marks.followUp

\* Every request has a reason: a run, a queued message or an answer with calls.
Owed ==
    IF \/ pc \in Starting \cup Requesting
       \/ pc = "pollSteering" /\ loop.hasMore
       \/ pc \in WithAnswer /\ loop.message.calls > 0
    THEN 1 ELSE 0
TurnsInv ==
    turn + Owed + Len(steeringQueue) + Len(followUpQueue) <= run + toolTurns + issued

CoreInv ==
    TypeInv /\ ControlInv /\ CallsInv /\ PendingInv /\ ErrorInv /\ MarksInv /\ TurnsInv

-----------------------------------------------------------------------------
(* Events *)

\* What an event does to the state of the agent.
Quiet == UNCHANGED agentState
Starts(m) == streamingMessage' = m /\ UNCHANGED <<messages, pendingToolCalls, errorMessage>>
Ends(m) ==
    /\ messages' = Append(messages, m) /\ streamingMessage' = None
    /\ UNCHANGED <<pendingToolCalls, errorMessage>>
EndsTurn(m) ==
    /\ errorMessage' = (errorMessage \/ m.stopReason \in FailedStops)
    /\ UNCHANGED <<messages, streamingMessage, pendingToolCalls>>
EndsRun == streamingMessage' = None /\ UNCHANGED <<messages, pendingToolCalls, errorMessage>>
StartsCall(c) ==
    /\ pendingToolCalls' = pendingToolCalls \cup {c}
    /\ UNCHANGED <<messages, streamingMessage, errorMessage>>
EndsCall(c) ==
    /\ pendingToolCalls' = pendingToolCalls \ {c}
    /\ UNCHANGED <<messages, streamingMessage, errorMessage>>

\* processEvents, event by event.
LEMMA Reduces ==
    ASSUME TypeInv
    PROVE  /\ processEvents(Event("agent_start")) => Quiet
           /\ processEvents(Event("turn_start")) => Quiet
           /\ processEvents(Event("agent_end")) => EndsRun
           /\ \A m : processEvents(MessageStart(m)) => Starts(m)
           /\ \A m : processEvents(MessageEnd(m)) => Ends(m)
           /\ \A m : processEvents(TurnEndEvent(m)) => EndsTurn(m)
           /\ \A c : processEvents(ToolStartEvent(c)) => StartsCall(c)
           /\ \A c : processEvents(ToolEndEvent(c)) => EndsCall(c)
  <1> USE DEF processEvents, PendingAfter, Event
  <1>0. errorMessage \in BOOLEAN
    BY DEF TypeInv, AgentType
  <1>1. processEvents(Event("agent_start")) => Quiet
    BY <1>0 DEF Quiet, agentState
  <1>2. processEvents(Event("turn_start")) => Quiet
    BY <1>0 DEF Quiet, agentState
  <1>3. processEvents(Event("agent_end")) => EndsRun
    BY <1>0 DEF EndsRun
  <1>4. \A m : processEvents(MessageStart(m)) => Starts(m)
    BY <1>0 DEF Starts, MessageStart
  <1>5. \A m : processEvents(MessageEnd(m)) => Ends(m)
    BY <1>0 DEF Ends, MessageEnd
  <1>6. \A m : processEvents(TurnEndEvent(m)) => EndsTurn(m)
    BY <1>0 DEF EndsTurn, TurnEndEvent
  <1>7. \A c : processEvents(ToolStartEvent(c)) => StartsCall(c)
    BY <1>0 DEF StartsCall, ToolStartEvent
  <1>8. \A c : processEvents(ToolEndEvent(c)) => EndsCall(c)
    BY <1>0 DEF EndsCall, ToolEndEvent
  <1> QED
    BY <1>1, <1>2, <1>3, <1>4, <1>5, <1>6, <1>7, <1>8

\* The messages that the loop makes.
LEMMA MakesMessages ==
    /\ \A id \in 1..MaxMsgs, via \in Vias :
         /\ User(id, via) \in UserMessage /\ User(id, via).id = id
         /\ User(id, via).via = via /\ User(id, via).role = "user"
    /\ \A t \in 0..MaxTurns, r \in 1..MaxRuns, n \in 0..MaxCalls, s \in StopReasons :
         /\ Assistant(t, r, n, s) \in AssistantMessage
         /\ Assistant(t, r, n, s).id = t /\ Assistant(t, r, n, s).run = r
         /\ Assistant(t, r, n, s).calls = n /\ Assistant(t, r, n, s).stopReason = s
    /\ \A t \in 1..MaxTurns, i \in 1..MaxCalls :
         /\ ToolResult(t, i) \in ToolResultMessage /\ ToolResult(t, i).id = t
         /\ ToolResult(t, i).call = i /\ ToolResult(t, i).role = "toolResult"
    /\ \A m \in UserMessage : m.role = "user" /\ m.id \in 1..MaxMsgs /\ m.via \in Vias
    /\ \A m \in AssistantMessage :
         /\ m.role = "assistant" /\ m.id \in 0..MaxTurns /\ m.run \in 1..MaxRuns
         /\ m.calls \in 0..MaxCalls /\ m.stopReason \in StopReasons
    /\ \A m \in ToolResultMessage : m.role = "toolResult"
    /\ UserMessage \subseteq Message /\ AssistantMessage \subseteq Message
    /\ ToolResultMessage \subseteq Message
    /\ MaxTurns \in Nat /\ MaxTurns = MaxToolTurns + MaxMsgs + MaxRuns
  BY BoundsAssumption DEF User, UserMessage, Assistant, AssistantMessage, ToolResult, ToolResultMessage,
                          Message, MaxTurns

\* The locals before a run.
LEMMA NoLoopType ==
    /\ NoLoop \in LoopType
    /\ NoLoop.context = <<>> /\ NoLoop.newMessages = <<>> /\ NoLoop.prompts = <<>>
    /\ NoLoop.pending = <<>> /\ NoLoop.skipPoll = FALSE /\ NoLoop.hasMore = TRUE
    /\ NoLoop.reason = "none"
  <1>1. <<>> \in Seq(Message) /\ <<>> \in Seq(UserMessage) /\ <<>> \in Seq(Call)
    OBVIOUS
  <1>2. "none" \in Modes /\ "none" \in Reasons /\ None \in AssistantMessage \cup {None} /\ 1 \in Nat
    BY DEF Modes, Reasons
  <1> QED
    BY <1>1, <1>2 DEF NoLoop, LoopType

-----------------------------------------------------------------------------
(* Steps of the loop, and exceptions *)

USE DEF Starting, Requesting, Batch, WithAnswer, Failing

\* The state of the agent keeps its type.
LEMMA EventTypes ==
    ASSUME TypeInv
    PROVE  /\ Quiet => AgentType'
           /\ EndsRun => AgentType'
           /\ \A m \in Message : (Starts(m) => AgentType') /\ (Ends(m) => AgentType')
           /\ \A m : EndsTurn(m) => AgentType'
           /\ \A c \in ToolCallId : StartsCall(c) => AgentType'
           /\ \A c : EndsCall(c) => AgentType'
  <1> USE DEF AgentType
  <1>1. AgentType
    BY DEF TypeInv
  <1>2. Quiet => AgentType'
    BY <1>1 DEF Quiet, agentState
  <1>3. EndsRun => AgentType'
    BY <1>1 DEF EndsRun
  <1>4. ASSUME NEW m \in Message PROVE (Starts(m) => AgentType') /\ (Ends(m) => AgentType')
    BY <1>1 DEF Starts, Ends
  <1>5. ASSUME NEW m, EndsTurn(m) PROVE AgentType'
    <2>1. errorMessage' \in BOOLEAN
      BY <1>5 DEF EndsTurn
    <2> QED
      BY <1>1, <1>5, <2>1 DEF EndsTurn
  <1>6. ASSUME NEW c \in ToolCallId, StartsCall(c) PROVE AgentType'
    BY <1>1, <1>6 DEF StartsCall
  <1>7. ASSUME NEW c, EndsCall(c) PROVE AgentType'
    BY <1>1, <1>7 DEF EndsCall
  <1> QED
    BY <1>2, <1>3, <1>4, <1>5, <1>6, <1>7

\* The loop goes on at another await.
Moves(label, locals) ==
    /\ Goto(label) /\ loop' = locals /\ UNCHANGED <<runState, exit>>

\* The loop is unwound: whatever the event was, the failure handler starts.
Looping == pc \notin Failing \cup {"idle", "finish"}
Unwinds ==
    /\ \E by : Throw(by)
    /\ Looping /\ AgentType'
    /\ UNCHANGED <<queues, runState, issued, cleared, executed, marks, exit>>
    /\ turn' \in turn..(turn + Owed) /\ toolTurns' \in toolTurns..MaxToolTurns

\* An event is emitted: the loop goes on or is unwound.
LEMMA Emits ==
    ASSUME TypeInv, NEW e, NEW label, NEW locals, Emit(e, label, locals), LoopFrame,
           AgentType', Looping
    PROVE  Unwinds \/ Moves(label, locals)
  <1>1. UNCHANGED <<queues, runState, issued, cleared, executed, marks, exit, turn, toolTurns>>
    BY DEF LoopFrame
  <1>2. CASE Throw(0)
    <2>1. turn \in Nat /\ toolTurns \in 0..MaxToolTurns /\ Owed \in {0, 1}
      BY DEF TypeInv, RunType, Owed
    <2>2. turn' \in turn..(turn + Owed) /\ toolTurns' \in toolTurns..MaxToolTurns
      BY <1>1, <2>1, BoundsAssumption
    <2> QED
      BY <1>1, <1>2, <2>2 DEF Unwinds
  <1>3. CASE Goto(label) /\ loop' = locals
    BY <1>1, <1>3 DEF Moves
  <1> QED
    BY <1>2, <1>3 DEF Emit

\* What is left to show of types.
LEMMA MovesType ==
    ASSUME TypeInv, pc # "idle", NEW label \in Labels \ {"idle"}, NEW locals \in LoopType,
           Moves(label, locals), AgentType', QueueType', turn' \in Nat, toolTurns' \in 0..MaxToolTurns
    PROVE  TypeInv' /\ pc' = label
  <1>1. pc' = label /\ UNCHANGED <<throws, orphans, exit, activeRun, aborted, run>> /\ loop' = locals
    BY DEF Moves, Goto, runState
  <1>2. RunType'
    BY <1>1 DEF RunType, TypeInv
  <1> QED
    BY <1>1, <1>2 DEF TypeInv

\* A step of the loop that takes nothing from the queues.
LEMMA FrameType == ASSUME TypeInv, LoopFrame PROVE QueueType' /\ turn' \in Nat /\ toolTurns' \in 0..MaxToolTurns
  BY DEF TypeInv, QueueType, RunType, LoopFrame, queues

\* An exception keeps the invariant.
LEMMA UnwindsKeeps == ASSUME CoreInv, Unwinds PROVE CoreInv'
  <1>1. TypeInv /\ ControlInv /\ CallsInv /\ PendingInv /\ TurnsInv
    BY DEF CoreInv
  <1>2. /\ pc' = "failStart" /\ interrupted' = interrupted \cup {run} /\ throws' \in 0..MaxThrows
        /\ loop' = [NoLoop EXCEPT !.reason = "failed", !.message =
                      Assistant(0, run, 0, IF aborted THEN "aborted" ELSE "error")]
    BY <1>1, BoundsAssumption DEF Unwinds, Throw, TypeInv, RunType
  <1>3. run \in 1..MaxRuns /\ turn' \in Nat /\ turn' >= turn /\ toolTurns' \in 0..MaxToolTurns
    BY <1>1, BoundsAssumption DEF Unwinds, Looping, TypeInv, RunType, ControlInv, Owed
  <1> DEFINE s == IF aborted THEN "aborted" ELSE "error"
  <1> DEFINE m == Assistant(0, run, 0, s)
  <1>4. s \in FailedStops /\ s \in StopReasons
    BY DEF StopReasons, FailedStops
  <1> HIDE DEF s
  <1>5. m \in AssistantMessage /\ m.id = 0 /\ m.calls = 0 /\ m.stopReason \in FailedStops
    BY <1>3, <1>4, MakesMessages, BoundsAssumption
  <1>6. loop' = [NoLoop EXCEPT !.reason = "failed", !.message = m]
    BY <1>2 DEF s
  <1> HIDE DEF m
  <1>7. loop' \in LoopType
    BY <1>6, <1>5, NoLoopType DEF LoopType, Reasons
  <1>8. /\ loop'.prompts = <<>> /\ loop'.pending = <<>> /\ loop'.skipPoll = FALSE
        /\ loop'.message = m /\ loop'.reason = "failed"
    BY <1>6, NoLoopType DEF LoopType
  <1>9. orphans' \subseteq ToolCallId /\ \A o \in orphans' : o[1] <= turn
    <2>1. CASE pc = "parallel"
      <3>1. /\ loop.message.id = turn /\ turn \in 1..MaxTurns
            /\ loop.message.calls \in 0..MaxCalls
        BY <1>1, <2>1, MakesMessages DEF TypeInv, RunType, LoopType, ControlInv
      <3>2. Len(loop.calls) <= loop.message.calls /\ loop.calls \in Seq(Call)
        BY <1>1, <2>1 DEF TypeInv, LoopType, CallsInv
      <3>3. \A i \in Running(loop) : i \in 1..MaxCalls
        BY <3>1, <3>2, BoundsAssumption DEF Running
      <3>4. PICK by : orphans' = orphans \cup {<<loop.message.id, i>> : i \in Running(loop) \ {by}}
        BY <2>1 DEF Unwinds, Throw
      <3> QED
        BY <1>1, <3>1, <3>3, <3>4 DEF TypeInv, PendingInv, ToolCallId, RunType
    <2>2. CASE pc # "parallel"
      BY <1>1, <2>2 DEF Unwinds, Throw, TypeInv, PendingInv
    <2> QED
      BY <2>1, <2>2
  <1>10. TypeInv'
    <2>1. QueueType'
      BY <1>1 DEF QueueType, TypeInv, Unwinds, queues
    <2>2. RunType'
      BY <1>1, <1>2, <1>3 DEF RunType, TypeInv, Unwinds, Looping, runState
    <2> QED
      BY <1>1, <1>2, <1>7, <1>9, <2>1, <2>2 DEF TypeInv, Unwinds, Labels
  <1>11. ControlInv'
    BY <1>1, <1>2, <1>3, <1>5, <1>8 DEF ControlInv, Unwinds, runState
  <1>12. CallsInv' /\ ErrorInv' /\ MarksInv'
    BY <1>2 DEF CallsInv, ErrorInv, MarksInv
  <1>13. PendingInv'
    BY <1>1, <1>2, <1>3, <1>9 DEF PendingInv, TypeInv, RunType, ToolCallId
  <1>14. TurnsInv'
    <2>1. Owed' = 0 /\ Owed \in {0, 1}
      BY <1>2 DEF Owed
    <2>2. /\ Len(steeringQueue) \in Nat /\ Len(followUpQueue) \in Nat
          /\ turn \in Nat /\ run \in Nat /\ toolTurns \in Nat /\ issued \in Nat
      BY <1>1, BoundsAssumption DEF TypeInv, QueueType, RunType
    <2>3. /\ Len(steeringQueue)' = Len(steeringQueue) /\ Len(followUpQueue)' = Len(followUpQueue)
          /\ run' = run /\ issued' = issued
      BY DEF Unwinds, queues, runState
    <2>4. turn' \in turn..(turn + Owed) /\ toolTurns' \in toolTurns..MaxToolTurns
      BY DEF Unwinds
    <2> QED
      BY <1>1, <1>3, <2>1, <2>2, <2>3, <2>4, BoundsAssumption DEF TurnsInv
  <1> QED
    BY <1>10, <1>11, <1>12, <1>13, <1>14 DEF CoreInv

-----------------------------------------------------------------------------
(* Steps that leave the locals of the loop alone *)

\* From one await to the next.
WalksTo(label) ==
    \/ pc = "agentStart" /\ label = "firstTurnStart"
    \/ pc = "firstTurnStart" /\ label = PromptLabel(loop.prompts)
    \/ pc = "promptStart" /\ label = "promptEnd"
    \/ pc = "turnStart" /\ label = InjectLabel(loop.pending)
    \/ pc = "injectStart" /\ label = "injectEnd"
    \/ pc = "resultStart" /\ label = "resultEnd"
    \/ pc = "resultEnd" /\ loop.mode # "parallel" /\ label = "advance"
    \/ pc = "afterTurn" /\ label = "pollSteering"
    \/ pc = "agentEnd" /\ label = "finish"
    \/ pc = "turnEnd" /\ label = IF loop.reason = "error" THEN "agentEnd" ELSE "afterTurn"
Walks ==
    /\ \E label : WalksTo(label) /\ Moves(label, loop)
    /\ LoopFrame /\ AgentType' /\ pendingToolCalls' = pendingToolCalls
    /\ errorMessage' = (errorMessage \/ (pc = "turnEnd" /\ loop.message.stopReason \in FailedStops))

\* They keep the invariant.
LEMMA WalksKeeps == ASSUME CoreInv, Walks PROVE CoreInv'
  <1>1. TypeInv /\ ControlInv /\ CallsInv /\ PendingInv /\ TurnsInv /\ ErrorInv /\ MarksInv
    BY DEF CoreInv
  <1>2. PICK label : WalksTo(label) /\ Moves(label, loop)
    BY DEF Walks
  <1>3. label \in Labels \ {"idle"} /\ pc # "idle"
    BY <1>2 DEF WalksTo, Labels, PromptLabel, InjectLabel
  <1>4. LoopFrame /\ AgentType' /\ pendingToolCalls' = pendingToolCalls
    BY DEF Walks
  <1>5. TypeInv' /\ pc' = label
    BY <1>1, <1>2, <1>3, <1>4, MovesType, FrameType DEF TypeInv
  <1>6. /\ loop' = loop /\ UNCHANGED <<run, aborted, exit, interrupted, orphans, throws>>
        /\ UNCHANGED <<steeringQueue, followUpQueue, issued, turn, toolTurns, marks>>
    BY <1>2, <1>4 DEF Moves, Goto, runState, LoopFrame, queues
  <1>7. ControlInv'
    BY <1>1, <1>2, <1>5, <1>6 DEF ControlInv, WalksTo, PromptLabel, InjectLabel
  <1>8. CallsInv'
    BY <1>1, <1>2, <1>5, <1>6 DEF CallsInv, Status, WalksTo, PromptLabel, InjectLabel
  <1>9. PendingInv'
    BY <1>1, <1>2, <1>4, <1>5, <1>6 DEF PendingInv, Status, WalksTo, PromptLabel, InjectLabel
  <1>10. ErrorInv'
    <2>1. errorMessage \in BOOLEAN
      BY <1>1 DEF TypeInv, AgentType
    <2>2. CASE pc # "turnEnd"
      <3>1. errorMessage' = errorMessage
        BY <2>1, <2>2 DEF Walks
      <3> QED
        BY <1>1, <1>2, <1>5, <1>6, <2>2, <3>1 DEF ErrorInv, ControlInv, WalksTo, PromptLabel, InjectLabel
    <2>3. CASE pc = "turnEnd"
      <3>1. errorMessage' = (loop.message.stopReason \in FailedStops)
        BY <1>1, <2>1, <2>3 DEF Walks, ErrorInv
      <3>2. loop.reason = IF loop.message.stopReason \in FailedStops THEN "error" ELSE "none"
        BY <1>1, <2>3 DEF ControlInv
      <3> QED
        BY <1>2, <1>5, <1>6, <2>3, <3>1, <3>2 DEF ErrorInv, WalksTo
    <2> QED
      BY <2>2, <2>3
  <1>11. MarksInv'
    BY <1>1, <1>2, <1>5, <1>6 DEF MarksInv, ControlInv, WalksTo, PromptLabel, InjectLabel
  <1>12. TurnsInv'
    <2>1. Owed' = Owed \/ (Owed' = 0 /\ Owed = 1)
      BY <1>1, <1>2, <1>5, <1>6 DEF Owed, WalksTo, PromptLabel, InjectLabel, ControlInv
    <2> QED
      BY <1>1, <1>6, <2>1 DEF TurnsInv, TypeInv, QueueType, RunType
  <1> QED
    BY <1>5, <1>7, <1>8, <1>9, <1>10, <1>11, <1>12 DEF CoreInv

\* The actions of that kind.
LEMMA AgentStartWalks == ASSUME CoreInv, AgentStart PROVE Unwinds \/ Walks
  <1>1. TypeInv /\ pc = "agentStart" /\ LoopFrame /\ Emit(Event("agent_start"), "firstTurnStart", loop)
    BY DEF CoreInv, AgentStart
  <1>2. Quiet
    BY <1>1, Reduces DEF Emit
  <1>3. AgentType'
    BY <1>1, <1>2, EventTypes
  <1>4. Unwinds \/ Moves("firstTurnStart", loop)
    BY <1>1, <1>3, Emits DEF Looping
  <1> QED
    BY <1>1, <1>2, <1>3, <1>4 DEF Walks, WalksTo, Quiet, agentState, TypeInv, AgentType

\* The loop's hands hold messages of users.
LEMMA HandsHold ==
    ASSUME CoreInv
    PROVE  /\ loop.prompts # <<>> => /\ Head(loop.prompts) \in UserMessage
                                     /\ Head(loop.prompts) \in Message
                                     /\ Tail(loop.prompts) \in Seq(UserMessage)
           /\ loop.pending # <<>> => /\ Head(loop.pending) \in UserMessage
                                     /\ Head(loop.pending) \in Message
                                     /\ Tail(loop.pending) \in Seq(UserMessage)
  <1>1. loop.prompts \in Seq(UserMessage) /\ loop.pending \in Seq(UserMessage)
    BY DEF CoreInv, TypeInv, LoopType
  <1>2. UserMessage \subseteq Message
    BY MakesMessages
  <1> QED
    BY <1>1, <1>2

\* The call that the loop is at.
LEMMA AtCall ==
    ASSUME CoreInv, pc \in Batch
    PROVE  /\ loop.message \in AssistantMessage /\ loop.message.id = turn /\ turn \in 1..MaxTurns
           /\ loop.calls \in Seq(Call) /\ loop.next \in 1..Len(loop.calls)
           /\ Len(loop.calls) \in 1..MaxCalls
           /\ \A i \in 1..Len(loop.calls) : /\ <<loop.message.id, i>> \in ToolCallId
                                            /\ ToolResult(loop.message.id, i) \in Message
           /\ Current \in ToolCallId
  <1>1. /\ loop.message \in AssistantMessage /\ loop.message.id = turn /\ turn >= 1
        /\ loop.next \in 1..Len(loop.calls) /\ Len(loop.calls) <= loop.message.calls
        /\ loop.calls \in Seq(Call)
    BY DEF CoreInv, ControlInv, CallsInv, TypeInv, LoopType
  <1>2. turn \in 1..MaxTurns /\ loop.message.calls \in 0..MaxCalls
    BY <1>1, MakesMessages
  <1>3. Len(loop.calls) \in 1..MaxCalls
    BY <1>1, <1>2, BoundsAssumption
  <1>4. \A i \in 1..Len(loop.calls) : i \in 1..MaxCalls
    BY <1>3, BoundsAssumption
  <1>5. \A i \in 1..MaxCalls : ToolResult(loop.message.id, i) \in Message
    BY <1>1, <1>2, MakesMessages
  <1> QED
    BY <1>1, <1>2, <1>3, <1>4, <1>5 DEF ToolCallId, Current

\* turn_start of the first turn.
LEMMA FirstTurnStartWalks == ASSUME CoreInv, FirstTurnStart PROVE Unwinds \/ Walks
  <1>1. TypeInv /\ pc = "firstTurnStart" /\ LoopFrame /\ Emit(Event("turn_start"), PromptLabel(loop.prompts), loop)
    BY DEF CoreInv, FirstTurnStart
  <1>2. Quiet
    BY <1>1, Reduces DEF Emit
  <1>3. AgentType'
    BY <1>1, <1>2, EventTypes
  <1>4. Unwinds \/ Moves(PromptLabel(loop.prompts), loop)
    BY <1>1, <1>3, Emits DEF Looping
  <1> QED
    BY <1>1, <1>2, <1>3, <1>4 DEF Walks, WalksTo, Quiet, agentState, TypeInv, AgentType

\* message_start of a prompt.
LEMMA PromptMessageStartWalks == ASSUME CoreInv, PromptMessageStart PROVE Unwinds \/ Walks
  <1>1. TypeInv /\ pc = "promptStart" /\ LoopFrame /\ Emit(MessageStart(Head(loop.prompts)), "promptEnd", loop)
    BY DEF CoreInv, PromptMessageStart
  <1>2. Starts(Head(loop.prompts))
    BY <1>1, Reduces DEF Emit
  <1>2a. Head(loop.prompts) \in Message
    BY <1>1, HandsHold DEF CoreInv, ControlInv
  <1>3. AgentType'
    BY <1>1, <1>2, <1>2a, EventTypes
  <1>4. Unwinds \/ Moves("promptEnd", loop)
    BY <1>1, <1>3, Emits DEF Looping
  <1> QED
    BY <1>1, <1>2, <1>3, <1>4 DEF Walks, WalksTo, Starts, TypeInv, AgentType

\* turn_start of a later turn.
LEMMA TurnStartWalks == ASSUME CoreInv, TurnStart PROVE Unwinds \/ Walks
  <1>1. TypeInv /\ pc = "turnStart" /\ LoopFrame /\ Emit(Event("turn_start"), InjectLabel(loop.pending), loop)
    BY DEF CoreInv, TurnStart
  <1>2. Quiet
    BY <1>1, Reduces DEF Emit
  <1>3. AgentType'
    BY <1>1, <1>2, EventTypes
  <1>4. Unwinds \/ Moves(InjectLabel(loop.pending), loop)
    BY <1>1, <1>3, Emits DEF Looping
  <1> QED
    BY <1>1, <1>2, <1>3, <1>4 DEF Walks, WalksTo, Quiet, agentState, TypeInv, AgentType

\* message_start of a queued message.
LEMMA InjectStartWalks == ASSUME CoreInv, InjectStart PROVE Unwinds \/ Walks
  <1>1. TypeInv /\ pc = "injectStart" /\ LoopFrame /\ Emit(MessageStart(Head(loop.pending)), "injectEnd", loop)
    BY DEF CoreInv, InjectStart
  <1>2. Starts(Head(loop.pending))
    BY <1>1, Reduces DEF Emit
  <1>2a. Head(loop.pending) \in Message
    BY <1>1, HandsHold DEF CoreInv, ControlInv
  <1>3. AgentType'
    BY <1>1, <1>2, <1>2a, EventTypes
  <1>4. Unwinds \/ Moves("injectEnd", loop)
    BY <1>1, <1>3, Emits DEF Looping
  <1> QED
    BY <1>1, <1>2, <1>3, <1>4 DEF Walks, WalksTo, Starts, TypeInv, AgentType

\* message_start of a tool result.
LEMMA ResultStartWalks == ASSUME CoreInv, ResultStart PROVE Unwinds \/ Walks
  <1>1. TypeInv /\ pc = "resultStart" /\ LoopFrame /\ Emit(MessageStart(ToolResult(loop.message.id, loop.next)), "resultEnd", loop)
    BY DEF CoreInv, ResultStart
  <1>2. Starts(ToolResult(loop.message.id, loop.next))
    BY <1>1, Reduces DEF Emit
  <1>2a. ToolResult(loop.message.id, loop.next) \in Message
    BY <1>1, AtCall
  <1>3. AgentType'
    BY <1>1, <1>2, <1>2a, EventTypes
  <1>4. Unwinds \/ Moves("resultEnd", loop)
    BY <1>1, <1>3, Emits DEF Looping
  <1> QED
    BY <1>1, <1>2, <1>3, <1>4 DEF Walks, WalksTo, Starts, TypeInv, AgentType

\* agent_end.
LEMMA AgentEndWalks == ASSUME CoreInv, AgentEnd PROVE Unwinds \/ Walks
  <1>1. TypeInv /\ pc = "agentEnd" /\ LoopFrame /\ Emit(Event("agent_end"), "finish", loop)
    BY DEF CoreInv, AgentEnd
  <1>2. EndsRun
    BY <1>1, Reduces DEF Emit
  <1>3. AgentType'
    BY <1>1, <1>2, EventTypes
  <1>4. Unwinds \/ Moves("finish", loop)
    BY <1>1, <1>3, Emits DEF Looping
  <1> QED
    BY <1>1, <1>2, <1>3, <1>4 DEF Walks, WalksTo, EndsRun, TypeInv, AgentType

\* turn_end.
LEMMA TurnEndWalks == ASSUME CoreInv, TurnEnd PROVE Unwinds \/ Walks
  <1>1. TypeInv /\ pc = "turnEnd" /\ LoopFrame /\ Emit(TurnEndEvent(loop.message), IF loop.reason = "error" THEN "agentEnd" ELSE "afterTurn", loop)
    BY DEF CoreInv, TurnEnd
  <1>2. EndsTurn(loop.message)
    BY <1>1, Reduces DEF Emit
  <1>3. AgentType'
    BY <1>1, <1>2, EventTypes
  <1>4. Unwinds \/ Moves(IF loop.reason = "error" THEN "agentEnd" ELSE "afterTurn", loop)
    BY <1>1, <1>3, Emits DEF Looping
  <1> QED
    BY <1>1, <1>2, <1>3, <1>4 DEF Walks, WalksTo, EndsTurn, TypeInv, AgentType

\* Steps that throw without an event.
LEMMA ThrowUnwinds ==
    ASSUME TypeInv, NEW by, Throw(by), Looping,
           UNCHANGED <<agentState, queues, runState, issued, turn, toolTurns, history>>
    PROVE  Unwinds
  <1>1. UNCHANGED <<queues, runState, issued, cleared, executed, marks, exit, turn, toolTurns>>
    BY DEF history
  <1>2. turn \in Nat /\ toolTurns \in 0..MaxToolTurns /\ Owed \in {0, 1}
    BY DEF TypeInv, RunType, Owed
  <1>3. turn' \in turn..(turn + Owed) /\ toolTurns' \in toolTurns..MaxToolTurns
    BY <1>1, <1>2, BoundsAssumption
  <1>4. AgentType'
    BY EventTypes DEF Quiet
  <1> QED
    BY <1>1, <1>3, <1>4 DEF Unwinds

-----------------------------------------------------------------------------
(* Messages go out, and the provider answers *)

\* message_end of a prompt: it leaves the loop's hands.
LEMMA PromptMessageEndKeeps == ASSUME CoreInv, PromptMessageEnd PROVE Unwinds \/ CoreInv'
  <1> DEFINE label == PromptLabel(Tail(loop.prompts))
             locals == [loop EXCEPT !.prompts = Tail(@)]
  <1>1. /\ TypeInv /\ ControlInv /\ CallsInv /\ PendingInv /\ TurnsInv /\ ErrorInv
        /\ pc = "promptEnd" /\ LoopFrame /\ Emit(MessageEnd(Head(loop.prompts)), label, locals)
    BY DEF CoreInv, PromptMessageEnd
  <1>2. Ends(Head(loop.prompts))
    BY <1>1, Reduces DEF Emit
  <1>3. Head(loop.prompts) \in Message /\ Tail(loop.prompts) \in Seq(UserMessage)
    BY <1>1, HandsHold DEF ControlInv
  <1>4. AgentType'
    BY <1>1, <1>2, <1>3, EventTypes
  <1>5. Unwinds \/ Moves(label, locals)
    BY <1>1, <1>4, Emits DEF Looping
  <1>6. ASSUME Moves(label, locals) PROVE CoreInv'
    <2>1. locals \in LoopType /\ label \in Labels \ {"idle"}
      BY <1>1, <1>3 DEF TypeInv, LoopType, PromptLabel, Labels
    <2>2. TypeInv' /\ pc' = label
      BY <1>1, <1>4, <1>6, <2>1, MovesType, FrameType
    <2>3. /\ loop' = locals /\ UNCHANGED <<run, aborted, exit, interrupted, orphans, throws>>
          /\ UNCHANGED <<steeringQueue, followUpQueue, issued, turn, toolTurns, marks>>
          /\ UNCHANGED <<pendingToolCalls, errorMessage>>
      BY <1>1, <1>2, <1>6 DEF Moves, Goto, runState, LoopFrame, queues, Ends
    <2>4. /\ loop'.prompts = Tail(loop.prompts) /\ loop'.pending = loop.pending
          /\ loop'.skipPoll = loop.skipPoll /\ loop'.hasMore = loop.hasMore /\ loop'.reason = loop.reason
      BY <1>1, <2>3 DEF TypeInv, LoopType
    <2>5. ControlInv'
      BY <1>1, <2>2, <2>3, <2>4 DEF ControlInv, PromptLabel
    <2>6. CallsInv' /\ PendingInv' /\ ErrorInv' /\ MarksInv'
      BY <1>1, <2>2, <2>3 DEF CallsInv, PendingInv, ErrorInv, MarksInv, PromptLabel
    <2>7. Owed = 1 /\ Owed' = 1
      BY <1>1, <2>2, <2>4 DEF Owed, PromptLabel, ControlInv
    <2>8. TurnsInv'
      BY <1>1, <2>3, <2>7 DEF TurnsInv
    <2> QED
      BY <2>2, <2>5, <2>6, <2>8 DEF CoreInv
  <1> QED
    BY <1>5, <1>6

\* message_end of a queued message: it leaves the loop's hands.
LEMMA InjectEndKeeps == ASSUME CoreInv, InjectEnd PROVE Unwinds \/ CoreInv'
  <1> DEFINE m == Head(loop.pending)
             label == InjectLabel(Tail(loop.pending))
             locals == [loop EXCEPT !.pending = Tail(@), !.context = Append(@, m),
                                    !.newMessages = Append(@, m)]
  <1>1. /\ TypeInv /\ ControlInv /\ CallsInv /\ PendingInv /\ TurnsInv /\ ErrorInv
        /\ pc = "injectEnd" /\ LoopFrame /\ Emit(MessageEnd(m), label, locals)
    BY DEF CoreInv, InjectEnd
  <1>2. Ends(m)
    BY <1>1, Reduces DEF Emit
  <1>3. m \in Message /\ Tail(loop.pending) \in Seq(UserMessage)
    BY <1>1, HandsHold DEF ControlInv
  <1> HIDE DEF m
  <1>4. AgentType'
    BY <1>1, <1>2, <1>3, EventTypes
  <1>5. Unwinds \/ Moves(label, locals)
    BY <1>1, <1>4, Emits DEF Looping
  <1>6. ASSUME Moves(label, locals) PROVE CoreInv'
    <2>0. Append(loop.context, m) \in Seq(Message) /\ Append(loop.newMessages, m) \in Seq(Message)
      BY <1>1, <1>3 DEF TypeInv, LoopType
    <2>1. locals \in LoopType /\ label \in Labels \ {"idle"}
      BY <1>1, <1>3, <2>0 DEF TypeInv, LoopType, InjectLabel, Labels
    <2>2. TypeInv' /\ pc' = label
      BY <1>1, <1>4, <1>6, <2>1, MovesType, FrameType
    <2>3. /\ loop' = locals /\ UNCHANGED <<run, aborted, exit, interrupted, orphans, throws>>
          /\ UNCHANGED <<steeringQueue, followUpQueue, issued, turn, toolTurns, marks>>
          /\ UNCHANGED <<pendingToolCalls, errorMessage>>
      BY <1>1, <1>2, <1>6 DEF Moves, Goto, runState, LoopFrame, queues, Ends
    <2>4. /\ loop'.prompts = loop.prompts /\ loop'.pending = Tail(loop.pending)
          /\ loop'.skipPoll = loop.skipPoll /\ loop'.hasMore = loop.hasMore /\ loop'.reason = loop.reason
      BY <1>1, <2>3 DEF TypeInv, LoopType
    <2>5. ControlInv'
      BY <1>1, <2>2, <2>3, <2>4 DEF ControlInv, InjectLabel
    <2>6. CallsInv' /\ PendingInv' /\ ErrorInv' /\ MarksInv'
      BY <1>1, <2>2, <2>3 DEF CallsInv, PendingInv, ErrorInv, MarksInv, InjectLabel
    <2>7. Owed = 1 /\ Owed' = 1
      BY <1>1, <2>2, <2>4 DEF Owed, InjectLabel
    <2>8. TurnsInv'
      BY <1>1, <2>3, <2>7 DEF TurnsInv
    <2> QED
      BY <2>2, <2>5, <2>6, <2>8 DEF CoreInv
  <1> QED
    BY <1>5, <1>6

\* There is a turn left for every request, so that an answer has its id.
LEMMA TurnLeft ==
    ASSUME CoreInv, pc \in Requesting
    PROVE  turn + 1 \in 1..MaxTurns /\ run \in 1..MaxRuns
  <1>1. Owed = 1
    BY DEF Owed
  <1>2. turn + 1 + Len(steeringQueue) + Len(followUpQueue) <= run + toolTurns + issued
    BY <1>1 DEF CoreInv, TurnsInv
  <1>3. /\ Len(steeringQueue) \in Nat /\ Len(followUpQueue) \in Nat /\ turn \in Nat
        /\ run \in 0..MaxRuns /\ toolTurns \in 0..MaxToolTurns /\ issued \in 0..MaxMsgs
    BY DEF CoreInv, TypeInv, RunType, QueueType
  <1>4. run >= 1
    BY DEF CoreInv, ControlInv
  <1> QED
    BY <1>2, <1>3, <1>4, MakesMessages, BoundsAssumption

\* A partial message joins the context.
LEMMA StreamPartialKeeps == ASSUME CoreInv, StreamPartial PROVE Unwinds \/ CoreInv'
  <1> DEFINE m == Assistant(turn + 1, run, 0, "partial")
             locals == [loop EXCEPT !.context = Append(@, m)]
  <1>1. /\ TypeInv /\ ControlInv /\ CallsInv /\ PendingInv /\ TurnsInv /\ ErrorInv
        /\ pc = "stream" /\ LoopFrame /\ Emit(MessageStart(m), "streaming", locals)
    BY DEF CoreInv, StreamPartial
  <1>2. Starts(m)
    BY <1>1, Reduces DEF Emit
  <1>3. m \in Message
    BY <1>1, TurnLeft, MakesMessages, BoundsAssumption DEF StopReasons
  <1> HIDE DEF m
  <1>4. AgentType'
    BY <1>1, <1>2, <1>3, EventTypes
  <1>5. Unwinds \/ Moves("streaming", locals)
    BY <1>1, <1>4, Emits DEF Looping
  <1>6. ASSUME Moves("streaming", locals) PROVE CoreInv'
    <2>0. Append(loop.context, m) \in Seq(Message)
      BY <1>1, <1>3 DEF TypeInv, LoopType
    <2>1. locals \in LoopType /\ "streaming" \in Labels \ {"idle"}
      BY <1>1, <2>0 DEF TypeInv, LoopType, Labels
    <2>2. TypeInv' /\ pc' = "streaming"
      BY <1>1, <1>4, <1>6, <2>1, MovesType, FrameType
    <2>3. /\ loop' = locals /\ UNCHANGED <<run, aborted, exit, interrupted, orphans, throws>>
          /\ UNCHANGED <<steeringQueue, followUpQueue, issued, turn, toolTurns, marks>>
          /\ UNCHANGED <<pendingToolCalls, errorMessage>>
      BY <1>1, <1>2, <1>6 DEF Moves, Goto, runState, LoopFrame, queues, Starts
    <2>4. /\ loop'.prompts = loop.prompts /\ loop'.pending = loop.pending
          /\ loop'.skipPoll = loop.skipPoll /\ loop'.hasMore = loop.hasMore /\ loop'.reason = loop.reason
      BY <1>1, <2>3 DEF TypeInv, LoopType
    <2>5. ControlInv'
      BY <1>1, <2>2, <2>3, <2>4 DEF ControlInv
    <2>6. CallsInv' /\ PendingInv' /\ ErrorInv' /\ MarksInv'
      BY <1>1, <2>2, <2>3 DEF CallsInv, PendingInv, ErrorInv, MarksInv
    <2>7. Owed = 1 /\ Owed' = 1
      BY <1>1, <2>2, <2>4 DEF Owed
    <2>8. TurnsInv'
      BY <1>1, <2>3, <2>7 DEF TurnsInv
    <2> QED
      BY <2>2, <2>5, <2>6, <2>8 DEF CoreInv
  <1> QED
    BY <1>5, <1>6

\* What an answer is.
LEMMA Answering ==
    ASSUME CoreInv, pc \in {"stream", "streaming"}, NEW m \in Answers, Answered(m)
    PROVE  /\ m \in AssistantMessage /\ m \in Message
           /\ m.id = turn + 1 /\ m.run = run /\ m.stopReason # "partial"
           /\ turn' = turn + 1 /\ toolTurns' \in toolTurns..MaxToolTurns
           /\ toolTurns' = IF m.calls = 0 THEN toolTurns ELSE toolTurns + 1
  <1>1. turn + 1 \in 1..MaxTurns /\ run \in 1..MaxRuns /\ toolTurns \in 0..MaxToolTurns
    BY TurnLeft DEF CoreInv, TypeInv, RunType
  <1>2. PICK n \in IF toolTurns < MaxToolTurns THEN 0..MaxCalls ELSE {0},
             s \in {"stop", "length", "error"} \cup (IF aborted THEN {"aborted"} ELSE {}) :
               m = Assistant(turn + 1, run, n, s)
    BY DEF Answers
  <1>3. n \in 0..MaxCalls /\ s \in StopReasons /\ s # "partial"
    BY <1>2, BoundsAssumption DEF StopReasons, FailedStops
  <1>4. /\ m \in AssistantMessage /\ m.id = turn + 1 /\ m.run = run /\ m.calls = n
        /\ m.stopReason = s /\ m \in Message
    BY <1>1, <1>2, <1>3, MakesMessages
  <1> QED
    BY <1>1, <1>2, <1>3, <1>4, BoundsAssumption DEF Answered

\* An answer is there.
LEMMA AnswerKeeps ==
    ASSUME CoreInv, pc \in {"stream", "streaming"}, NEW m \in Answers, Answered(m), AgentType',
           UNCHANGED <<pendingToolCalls, errorMessage>>,
           UNCHANGED <<queues, issued, marks>>,
           NEW ctx \in Seq(Message),
           Moves("answerEnd", [loop EXCEPT !.context = ctx, !.message = m])
    PROVE  CoreInv'
  <1> DEFINE locals == [loop EXCEPT !.context = ctx, !.message = m]
  <1>1. TypeInv /\ ControlInv /\ CallsInv /\ PendingInv /\ TurnsInv /\ ErrorInv
    BY DEF CoreInv
  <1>2. /\ m \in AssistantMessage /\ m.id = turn + 1 /\ m.run = run /\ m.stopReason # "partial"
        /\ turn' = turn + 1 /\ toolTurns' \in toolTurns..MaxToolTurns
        /\ toolTurns' = IF m.calls = 0 THEN toolTurns ELSE toolTurns + 1
    BY Answering
  <1>3. turn \in Nat /\ toolTurns \in 0..MaxToolTurns /\ turn' \in Nat /\ toolTurns' \in 0..MaxToolTurns
    BY <1>1, <1>2, BoundsAssumption DEF TypeInv, RunType
  <1>4. locals \in LoopType /\ "answerEnd" \in Labels \ {"idle"}
    BY <1>1, <1>2 DEF TypeInv, LoopType, Labels
  <1>5. QueueType'
    BY <1>1 DEF TypeInv, QueueType, queues
  <1>6. TypeInv' /\ pc' = "answerEnd"
    BY <1>1, <1>3, <1>4, <1>5, MovesType
  <1>7. /\ loop' = locals /\ UNCHANGED <<run, aborted, exit, interrupted, orphans, throws>>
        /\ UNCHANGED <<steeringQueue, followUpQueue, issued, marks>>
    BY DEF Moves, Goto, runState, queues
  <1>8. /\ loop'.prompts = loop.prompts /\ loop'.pending = loop.pending /\ loop'.message = m
        /\ loop'.skipPoll = loop.skipPoll /\ loop'.hasMore = loop.hasMore /\ loop'.reason = loop.reason
    BY <1>1, <1>7 DEF TypeInv, LoopType
  <1>9. ControlInv'
    BY <1>1, <1>2, <1>3, <1>6, <1>7, <1>8 DEF ControlInv
  <1>10. CallsInv' /\ ErrorInv' /\ MarksInv'
    BY <1>1, <1>6, <1>7 DEF CallsInv, ErrorInv, MarksInv
  <1>11. PendingInv'
    BY <1>1, <1>2, <1>3, <1>6, <1>7 DEF PendingInv, TypeInv, ToolCallId, MaxTurns
  <1>12. TurnsInv'
    <2>1. Owed = 1 /\ Owed' = IF m.calls > 0 THEN 1 ELSE 0
      BY <1>6, <1>8 DEF Owed
    <2>2. m.calls \in Nat
      BY <1>2, MakesMessages, BoundsAssumption
    <2>3. /\ Len(steeringQueue) \in Nat /\ Len(followUpQueue) \in Nat /\ run \in Nat /\ issued \in Nat
          /\ toolTurns \in Nat
      BY <1>1, <1>3, BoundsAssumption DEF TypeInv, QueueType, RunType
    <2>4. turn + Owed + Len(steeringQueue) + Len(followUpQueue) <= run + toolTurns + issued
      BY <1>1 DEF TurnsInv
    <2>5. turn' + Owed' + Len(steeringQueue) + Len(followUpQueue) <= run + toolTurns' + issued
      <3>1. toolTurns' = toolTurns + Owed'
        BY <1>2, <1>3, <2>1, <2>2, BoundsAssumption
      <3>2. turn' = turn + Owed /\ Owed' \in {0, 1}
        BY <1>2, <2>1
      <3> QED
        BY <1>3, <2>1, <2>3, <2>4, <3>1, <3>2
    <2> QED
      BY <1>7, <2>5 DEF TurnsInv
  <1> QED
    BY <1>6, <1>9, <1>10, <1>11, <1>12 DEF CoreInv

\* The whole answer at once.
LEMMA StreamWholeKeeps == ASSUME CoreInv, StreamWhole PROVE Unwinds \/ CoreInv'
  <1>1. PICK m \in Answers :
          /\ Answered(m)
          /\ Emit(MessageStart(m), "answerEnd", [loop EXCEPT !.context = Append(@, m), !.message = m])
    BY DEF StreamWhole
  <1>2. /\ TypeInv /\ pc = "stream"
        /\ UNCHANGED <<queues, runState, issued, cleared, executed, marks, exit>>
    BY DEF CoreInv, StreamWhole
  <1>3. /\ m \in Message /\ turn' = turn + 1 /\ toolTurns' \in toolTurns..MaxToolTurns
    BY <1>1, <1>2, Answering
  <1>4. Starts(m)
    BY <1>1, <1>2, Reduces DEF Emit
  <1>5. AgentType'
    BY <1>2, <1>3, <1>4, EventTypes
  <1>6. CASE Throw(0)
    <2>1. turn' \in turn..(turn + Owed)
      BY <1>2, <1>3 DEF Owed, TypeInv, RunType
    <2> QED
      BY <1>2, <1>3, <1>5, <1>6, <2>1 DEF Unwinds, Looping
  <1>7. CASE Goto("answerEnd") /\ loop' = [loop EXCEPT !.context = Append(@, m), !.message = m]
    <2>1. PICK ctx : ctx = Append(loop.context, m)
      OBVIOUS
    <2>2. ctx \in Seq(Message)
      BY <1>2, <1>3, <2>1 DEF TypeInv, LoopType
    <2>3. loop' = [loop EXCEPT !.context = ctx, !.message = m]
      BY <1>7, <2>1
    <2>4. Moves("answerEnd", [loop EXCEPT !.context = ctx, !.message = m])
      BY <1>2, <1>7, <2>3 DEF Moves
    <2> QED
      BY <1>1, <1>2, <1>4, <1>5, <2>2, <2>4, AnswerKeeps DEF Starts
  <1> QED
    BY <1>1, <1>6, <1>7 DEF Emit

\* The final message replaces the partial one.
LEMMA StreamFinalKeeps == ASSUME CoreInv, StreamFinal PROVE CoreInv'
  <1>1. PICK m \in Answers :
          /\ Answered(m)
          /\ loop' = [loop EXCEPT !.context[Len(loop.context)] = m, !.message = m]
    BY DEF StreamFinal
  <1>2. /\ TypeInv /\ pc = "streaming" /\ Goto("answerEnd")
        /\ UNCHANGED <<agentState, queues, runState, issued, history>>
    BY DEF CoreInv, StreamFinal
  <1>3. m \in Message
    BY <1>1, <1>2, Answering
  <1>4. PICK ctx : ctx = [loop.context EXCEPT ![Len(loop.context)] = m]
    OBVIOUS
  <1>5. ctx \in Seq(Message)
    <2>1. loop.context \in Seq(Message)
      BY <1>2 DEF TypeInv, LoopType
    <2>2. Len(loop.context) \in Nat /\ loop.context \in [1..Len(loop.context) -> Message]
      BY <2>1, LenProperties
    <2>3. ctx \in [1..Len(loop.context) -> Message]
      BY <1>3, <1>4, <2>2
    <2> QED
      BY <2>2, <2>3, SeqDef
  <1>6. loop' = [loop EXCEPT !.context = ctx, !.message = m]
    BY <1>1, <1>4
  <1>7. Moves("answerEnd", [loop EXCEPT !.context = ctx, !.message = m])
    BY <1>2, <1>6 DEF Moves, history
  <1>8. AgentType'
    BY <1>2, EventTypes DEF Quiet
  <1> QED
    BY <1>1, <1>2, <1>5, <1>7, <1>8, AnswerKeeps DEF agentState, history

-----------------------------------------------------------------------------
(* A batch of tool calls *)

\* The answer is out: its batch begins, or there is none.
LEMMA AnswerEndKeeps == ASSUME CoreInv, AnswerEnd PROVE Unwinds \/ CoreInv'
  <1>1. /\ TypeInv /\ ControlInv /\ PendingInv /\ TurnsInv /\ ErrorInv
        /\ pc = "answerEnd" /\ LoopFrame
    BY DEF CoreInv, AnswerEnd
  <1>2. PICK mode \in BatchModes(loop.message) :
          Emit(MessageEnd(loop.message),
               IF AfterAnswer(loop, mode).calls = <<>> THEN "turnEnd" ELSE "toolStart",
               AfterAnswer(loop, mode))
    BY DEF AnswerEnd
  <1> DEFINE m == loop.message
             failed == m.stopReason \in FailedStops
             new == Append(loop.newMessages, m)
             calls == IF failed THEN <<>> ELSE [i \in 1..m.calls |-> Waiting]
             reason == IF failed THEN "error" ELSE loop.reason
             locals == [loop EXCEPT !.newMessages = new, !.mode = mode, !.next = 1, !.hasMore = FALSE,
                                    !.calls = calls, !.reason = reason]
             label == IF calls = <<>> THEN "turnEnd" ELSE "toolStart"
  <1>3. /\ m \in AssistantMessage /\ m \in Message /\ m.calls \in 0..MaxCalls
        /\ m.stopReason \in StopReasons /\ m.id = turn /\ turn >= 1 /\ m.run = run
    BY <1>1, MakesMessages DEF ControlInv
  <1>4. calls \in Seq(Call) /\ new \in Seq(Message) /\ reason \in Reasons
    <2>1. Waiting \in Call
      BY DEF Waiting, Call, CallStatus
    <2>2. [i \in 1..m.calls |-> Waiting] \in [1..m.calls -> Call]
      BY <2>1
    <2>3. [i \in 1..m.calls |-> Waiting] \in Seq(Call)
      BY <1>3, <2>2, SeqDef, BoundsAssumption
    <2>4. <<>> \in Seq(Call)
      OBVIOUS
    <2>5. new \in Seq(Message)
      BY <1>1, <1>3 DEF TypeInv, LoopType
    <2>6. reason \in Reasons
      BY <1>1 DEF TypeInv, LoopType, Reasons
    <2> QED
      BY <2>3, <2>4, <2>5, <2>6
  <1>5. mode \in Modes /\ mode # "none" /\ (mode = "truncated" <=> m.stopReason = "length")
    BY <1>2, BoundsAssumption DEF BatchModes, Modes
  <1>6. AfterAnswer(loop, mode) = locals /\ locals \in LoopType /\ locals.calls = calls
    <2>1. AfterAnswer(loop, mode) = locals
      BY DEF AfterAnswer
    <2> HIDE DEF calls, new, reason
    <2> QED
      BY <1>1, <1>4, <1>5, <2>1 DEF TypeInv, LoopType
  <1>7. Emit(MessageEnd(m), label, locals)
    BY <1>2, <1>6
  <1>8. Ends(m)
    BY <1>1, <1>7, Reduces DEF Emit
  <1>9. AgentType'
    BY <1>1, <1>3, <1>8, EventTypes
  <1> HIDE DEF locals, label, calls, new, reason
  <1>10. Unwinds \/ Moves(label, locals)
    BY <1>1, <1>7, <1>9, Emits DEF Looping
  <1>11. ASSUME Moves(label, locals) PROVE CoreInv'
    <2>1. label \in {"turnEnd", "toolStart"} /\ label \in Labels \ {"idle"}
      BY DEF label, Labels
    <2>2. TypeInv' /\ pc' = label
      BY <1>1, <1>6, <1>9, <1>11, <2>1, MovesType, FrameType
    <2>3. /\ loop' = locals /\ UNCHANGED <<run, aborted, exit, interrupted, orphans, throws>>
          /\ UNCHANGED <<steeringQueue, followUpQueue, issued, turn, toolTurns, marks>>
          /\ UNCHANGED <<pendingToolCalls, errorMessage>>
      BY <1>1, <1>8, <1>11 DEF Moves, Goto, runState, LoopFrame, queues, Ends
    <2>4. /\ loop'.prompts = loop.prompts /\ loop'.pending = loop.pending /\ loop'.message = m
          /\ loop'.skipPoll = loop.skipPoll /\ loop'.hasMore = FALSE /\ loop'.reason = reason
          /\ loop'.calls = calls /\ loop'.mode = mode /\ loop'.next = 1
      BY <1>1, <2>3 DEF TypeInv, LoopType, locals
    <2>5. reason = IF failed THEN "error" ELSE "none"
      BY <1>1 DEF reason, ControlInv
    <2>6. label = "toolStart" =>
            /\ ~ failed /\ Len(calls) = m.calls /\ m.calls >= 1 /\ DOMAIN calls = 1..m.calls
            /\ \A i \in 1..m.calls : calls[i].status = "waiting"
      BY <1>3, BoundsAssumption DEF label, calls, Waiting
    <2>7. ControlInv'
      <3>1. label = "toolStart" => reason = "none"
        BY <2>5, <2>6
      <3> QED
        BY <1>1, <1>3, <2>1, <2>2, <2>3, <2>4, <2>5, <3>1 DEF ControlInv
    <2>8. CallsInv'
      <3>1. CASE label = "turnEnd"
        BY <2>2, <3>1 DEF CallsInv
      <3>2. CASE label = "toolStart"
        <4>1. m.stopReason # "partial"
          BY <1>1 DEF ControlInv
        <4>2. m.stopReason \in {"stop", "length"}
          BY <1>3, <2>6, <3>2, <4>1 DEF StopReasons, FailedStops
        <4>3. Len(calls) \in 1..m.calls
          BY <1>3, <2>6, <3>2, BoundsAssumption
        <4> QED
          BY <1>3, <1>5, <2>2, <2>3, <2>4, <2>6, <3>2, <4>2, <4>3 DEF CallsInv, Status
      <3> QED
        BY <2>1, <3>1, <3>2
    <2>9. PendingInv'
      <3>1. pendingToolCalls = {}
        BY <1>1 DEF PendingInv
      <3>2. CASE label = "toolStart"
        <4>1. \A i \in DOMAIN calls : calls[i].status \notin UnderWay
          BY <2>6, <3>2 DEF UnderWay
        <4> QED
          BY <1>1, <2>2, <2>3, <2>4, <3>1, <3>2, <4>1 DEF PendingInv, Status
      <3> QED
        BY <1>1, <2>1, <2>2, <2>3, <3>1, <3>2 DEF PendingInv
    <2>10. ErrorInv' /\ MarksInv'
      BY <1>1, <2>1, <2>2, <2>3 DEF ErrorInv, MarksInv
    <2>11. TurnsInv'
      <3>1. Owed' = Owed
        BY <1>1, <2>1, <2>2, <2>4 DEF Owed
      <3> QED
        BY <1>1, <2>3, <3>1 DEF TurnsInv
    <2> QED
      BY <2>2, <2>7, <2>8, <2>9, <2>10, <2>11 DEF CoreInv
  <1> QED
    BY <1>10, <1>11

\* One call of the batch changes.
Updated(i, c) == [loop EXCEPT !.calls = [loop.calls EXCEPT ![i] = c]]

\* The two ways in which the loop writes that.
LEMMA Updates ==
    ASSUME CoreInv, pc \in Batch, NEW i \in 1..Len(loop.calls), NEW status, NEW terminate
    PROVE  /\ WithStatus(loop, i, status) =
                Updated(i, [status |-> status, terminate |-> loop.calls[i].terminate])
           /\ Finalized(loop, i, status, terminate) =
                Updated(i, [status |-> status, terminate |-> terminate])
  <1>1. loop.calls \in Seq(Call) /\ loop \in LoopType
    BY DEF CoreInv, TypeInv, LoopType
  <1>2. loop.calls[i] \in Call
    BY <1>1
  <1>3. [loop.calls[i] EXCEPT !.status = status] =
          [status |-> status, terminate |-> loop.calls[i].terminate]
    BY <1>2 DEF Call
  <1>4. WithStatus(loop, i, status) = Updated(i, [loop.calls[i] EXCEPT !.status = status])
    BY DEF WithStatus, Updated
  <1>5. Finalized(loop, i, status, terminate) = Updated(i, [status |-> status, terminate |-> terminate])
    BY DEF Finalized, Updated
  <1> QED
    BY <1>3, <1>4, <1>5

\* It leaves the other calls and locals as they are.
LEMMA UpdatedFields ==
    ASSUME CoreInv, pc \in Batch, NEW i \in 1..Len(loop.calls), NEW c \in Call,
           NEW l, l = Updated(i, c)
    PROVE  /\ l \in LoopType /\ Len(l.calls) = Len(loop.calls) /\ DOMAIN l.calls = DOMAIN loop.calls
           /\ l.calls[i] = c /\ \A j \in 1..Len(loop.calls) : j # i => l.calls[j] = loop.calls[j]
           /\ l.prompts = loop.prompts /\ l.pending = loop.pending /\ l.message = loop.message
           /\ l.skipPoll = loop.skipPoll /\ l.hasMore = loop.hasMore /\ l.reason = loop.reason
           /\ l.mode = loop.mode /\ l.next = loop.next /\ l.context = loop.context
           /\ l.newMessages = loop.newMessages
  <1>1. loop.calls \in Seq(Call) /\ loop \in LoopType
    BY DEF CoreInv, TypeInv, LoopType
  <1> DEFINE cs == [loop.calls EXCEPT ![i] = c]
  <1>2. cs \in Seq(Call) /\ Len(cs) = Len(loop.calls) /\ DOMAIN cs = DOMAIN loop.calls
    BY <1>1, ExceptSeq
  <1>3. cs[i] = c /\ \A j \in 1..Len(loop.calls) : j # i => cs[j] = loop.calls[j]
    BY <1>1
  <1> HIDE DEF cs
  <1>4. l = [loop EXCEPT !.calls = cs]
    BY DEF Updated, cs
  <1>5. l \in LoopType /\ l.calls = cs
    BY <1>1, <1>2, <1>4 DEF LoopType
  <1> QED
    BY <1>1, <1>2, <1>3, <1>4, <1>5 DEF LoopType

\* A call goes from one status to the next.
CallGoes(i, status, label) ==
    \/ pc = "toolStart" /\ i = loop.next /\ loop.mode = "truncated"
         /\ label = "toolEnd" /\ status = "settled"
    \/ pc = "toolStart" /\ i = loop.next /\ loop.mode # "truncated"
         /\ label = "prepare" /\ status = "started"
    \/ pc = "prepare" /\ i = loop.next /\ label = "toolEnd" /\ status = "settled"
    \/ pc = "prepare" /\ i = loop.next /\ status = "prepared"
         /\ label = IF loop.mode = "sequential" THEN "execute" ELSE "advance"
    \/ pc = "execute" /\ i = loop.next /\ label = "executing" /\ status = "running"
    \/ pc = "executing" /\ i = loop.next /\ label = "toolEnd" /\ status = "settled"
    \/ pc = "toolEnd" /\ i = loop.next /\ status = "done"
         /\ label = IF loop.mode = "parallel" THEN "advance" ELSE "resultStart"
    \/ pc = "parallel" /\ label = "parallel" /\ status = "done"
CallMoves(i, c, label) ==
    /\ CallGoes(i, c.status, label) /\ Moves(label, Updated(i, c)) /\ AgentType'
    /\ errorMessage' = errorMessage
    /\ UNCHANGED <<queues, issued, marks, turn, toolTurns>>
    /\ pendingToolCalls' = IF c.status \in UnderWay THEN pendingToolCalls \cup {<<loop.message.id, i>>}
                           ELSE pendingToolCalls \ {<<loop.message.id, i>>}

\* The calls under way stay those that are shown as pending.
LEMMA CallMovesKeeps ==
    ASSUME CoreInv, NEW i \in 1..Len(loop.calls), NEW c \in Call, NEW label, CallMoves(i, c, label)
    PROVE  CoreInv'
  <1>1. /\ TypeInv /\ ControlInv /\ CallsInv /\ PendingInv /\ TurnsInv /\ ErrorInv
        /\ pc \in Batch /\ label \in Batch
        /\ CallGoes(i, c.status, label) /\ Moves(label, Updated(i, c)) /\ AgentType'
    BY DEF CoreInv, CallMoves, CallGoes
  <1> DEFINE l == Updated(i, c)
  <1>2. /\ l \in LoopType /\ Len(l.calls) = Len(loop.calls) /\ DOMAIN l.calls = DOMAIN loop.calls
        /\ l.calls[i] = c /\ \A j \in 1..Len(loop.calls) : j # i => l.calls[j] = loop.calls[j]
        /\ l.prompts = loop.prompts /\ l.pending = loop.pending /\ l.message = loop.message
        /\ l.skipPoll = loop.skipPoll /\ l.hasMore = loop.hasMore /\ l.reason = loop.reason
        /\ l.mode = loop.mode /\ l.next = loop.next
    BY <1>1, UpdatedFields
  <1> HIDE DEF l
  <1>3. QueueType' /\ turn' \in Nat /\ toolTurns' \in 0..MaxToolTurns
    BY <1>1 DEF CallMoves, TypeInv, QueueType, RunType, queues
  <1>4. label \in Labels \ {"idle"}
    BY <1>1 DEF Labels
  <1>5. TypeInv' /\ pc' = label
    BY <1>1, <1>2, <1>3, <1>4, MovesType DEF l
  <1>6. /\ loop' = l /\ UNCHANGED <<run, aborted, exit, interrupted, orphans, throws>>
        /\ UNCHANGED <<steeringQueue, followUpQueue, issued, turn, toolTurns, marks, errorMessage>>
    BY <1>1 DEF Moves, Goto, runState, CallMoves, queues, l
  <1>7. /\ loop.message \in AssistantMessage /\ loop.message.id = turn
        /\ loop.calls \in Seq(Call) /\ loop.next \in 1..Len(loop.calls)
        /\ DOMAIN loop.calls = 1..Len(loop.calls)
    BY <1>1, AtCall
  <1>8. ControlInv'
    BY <1>1, <1>2, <1>5, <1>6 DEF ControlInv
  <1>9. CallsInv'
    <2>1. /\ loop.message.stopReason \in {"stop", "length"}
          /\ loop.mode = "truncated" <=> loop.message.stopReason = "length"
          /\ loop.mode # "none" /\ Len(loop.calls) <= loop.message.calls
          /\ Len(loop.calls) = loop.message.calls \/ aborted
      BY <1>1 DEF CallsInv
    <2>2. CASE pc = "parallel"
      BY <1>1, <1>2, <1>5, <1>6, <1>7, <2>1, <2>2 DEF CallsInv, CallGoes, Status
    <2>3. CASE pc # "parallel"
      <3>1. i = loop.next /\ label # "parallel" /\ pc \notin {"resultStart", "resultEnd"}
        BY <1>1, <2>3 DEF CallGoes
      <3>2. /\ \A j \in DOMAIN loop.calls : j < loop.next =>
                 Status(j) \in {"done"} \cup (IF loop.mode = "parallel" THEN {"prepared"} ELSE {})
            /\ \A j \in DOMAIN loop.calls : j > loop.next => Status(j) = "waiting"
        BY <1>1, <2>3, <3>1 DEF CallsInv
      <3>3. /\ \A j \in DOMAIN l.calls : j < l.next =>
                 l.calls[j].status \in {"done"} \cup (IF l.mode = "parallel" THEN {"prepared"} ELSE {})
            /\ \A j \in DOMAIN l.calls : j > l.next => l.calls[j].status = "waiting"
        BY <1>2, <1>7, <3>1, <3>2 DEF Status
      <3>4. l.calls[l.next] = c
        BY <1>2, <3>1
      <3>5. /\ pc \in {"execute", "executing"} => loop.mode = "sequential"
            /\ pc = "prepare" => loop.mode # "truncated"
        BY <1>1 DEF CallsInv
      <3>6. /\ label \in {"execute", "executing"} => loop.mode = "sequential"
            /\ label = "prepare" => loop.mode # "truncated"
            /\ label = "advance" => loop.mode = "parallel"
            /\ label = "resultStart" => loop.mode # "parallel"
            /\ label \notin {"toolStart", "resultEnd"}
        <4>1. loop.mode \in Modes
          BY <1>1 DEF TypeInv, LoopType
        <4> QED
          BY <1>1, <2>1, <2>3, <3>5, <4>1 DEF CallGoes, Modes
      <3>7. c.status \in
              CASE label = "toolStart" -> {"waiting"}
                [] label = "prepare" -> {"started"}
                [] label = "execute" -> {"prepared"}
                [] label = "executing" -> {"running"}
                [] label = "toolEnd" -> {"settled"}
                [] label = "advance" -> {"done"} \cup (IF loop.mode = "parallel" THEN {"prepared"} ELSE {})
                [] label = "parallel" -> {"running", "done"}
                [] OTHER -> {"done"}
        BY <1>1, <2>3, <3>6 DEF CallGoes
      <3> QED
        BY <1>2, <1>5, <1>6, <1>7, <2>1, <3>1, <3>3, <3>4, <3>6, <3>7 DEF CallsInv, Status
    <2> QED
      BY <2>2, <2>3
  <1>10. PendingInv'
    <2>1. pendingToolCalls = {<<loop.message.id, j>> : j \in {k \in DOMAIN loop.calls : Status(k) \in UnderWay}}
      BY <1>1 DEF PendingInv
    <2>2. pendingToolCalls' = {<<l.message.id, j>> : j \in {k \in DOMAIN l.calls : l.calls[k].status \in UnderWay}}
      <3>1. CASE c.status \in UnderWay
        BY <1>2, <1>7, <2>1, <3>1 DEF CallMoves, Status
      <3>2. CASE c.status \notin UnderWay
        BY <1>2, <1>7, <2>1, <3>2 DEF CallMoves, Status
      <3> QED
        BY <3>1, <3>2
    <2> QED
      BY <1>1, <1>5, <1>6, <2>2 DEF PendingInv, Status
  <1>11. ErrorInv' /\ MarksInv'
    BY <1>1, <1>5, <1>6 DEF ErrorInv, MarksInv
  <1>12. TurnsInv'
    <2>1. Owed' = Owed
      BY <1>1, <1>2, <1>5, <1>6 DEF Owed
    <2> QED
      BY <1>1, <1>6, <2>1 DEF TurnsInv
  <1> QED
    BY <1>5, <1>8, <1>9, <1>10, <1>11, <1>12 DEF CoreInv

\* A call keeps its type when its status changes.
LEMMA Restated ==
    ASSUME CoreInv, pc \in Batch, NEW i \in 1..Len(loop.calls), NEW status \in CallStatus
    PROVE  [status |-> status, terminate |-> loop.calls[i].terminate] \in Call
  <1>1. loop.calls[i] \in Call
    BY DEF CoreInv, TypeInv, LoopType
  <1>2. loop.calls[i].terminate \in BOOLEAN
    BY <1>1 DEF Call
  <1> QED
    BY <1>2 DEF Call

\* A call that is under way is shown as pending.
LEMMA ShownPending ==
    ASSUME CoreInv, pc \in {"prepare", "execute", "executing"}
    PROVE  pendingToolCalls \cup {<<loop.message.id, loop.next>>} = pendingToolCalls
  <1>1. Status(loop.next) \in UnderWay /\ loop.next \in DOMAIN loop.calls
    BY AtCall DEF CoreInv, CallsInv, UnderWay
  <1> QED
    BY <1>1 DEF CoreInv, PendingInv

\* The steps of one call: what they are to the batch.
LEMMA ToolStartMoves ==
    ASSUME CoreInv, ToolStart
    PROVE  Unwinds \/ \E c \in Call, label \in Labels : CallMoves(loop.next, c, label)
  <1> DEFINE status == IF loop.mode = "truncated" THEN "settled" ELSE "started"
             label == IF loop.mode = "truncated" THEN "toolEnd" ELSE "prepare"
             c == [status |-> status, terminate |-> loop.calls[loop.next].terminate]
  <1>1. /\ TypeInv /\ pc = "toolStart" /\ LoopFrame
        /\ Emit(ToolStartEvent(Current), label, WithStatus(loop, loop.next, status))
    BY DEF CoreInv, ToolStart
  <1>2. /\ Current \in ToolCallId /\ loop.next \in 1..Len(loop.calls) /\ loop.calls \in Seq(Call)
    BY <1>1, AtCall
  <1>3. StartsCall(Current)
    BY <1>1, Reduces DEF Emit
  <1>4. AgentType'
    BY <1>1, <1>2, <1>3, EventTypes
  <1>5. Unwinds \/ Moves(label, WithStatus(loop, loop.next, status))
    BY <1>1, <1>4, Emits DEF Looping
  <1>6. WithStatus(loop, loop.next, status) = Updated(loop.next, c)
    BY <1>1, <1>2, Updates
  <1>7. c \in Call /\ c.status = status /\ label \in Labels /\ status \in UnderWay
    <2>1. status \in CallStatus /\ status \in UnderWay /\ label \in Labels
      BY DEF CallStatus, Labels, UnderWay
    <2> HIDE DEF status, label
    <2>2. c \in Call
      BY <1>1, <1>2, <2>1, Restated
    <2> QED
      BY <2>1, <2>2
  <1>8. CallGoes(loop.next, status, label)
    BY <1>1 DEF CallGoes
  <1> HIDE DEF c, status, label
  <1>9. ASSUME Moves(label, Updated(loop.next, c)) PROVE CallMoves(loop.next, c, label)
    BY <1>1, <1>3, <1>4, <1>7, <1>8, <1>9 DEF CallMoves, StartsCall, LoopFrame, Current
  <1> QED
    BY <1>5, <1>6, <1>7, <1>9

\* prepareToolCall
LEMMA PrepareMoves ==
    ASSUME CoreInv, PrepareToolCall
    PROVE  \E c \in Call, label \in Labels : CallMoves(loop.next, c, label)
  <1>1. /\ TypeInv /\ pc = "prepare"
        /\ UNCHANGED <<agentState, queues, runState, issued, turn, toolTurns, history>>
    BY DEF CoreInv, PrepareToolCall
  <1>2. loop.next \in 1..Len(loop.calls) /\ loop.calls \in Seq(Call)
    BY <1>1, AtCall
  <1>3. AgentType'
    BY <1>1, EventTypes DEF Quiet
  <1>4. pendingToolCalls' = pendingToolCalls \cup {<<loop.message.id, loop.next>>}
    BY <1>1, ShownPending DEF agentState
  <1>5. ASSUME NEW terminate \in BOOLEAN, loop' = Finalized(loop, loop.next, "settled", terminate),
               Goto("toolEnd")
        PROVE  \E c \in Call, label \in Labels : CallMoves(loop.next, c, label)
    <2> DEFINE c == [status |-> "settled", terminate |-> terminate]
    <2>1. c \in Call /\ c.status = "settled" /\ c.status \in UnderWay /\ "toolEnd" \in Labels
      BY DEF Call, CallStatus, Labels, UnderWay
    <2>2. loop' = Updated(loop.next, c)
      BY <1>1, <1>2, <1>5, Updates
    <2> HIDE DEF c
    <2>3. CallMoves(loop.next, c, "toolEnd")
      BY <1>1, <1>3, <1>4, <1>5, <2>1, <2>2 DEF CallMoves, CallGoes, Moves, agentState, history
    <2> QED
      BY <2>1, <2>3
  <1>6. ASSUME loop' = WithStatus(loop, loop.next, "prepared"),
               Goto(IF loop.mode = "sequential" THEN "execute" ELSE "advance")
        PROVE  \E c \in Call, label \in Labels : CallMoves(loop.next, c, label)
    <2> DEFINE c == [status |-> "prepared", terminate |-> loop.calls[loop.next].terminate]
               label == IF loop.mode = "sequential" THEN "execute" ELSE "advance"
    <2>0. c \in Call
      BY <1>1, <1>2, Restated DEF CallStatus
    <2>1. c \in Call /\ c.status = "prepared" /\ c.status \in UnderWay /\ label \in Labels
      BY <2>0 DEF Labels, UnderWay
    <2>2. loop' = Updated(loop.next, c)
      BY <1>1, <1>2, <1>6, Updates
    <2>3. CallGoes(loop.next, "prepared", label)
      BY <1>1 DEF CallGoes
    <2> HIDE DEF c, label
    <2>4. CallMoves(loop.next, c, label)
      BY <1>1, <1>3, <1>4, <1>6, <2>1, <2>2, <2>3 DEF CallMoves, Moves, agentState, history, label
    <2> QED
      BY <2>1, <2>4
  <1> QED
    BY <1>5, <1>6 DEF PrepareToolCall

\* Sequential execution starts.
LEMMA ExecuteMoves ==
    ASSUME CoreInv, Execute
    PROVE  \E c \in Call, label \in Labels : CallMoves(loop.next, c, label)
  <1>1. /\ TypeInv /\ pc = "execute" /\ Goto("executing")
        /\ loop' = WithStatus(loop, loop.next, "running")
        /\ UNCHANGED <<agentState, queues, runState, issued, turn, toolTurns, cleared, marks, exit>>
    BY DEF CoreInv, Execute
  <1>2. loop.next \in 1..Len(loop.calls) /\ loop.calls \in Seq(Call)
    BY <1>1, AtCall
  <1>3. AgentType'
    BY <1>1, EventTypes DEF Quiet
  <1>4. pendingToolCalls' = pendingToolCalls \cup {<<loop.message.id, loop.next>>}
    BY <1>1, ShownPending DEF agentState
  <1> DEFINE c == [status |-> "running", terminate |-> loop.calls[loop.next].terminate]
  <1>5. c \in Call /\ c.status = "running" /\ c.status \in UnderWay /\ "executing" \in Labels
    <2>1. c \in Call
      BY <1>1, <1>2, Restated DEF CallStatus
    <2> QED
      BY <2>1 DEF Labels, UnderWay
  <1>6. loop' = Updated(loop.next, c)
    BY <1>1, <1>2, Updates
  <1> HIDE DEF c
  <1>7. CallMoves(loop.next, c, "executing")
    BY <1>1, <1>3, <1>4, <1>5, <1>6 DEF CallMoves, CallGoes, Moves, agentState
  <1> QED
    BY <1>5, <1>7

\* It settles.
LEMMA ExecuteSettlesMoves ==
    ASSUME CoreInv, ExecuteSettles
    PROVE  Unwinds \/ \E c \in Call, label \in Labels : CallMoves(loop.next, c, label)
  <1>1. /\ TypeInv /\ pc = "executing"
        /\ UNCHANGED <<agentState, queues, runState, issued, turn, toolTurns, history>>
    BY DEF CoreInv, ExecuteSettles
  <1>2. loop.next \in 1..Len(loop.calls) /\ loop.calls \in Seq(Call)
    BY <1>1, AtCall
  <1>3. AgentType'
    BY <1>1, EventTypes DEF Quiet
  <1>4. pendingToolCalls' = pendingToolCalls \cup {<<loop.message.id, loop.next>>}
    BY <1>1, ShownPending DEF agentState
  <1>5. ASSUME NEW terminate \in BOOLEAN, loop' = Finalized(loop, loop.next, "settled", terminate),
               Goto("toolEnd")
        PROVE  \E c \in Call, label \in Labels : CallMoves(loop.next, c, label)
    <2> DEFINE c == [status |-> "settled", terminate |-> terminate]
    <2>1. c \in Call /\ c.status = "settled" /\ c.status \in UnderWay /\ "toolEnd" \in Labels
      BY DEF Call, CallStatus, Labels, UnderWay
    <2>2. loop' = Updated(loop.next, c)
      BY <1>1, <1>2, <1>5, Updates
    <2> HIDE DEF c
    <2>3. CallMoves(loop.next, c, "toolEnd")
      BY <1>1, <1>3, <1>4, <1>5, <2>1, <2>2 DEF CallMoves, CallGoes, Moves, agentState, history
    <2> QED
      BY <2>1, <2>3
  <1>6. CASE Throw(0)
    BY <1>1, <1>6, ThrowUnwinds DEF Looping
  <1> QED
    BY <1>5, <1>6 DEF ExecuteSettles

\* tool_execution_end of a call that the loop finalizes.
LEMMA ToolEndMoves ==
    ASSUME CoreInv, ToolEnd
    PROVE  Unwinds \/ \E c \in Call, label \in Labels : CallMoves(loop.next, c, label)
  <1> DEFINE label == IF loop.mode = "parallel" THEN "advance" ELSE "resultStart"
             c == [status |-> "done", terminate |-> loop.calls[loop.next].terminate]
  <1>1. /\ TypeInv /\ pc = "toolEnd" /\ LoopFrame
        /\ Emit(ToolEndEvent(Current), label, WithStatus(loop, loop.next, "done"))
    BY DEF CoreInv, ToolEnd
  <1>2. loop.next \in 1..Len(loop.calls) /\ loop.calls \in Seq(Call)
    BY <1>1, AtCall
  <1>3. EndsCall(Current)
    BY <1>1, Reduces DEF Emit
  <1>4. AgentType'
    BY <1>1, <1>2, <1>3, EventTypes
  <1>5. Unwinds \/ Moves(label, WithStatus(loop, loop.next, "done"))
    BY <1>1, <1>4, Emits DEF Looping
  <1>6. WithStatus(loop, loop.next, "done") = Updated(loop.next, c)
    BY <1>1, <1>2, Updates
  <1>7. c \in Call /\ c.status = "done" /\ label \in Labels /\ "done" \notin UnderWay
    <2>1. c \in Call
      BY <1>1, <1>2, Restated DEF CallStatus
    <2> QED
      BY <2>1 DEF Labels, UnderWay
  <1>8. CallGoes(loop.next, "done", label)
    BY <1>1 DEF CallGoes
  <1> HIDE DEF c, label
  <1>9. ASSUME Moves(label, Updated(loop.next, c)) PROVE CallMoves(loop.next, c, label)
    BY <1>1, <1>3, <1>4, <1>7, <1>8, <1>9 DEF CallMoves, EndsCall, LoopFrame, Current
  <1> QED
    BY <1>5, <1>6, <1>7, <1>9

\* A parallel execution completes.
LEMMA ParallelCompletesMoves ==
    ASSUME CoreInv, NEW i, ParallelCompletes(i)
    PROVE  /\ i \in 1..Len(loop.calls)
           /\ Unwinds \/ \E c \in Call, label \in Labels : CallMoves(i, c, label)
  <1>1. TypeInv /\ pc = "parallel" /\ i \in Running(loop) /\ LoopFrame
    BY DEF CoreInv, ParallelCompletes
  <1>2. i \in 1..Len(loop.calls) /\ loop.calls \in Seq(Call)
    BY <1>1, AtCall DEF Running
  <1>3. PICK terminate \in BOOLEAN :
          \/ /\ processEvents(ToolEndEvent(<<loop.message.id, i>>))
             /\ \/ Goto("parallel") /\ loop' = Finalized(loop, i, "done", terminate)
                \/ Throw(i)
          \/ Throw(i) /\ UNCHANGED agentState
    BY DEF ParallelCompletes
  <1>4. AgentType'
    BY <1>1, <1>3, Reduces, EventTypes DEF Quiet
  <1>5. CASE Throw(i)
    <2>1. turn \in Nat /\ toolTurns \in 0..MaxToolTurns /\ Owed \in {0, 1} /\ turn' = turn /\ toolTurns' = toolTurns
      BY <1>1 DEF TypeInv, RunType, Owed, LoopFrame
    <2>2. turn' \in turn..(turn + Owed) /\ toolTurns' \in toolTurns..MaxToolTurns
      BY <2>1, BoundsAssumption
    <2> QED
      BY <1>1, <1>2, <1>4, <1>5, <2>2 DEF Unwinds, Looping, LoopFrame
  <1>6. CASE /\ processEvents(ToolEndEvent(<<loop.message.id, i>>))
             /\ Goto("parallel") /\ loop' = Finalized(loop, i, "done", terminate)
    <2> DEFINE c == [status |-> "done", terminate |-> terminate]
    <2>1. c \in Call /\ c.status = "done" /\ c.status \notin UnderWay /\ "parallel" \in Labels
      BY DEF Call, CallStatus, Labels, UnderWay
    <2>2. loop' = Updated(i, c)
      BY <1>1, <1>2, <1>6, Updates
    <2>3. EndsCall(<<loop.message.id, i>>)
      BY <1>1, <1>6, Reduces
    <2> HIDE DEF c
    <2>4. CallMoves(i, c, "parallel")
      BY <1>1, <1>4, <1>6, <2>1, <2>2, <2>3 DEF CallMoves, CallGoes, Moves, EndsCall, LoopFrame
    <2> QED
      BY <1>2, <2>1, <2>4
  <1> QED
    BY <1>2, <1>3, <1>5, <1>6

\* The loop goes to the next call, its results included.
Nexts(label) ==
    /\ \/ pc = "advance" /\ ~ LastCall /\ label = "toolStart"
       \/ pc = "resultEnd" /\ loop.mode = "parallel" /\ loop.next < Len(loop.calls) /\ label = "resultStart"
    /\ Moves(label, [loop EXCEPT !.next = @ + 1])
    /\ AgentType' /\ UNCHANGED <<pendingToolCalls, errorMessage>>
    /\ UNCHANGED <<queues, issued, turn, toolTurns, cleared, marks>>

\* That keeps the invariant.
LEMMA NextsKeeps == ASSUME CoreInv, NEW label, Nexts(label) PROVE CoreInv'
  <1> DEFINE l == [loop EXCEPT !.next = @ + 1]
  <1>1. /\ TypeInv /\ ControlInv /\ CallsInv /\ PendingInv /\ TurnsInv /\ ErrorInv
        /\ pc \in Batch /\ label \in Batch /\ Moves(label, l) /\ AgentType'
        /\ UNCHANGED <<pendingToolCalls, errorMessage>>
        /\ UNCHANGED <<queues, issued, turn, toolTurns, cleared, marks>>
    BY DEF CoreInv, Nexts
  <1>2. /\ loop.calls \in Seq(Call) /\ loop.next \in 1..Len(loop.calls)
        /\ DOMAIN loop.calls = 1..Len(loop.calls) /\ Len(loop.calls) \in Nat
    BY <1>1, AtCall
  <1>3. loop.next + 1 \in 1..Len(loop.calls)
    <2>1. loop.next # Len(loop.calls)
      BY <1>2 DEF Nexts, LastCall
    <2> QED
      BY <1>2, <2>1
  <1>4. /\ l \in LoopType /\ l.calls = loop.calls /\ l.next = loop.next + 1
        /\ l.prompts = loop.prompts /\ l.pending = loop.pending /\ l.message = loop.message
        /\ l.skipPoll = loop.skipPoll /\ l.hasMore = loop.hasMore /\ l.reason = loop.reason
        /\ l.mode = loop.mode
    BY <1>1, <1>2 DEF TypeInv, LoopType
  <1> HIDE DEF l
  <1>5. QueueType' /\ turn' \in Nat /\ toolTurns' \in 0..MaxToolTurns
    BY <1>1 DEF TypeInv, QueueType, RunType, queues
  <1>6. label \in Labels \ {"idle"}
    BY <1>1 DEF Labels
  <1>7. TypeInv' /\ pc' = label
    BY <1>1, <1>4, <1>5, <1>6, MovesType
  <1>8. /\ loop' = l /\ UNCHANGED <<run, aborted, exit, interrupted, orphans, throws>>
        /\ UNCHANGED <<steeringQueue, followUpQueue>>
    BY <1>1 DEF Moves, Goto, runState, queues
  <1>9. ControlInv'
    BY <1>1, <1>4, <1>7, <1>8 DEF ControlInv
  <1>10. CallsInv'
    <2>1. /\ loop.message.stopReason \in {"stop", "length"}
          /\ loop.mode = "truncated" <=> loop.message.stopReason = "length"
          /\ loop.mode # "none" /\ Len(loop.calls) <= loop.message.calls
          /\ Len(loop.calls) = loop.message.calls \/ aborted
      BY <1>1 DEF CallsInv
    <2>2. CASE pc = "advance" /\ label = "toolStart"
      <3>1. /\ \A j \in DOMAIN loop.calls : j < loop.next =>
                 Status(j) \in {"done"} \cup (IF loop.mode = "parallel" THEN {"prepared"} ELSE {})
            /\ \A j \in DOMAIN loop.calls : j > loop.next => Status(j) = "waiting"
            /\ Status(loop.next) \in {"done"} \cup (IF loop.mode = "parallel" THEN {"prepared"} ELSE {})
        BY <1>1, <2>2 DEF CallsInv
      <3>2. /\ \A j \in DOMAIN loop.calls : j < l.next =>
                 Status(j) \in {"done"} \cup (IF loop.mode = "parallel" THEN {"prepared"} ELSE {})
            /\ \A j \in DOMAIN loop.calls : j > l.next => Status(j) = "waiting"
            /\ Status(l.next) = "waiting"
        BY <1>2, <1>3, <1>4, <3>1
      <3> QED
        BY <1>3, <1>4, <1>7, <1>8, <2>1, <2>2, <3>2 DEF CallsInv, Status
    <2>3. CASE pc = "resultEnd" /\ loop.mode = "parallel" /\ label = "resultStart"
      <3>1. \A j \in DOMAIN loop.calls : Status(j) = "done"
        BY <1>1, <2>3 DEF CallsInv
      <3> QED
        BY <1>2, <1>3, <1>4, <1>7, <1>8, <2>1, <2>3, <3>1 DEF CallsInv, Status
    <2> QED
      BY <2>2, <2>3 DEF Nexts
  <1>11. PendingInv'
    BY <1>1, <1>4, <1>7, <1>8 DEF PendingInv, Status
  <1>12. ErrorInv' /\ MarksInv'
    BY <1>1, <1>7, <1>8 DEF ErrorInv, MarksInv
  <1>13. TurnsInv'
    <2>1. Owed' = Owed
      BY <1>1, <1>4, <1>7, <1>8 DEF Owed
    <2> QED
      BY <1>1, <1>8, <2>1 DEF TurnsInv
  <1> QED
    BY <1>7, <1>9, <1>10, <1>11, <1>12, <1>13 DEF CoreInv

\* The batch is over, perhaps cut short.
Cut == [loop EXCEPT !.calls = FinalizedCalls(loop)]
EndsBatch(l) ==
    /\ \/ pc = "advance" /\ loop.mode # "parallel" /\ LastCall /\ l = Cut
       \/ pc = "resultEnd" /\ loop.mode = "parallel" /\ loop.next = Len(loop.calls) /\ l = loop
    /\ Moves("turnEnd", BatchDone(l))
    /\ AgentType' /\ UNCHANGED <<pendingToolCalls, errorMessage>>
    /\ UNCHANGED <<queues, issued, turn, toolTurns, cleared, executed, marks>>

\* The calls up to the one the loop is at.
LEMMA CutFields ==
    ASSUME CoreInv, pc \in Batch
    PROVE  /\ Cut \in LoopType /\ Cut.calls \in Seq(Call) /\ Len(Cut.calls) = loop.next
           /\ \A j \in 1..loop.next : Cut.calls[j] = loop.calls[j]
           /\ Cut.prompts = loop.prompts /\ Cut.pending = loop.pending /\ Cut.message = loop.message
           /\ Cut.skipPoll = loop.skipPoll /\ Cut.hasMore = loop.hasMore /\ Cut.reason = loop.reason
           /\ Cut.mode = loop.mode /\ Cut.next = loop.next
           /\ Cut.context = loop.context /\ Cut.newMessages = loop.newMessages
  <1>1. loop.calls \in Seq(Call) /\ loop.next \in 1..Len(loop.calls) /\ loop \in LoopType
    BY AtCall DEF CoreInv, TypeInv
  <1> DEFINE calls == SubSeq(loop.calls, 1, loop.next)
  <1>2. calls \in Seq(Call) /\ Len(calls) = loop.next /\ \A j \in 1..loop.next : calls[j] = loop.calls[j]
    BY <1>1, SubSeqProperties
  <1>3. Cut = [loop EXCEPT !.calls = calls]
    BY DEF Cut, FinalizedCalls
  <1> HIDE DEF calls
  <1> QED
    BY <1>1, <1>2, <1>3 DEF LoopType

\* The results of a batch join the context.
LEMMA BatchDoneFields ==
    ASSUME CoreInv, pc \in Batch, NEW l \in LoopType, l.message = loop.message,
           l.prompts = loop.prompts, l.pending = loop.pending,
           l.skipPoll = loop.skipPoll, l.reason = loop.reason,
           Len(l.calls) \in 1..Len(loop.calls), l.mode = loop.mode
    PROVE  /\ BatchDone(l) \in LoopType /\ BatchDone(l).message = loop.message
           /\ BatchDone(l).prompts = loop.prompts /\ BatchDone(l).pending = loop.pending
           /\ BatchDone(l).skipPoll = loop.skipPoll /\ BatchDone(l).reason = loop.reason
           /\ BatchDone(l).context = l.context \o [j \in 1..Len(l.calls) |-> ToolResult(loop.message.id, j)]
           /\ BatchDone(l).newMessages = l.newMessages \o [j \in 1..Len(l.calls) |-> ToolResult(loop.message.id, j)]
           /\ [j \in 1..Len(l.calls) |-> ToolResult(loop.message.id, j)] \in Seq(Message)
           /\ BatchDone(l).mode = loop.mode /\ BatchDone(l).calls = l.calls
  <1>1. /\ l.calls \in Seq(Call) /\ DOMAIN l.calls = 1..Len(l.calls) /\ Len(l.calls) \in Nat
        /\ l.context \in Seq(Message) /\ l.newMessages \in Seq(Message)
    BY DEF LoopType
  <1> DEFINE results == [j \in 1..Len(l.calls) |-> ToolResult(loop.message.id, j)]
             more == l.mode = "truncated" \/ ~ shouldTerminateToolBatch(l.calls)
             ctx == l.context \o results
             new == l.newMessages \o results
  <1>2. results \in Seq(Message)
    <2>0. Len(loop.calls) \in Nat
      BY AtCall
    <2>1. \A j \in 1..Len(l.calls) : j \in 1..Len(loop.calls)
      BY <1>1, <2>0
    <2>2. \A j \in 1..Len(l.calls) : ToolResult(loop.message.id, j) \in Message
      BY <2>1, AtCall
    <2>3. results \in [1..Len(l.calls) -> Message]
      BY <2>2
    <2> QED
      BY <1>1, <2>3, SeqDef
  <1>3. BatchDone(l) = [l EXCEPT !.context = ctx, !.newMessages = new, !.hasMore = more]
    BY <1>1 DEF BatchDone
  <1>4. more \in BOOLEAN
    BY DEF shouldTerminateToolBatch
  <1> HIDE DEF results, more
  <1>5. ctx \in Seq(Message) /\ new \in Seq(Message)
    BY <1>1, <1>2
  <1>6. /\ BatchDone(l).context = ctx /\ BatchDone(l).newMessages = new
        /\ BatchDone(l).message = l.message /\ BatchDone(l).prompts = l.prompts
        /\ BatchDone(l).pending = l.pending /\ BatchDone(l).skipPoll = l.skipPoll
        /\ BatchDone(l).reason = l.reason /\ BatchDone(l).mode = l.mode /\ BatchDone(l).calls = l.calls
    BY <1>3 DEF LoopType
  <1> HIDE DEF ctx, new
  <1>7. BatchDone(l) \in LoopType
    BY <1>3, <1>4, <1>5 DEF LoopType
  <1> QED
    BY <1>2, <1>6, <1>7 DEF ctx, new, results

\* That keeps the invariant.
LEMMA EndsBatchKeeps == ASSUME CoreInv, NEW l, EndsBatch(l) PROVE CoreInv'
  <1>1. /\ TypeInv /\ ControlInv /\ CallsInv /\ PendingInv /\ TurnsInv /\ ErrorInv
        /\ pc \in {"advance", "resultEnd"} /\ Moves("turnEnd", BatchDone(l)) /\ AgentType'
        /\ UNCHANGED <<pendingToolCalls, errorMessage>>
        /\ UNCHANGED <<queues, issued, turn, toolTurns, cleared, marks>>
    BY DEF CoreInv, EndsBatch
  <1>2. /\ loop.calls \in Seq(Call) /\ loop.next \in 1..Len(loop.calls)
        /\ DOMAIN loop.calls = 1..Len(loop.calls) /\ Len(loop.calls) \in Nat
    BY <1>1, AtCall
  <1>3. /\ l \in LoopType /\ l.message = loop.message /\ l.prompts = loop.prompts
        /\ l.pending = loop.pending /\ l.skipPoll = loop.skipPoll /\ l.reason = loop.reason
        /\ Len(l.calls) \in 1..Len(loop.calls) /\ l.mode = loop.mode
    <2>1. CASE l = Cut
      BY <1>1, <1>2, <2>1, CutFields
    <2>2. CASE l = loop
      BY <1>1, <1>2, <2>2 DEF TypeInv
    <2> QED
      BY <2>1, <2>2 DEF EndsBatch
  <1>4. PICK locals : locals = BatchDone(l)
    OBVIOUS
  <1>5. /\ locals \in LoopType /\ locals.message = loop.message /\ locals.prompts = loop.prompts
        /\ locals.pending = loop.pending /\ locals.skipPoll = loop.skipPoll /\ locals.reason = loop.reason
    BY <1>1, <1>3, <1>4, BatchDoneFields
  <1>6. QueueType' /\ turn' \in Nat /\ toolTurns' \in 0..MaxToolTurns
    BY <1>1 DEF TypeInv, QueueType, RunType, queues
  <1>7. Moves("turnEnd", locals) /\ "turnEnd" \in Labels \ {"idle"}
    BY <1>1, <1>4 DEF Labels
  <1>8. TypeInv' /\ pc' = "turnEnd"
    BY <1>1, <1>5, <1>6, <1>7, MovesType
  <1>9. /\ loop' = locals /\ UNCHANGED <<run, aborted, exit, interrupted, orphans, throws>>
        /\ UNCHANGED <<steeringQueue, followUpQueue>>
    BY <1>1, <1>7 DEF Moves, Goto, runState, queues
  <1>10. loop.message.calls > 0 /\ loop.message.stopReason \in {"stop", "length"} /\ loop.reason = "none"
    <2>1. loop.message.calls \in Nat
      BY <1>1, AtCall, MakesMessages, BoundsAssumption
    <2> QED
      BY <1>1, <1>2, <2>1 DEF CallsInv, ControlInv
  <1>11. ControlInv'
    BY <1>1, <1>5, <1>8, <1>9, <1>10 DEF ControlInv, FailedStops
  <1>12. CallsInv' /\ ErrorInv' /\ MarksInv'
    BY <1>1, <1>8, <1>9 DEF CallsInv, ErrorInv, MarksInv
  <1>13. PendingInv'
    <2>1. \A j \in DOMAIN loop.calls : Status(j) \in {"done", "waiting"}
      <3>1. CASE pc = "advance" /\ loop.mode # "parallel"
        <4>1. \A j \in DOMAIN loop.calls :
                /\ j < loop.next => Status(j) = "done"
                /\ j > loop.next => Status(j) = "waiting"
                /\ j = loop.next => Status(j) = "done"
          BY <1>1, <3>1 DEF CallsInv
        <4> QED
          BY <1>2, <4>1
      <3>2. CASE pc = "resultEnd" /\ loop.mode = "parallel"
        BY <1>1, <3>2 DEF CallsInv
      <3> QED
        BY <3>1, <3>2 DEF EndsBatch
    <2>2. pendingToolCalls = {}
      BY <1>1, <2>1 DEF PendingInv, UnderWay
    <2> QED
      BY <1>1, <1>8, <1>9, <2>2 DEF PendingInv
  <1>14. TurnsInv'
    <2>1. Owed' = Owed
      BY <1>1, <1>5, <1>8, <1>9 DEF Owed
    <2> QED
      BY <1>1, <1>9, <2>1 DEF TurnsInv
  <1> QED
    BY <1>8, <1>11, <1>12, <1>13, <1>14 DEF CoreInv

\* Every call that is prepared for a parallel batch starts.
Started ==
    [i \in DOMAIN Cut.calls |->
        IF Cut.calls[i].status = "prepared" THEN [Waiting EXCEPT !.status = "running"] ELSE Cut.calls[i]]
StartsBatch ==
    /\ pc = "advance" /\ LastCall /\ loop.mode = "parallel"
    /\ Moves("parallel", [Cut EXCEPT !.calls = Started])
    /\ UNCHANGED <<agentState, queues, runState, issued, turn, toolTurns, cleared, marks, exit>>

\* That keeps the invariant.
LEMMA StartsBatchKeeps == ASSUME CoreInv, StartsBatch PROVE CoreInv'
  <1> DEFINE l == [Cut EXCEPT !.calls = Started]
  <1>1. /\ TypeInv /\ ControlInv /\ CallsInv /\ PendingInv /\ TurnsInv /\ ErrorInv
        /\ pc = "advance" /\ LastCall /\ loop.mode = "parallel" /\ Moves("parallel", l)
        /\ UNCHANGED <<agentState, queues, runState, issued, turn, toolTurns, cleared, marks, exit>>
    BY DEF CoreInv, StartsBatch
  <1>2. /\ loop.calls \in Seq(Call) /\ loop.next \in 1..Len(loop.calls)
        /\ DOMAIN loop.calls = 1..Len(loop.calls) /\ Len(loop.calls) \in Nat
        /\ loop.message \in AssistantMessage
    BY <1>1, AtCall
  <1>3. /\ Cut \in LoopType /\ Cut.calls \in Seq(Call) /\ Len(Cut.calls) = loop.next
        /\ \A j \in 1..loop.next : Cut.calls[j] = loop.calls[j]
        /\ Cut.prompts = loop.prompts /\ Cut.pending = loop.pending /\ Cut.message = loop.message
        /\ Cut.skipPoll = loop.skipPoll /\ Cut.hasMore = loop.hasMore /\ Cut.reason = loop.reason
        /\ Cut.mode = loop.mode /\ Cut.next = loop.next
    BY <1>1, CutFields
  <1>4. DOMAIN Cut.calls = 1..loop.next
    BY <1>3
  <1>5. [Waiting EXCEPT !.status = "running"] \in Call /\ [Waiting EXCEPT !.status = "running"].status = "running"
    BY DEF Waiting, Call, CallStatus
  <1>6. \A j \in 1..loop.next : loop.calls[j] \in Call
    BY <1>2
  <1>7. Started \in [1..loop.next -> Call]
    BY <1>3, <1>4, <1>5, <1>6 DEF Started
  <1>8. Started \in Seq(Call) /\ Len(Started) = loop.next /\ DOMAIN Started = 1..loop.next
    <2>1. loop.next \in Nat
      BY <1>2
    <2> QED
      BY <1>7, <2>1, SeqDef, LenProperties
  <1>9. \A j \in 1..loop.next : Started[j].status = IF Status(j) = "prepared" THEN "running" ELSE Status(j)
    BY <1>3, <1>4, <1>5 DEF Started, Status
  <1>10. \A j \in 1..loop.next : Status(j) \in {"done", "prepared"}
    <2>1. \A j \in DOMAIN loop.calls : /\ j < loop.next => Status(j) \in {"done", "prepared"}
                                       /\ j = loop.next => Status(j) \in {"done", "prepared"}
      BY <1>1 DEF CallsInv
    <2> QED
      BY <1>2, <2>1
  <1> HIDE DEF Started
  <1>11. /\ l \in LoopType /\ l.calls = Started /\ l.next = loop.next
         /\ l.prompts = loop.prompts /\ l.pending = loop.pending /\ l.message = loop.message
         /\ l.skipPoll = loop.skipPoll /\ l.hasMore = loop.hasMore /\ l.reason = loop.reason
         /\ l.mode = loop.mode
    BY <1>3, <1>8 DEF LoopType
  <1> HIDE DEF l
  <1>12. AgentType' /\ QueueType' /\ turn' \in Nat /\ toolTurns' \in 0..MaxToolTurns
    BY <1>1 DEF TypeInv, QueueType, RunType, queues, AgentType, agentState
  <1>13. TypeInv' /\ pc' = "parallel"
    BY <1>1, <1>11, <1>12, MovesType DEF Labels
  <1>14. /\ loop' = l /\ UNCHANGED <<run, aborted, exit, interrupted, orphans, throws>>
         /\ UNCHANGED <<steeringQueue, followUpQueue, issued, turn, toolTurns, marks>>
         /\ UNCHANGED <<pendingToolCalls, errorMessage>>
    BY <1>1 DEF Moves, Goto, runState, queues, agentState
  <1>15. ControlInv'
    BY <1>1, <1>11, <1>13, <1>14 DEF ControlInv
  <1>16. CallsInv'
    <2>1. /\ loop.message.stopReason \in {"stop", "length"}
          /\ loop.mode = "truncated" <=> loop.message.stopReason = "length"
          /\ Len(loop.calls) <= loop.message.calls
          /\ Len(loop.calls) = loop.message.calls \/ aborted
      BY <1>1 DEF CallsInv
    <2>2. loop.message.calls \in Nat
      BY <1>2, MakesMessages, BoundsAssumption
    <2>3. loop.next \in 1..loop.next /\ loop.next <= loop.message.calls
      BY <1>2, <2>1, <2>2
    <2>4. loop.next = loop.message.calls \/ aborted
      BY <1>1, <2>1 DEF LastCall
    <2>5. \A j \in 1..loop.next : Started[j].status \in {"running", "done"}
      BY <1>9, <1>10
    <2> QED
      BY <1>1, <1>8, <1>11, <1>13, <1>14, <2>1, <2>3, <2>4, <2>5 DEF CallsInv, Status
  <1>17. PendingInv'
    <2>1. \A j \in 1..Len(loop.calls) : j > loop.next => Status(j) = "waiting"
      BY <1>1, <1>2 DEF CallsInv
    <2>2. {j \in 1..Len(loop.calls) : Status(j) \in UnderWay} = {j \in 1..loop.next : Started[j].status \in UnderWay}
      <3>1. \A j \in 1..loop.next : (Status(j) \in UnderWay <=> Started[j].status \in UnderWay)
        BY <1>9, <1>10 DEF UnderWay
      <3>2. \A j \in 1..Len(loop.calls) : Status(j) \in UnderWay => j \in 1..loop.next
        BY <1>2, <2>1 DEF UnderWay
      <3>3. \A j \in 1..loop.next : j \in 1..Len(loop.calls)
        BY <1>2
      <3> QED
        BY <3>1, <3>2, <3>3
    <2>3. pendingToolCalls = {<<loop.message.id, i>> : i \in {j \in 1..loop.next : Started[j].status \in UnderWay}}
      BY <1>1, <1>2, <2>2 DEF PendingInv
    <2> QED
      BY <1>1, <1>8, <1>11, <1>13, <1>14, <2>3 DEF PendingInv, Status
  <1>18. ErrorInv' /\ MarksInv'
    BY <1>1, <1>13, <1>14 DEF ErrorInv, MarksInv
  <1>19. TurnsInv'
    <2>1. Owed' = Owed
      BY <1>1, <1>11, <1>13, <1>14 DEF Owed
    <2> QED
      BY <1>1, <1>14, <2>1 DEF TurnsInv
  <1> QED
    BY <1>13, <1>15, <1>16, <1>17, <1>18, <1>19 DEF CoreInv

\* What the end of the call loop's body does.
LEMMA AdvanceIs ==
    ASSUME CoreInv, Advance
    PROVE  Nexts("toolStart") \/ EndsBatch(Cut) \/ StartsBatch
  <1>1. /\ pc = "advance" /\ UNCHANGED <<agentState, queues, runState, issued, turn, toolTurns, cleared, marks, exit>>
    BY DEF Advance
  <1>2. AgentType'
    BY <1>1, EventTypes DEF Quiet, CoreInv
  <1>3. CASE ~ LastCall /\ loop' = [loop EXCEPT !.next = @ + 1] /\ Goto("toolStart")
    BY <1>1, <1>2, <1>3 DEF Nexts, Moves, agentState
  <1>4. CASE LastCall /\ loop.mode # "parallel" /\ loop' = BatchDone(Cut) /\ Goto("turnEnd") /\ UNCHANGED executed
    BY <1>1, <1>2, <1>4 DEF EndsBatch, Moves, agentState
  <1>5. CASE /\ LastCall /\ loop.mode = "parallel" /\ Goto("parallel")
             /\ loop' = [Cut EXCEPT !.calls = Started]
    BY <1>1, <1>5 DEF StartsBatch, Moves
  <1>6. ASSUME NEW ready, ready = {i \in DOMAIN Cut.calls : Cut.calls[i].status = "prepared"}
        PROVE  [i \in DOMAIN Cut.calls |-> IF i \in ready THEN [Waiting EXCEPT !.status = "running"]
                                                          ELSE Cut.calls[i]] = Started
    BY <1>6 DEF Started
  <1> QED
    BY <1>3, <1>4, <1>5, <1>6 DEF Advance, Cut

\* Promise.all has every outcome.
LEMMA ParallelDoneKeeps == ASSUME CoreInv, ParallelDone PROVE CoreInv'
  <1> DEFINE l == [loop EXCEPT !.next = 1]
  <1>1. /\ TypeInv /\ ControlInv /\ CallsInv /\ PendingInv /\ TurnsInv /\ ErrorInv
        /\ pc = "parallel" /\ loop' = l /\ Goto("resultStart")
        /\ \A i \in DOMAIN loop.calls : loop.calls[i].status = "done"
        /\ UNCHANGED <<agentState, queues, runState, issued, turn, toolTurns, history>>
    BY DEF CoreInv, ParallelDone
  <1>2. /\ loop.calls \in Seq(Call) /\ loop.next \in 1..Len(loop.calls)
        /\ DOMAIN loop.calls = 1..Len(loop.calls) /\ Len(loop.calls) \in Nat
    BY <1>1, AtCall
  <1>4. /\ l \in LoopType /\ l.calls = loop.calls /\ l.next = 1
        /\ l.prompts = loop.prompts /\ l.pending = loop.pending /\ l.message = loop.message
        /\ l.skipPoll = loop.skipPoll /\ l.hasMore = loop.hasMore /\ l.reason = loop.reason
        /\ l.mode = loop.mode
    BY <1>1, <1>2 DEF TypeInv, LoopType
  <1> HIDE DEF l
  <1>5. AgentType' /\ QueueType' /\ turn' \in Nat /\ toolTurns' \in 0..MaxToolTurns
    BY <1>1 DEF TypeInv, QueueType, RunType, queues, AgentType, agentState, history
  <1>6. Moves("resultStart", l)
    BY <1>1 DEF Moves, history
  <1>7. TypeInv' /\ pc' = "resultStart"
    BY <1>1, <1>4, <1>5, <1>6, MovesType DEF Labels
  <1>8. /\ loop' = l /\ UNCHANGED <<run, aborted, exit, interrupted, orphans, throws>>
        /\ UNCHANGED <<steeringQueue, followUpQueue, issued, turn, toolTurns, marks>>
        /\ UNCHANGED <<pendingToolCalls, errorMessage>>
    BY <1>1 DEF Goto, runState, queues, agentState, history
  <1>9. ControlInv'
    BY <1>1, <1>4, <1>7, <1>8 DEF ControlInv
  <1>10. CallsInv'
    <2>1. /\ loop.message.stopReason \in {"stop", "length"} /\ loop.mode = "parallel"
          /\ loop.mode = "truncated" <=> loop.message.stopReason = "length"
          /\ Len(loop.calls) <= loop.message.calls
          /\ Len(loop.calls) = loop.message.calls \/ aborted
      BY <1>1 DEF CallsInv
    <2>2. 1 \in 1..Len(loop.calls)
      BY <1>2
    <2> QED
      BY <1>1, <1>2, <1>4, <1>7, <1>8, <2>1, <2>2 DEF CallsInv, Status
  <1>11. PendingInv'
    BY <1>1, <1>4, <1>7, <1>8 DEF PendingInv, Status
  <1>12. ErrorInv' /\ MarksInv'
    BY <1>1, <1>7, <1>8 DEF ErrorInv, MarksInv
  <1>13. TurnsInv'
    <2>1. Owed' = Owed
      BY <1>1, <1>4, <1>7, <1>8 DEF Owed
    <2> QED
      BY <1>1, <1>8, <2>1 DEF TurnsInv
  <1> QED
    BY <1>7, <1>9, <1>10, <1>11, <1>12, <1>13 DEF CoreInv

\* message_end of a tool result.
LEMMA ResultEndIs ==
    ASSUME CoreInv, ResultEnd
    PROVE  /\ Ends(ToolResult(loop.message.id, loop.next)) /\ LoopFrame
           /\ Unwinds \/ Walks \/ Nexts("resultStart") \/ EndsBatch(loop)
  <1> DEFINE r == ToolResult(loop.message.id, loop.next)
  <1>1. TypeInv /\ pc = "resultEnd" /\ LoopFrame
    BY DEF CoreInv, ResultEnd
  <1>2. r \in Message
    BY <1>1, AtCall
  <1>3. \/ loop.mode # "parallel" /\ Emit(MessageEnd(r), "advance", loop)
        \/ /\ loop.mode = "parallel" /\ loop.next < Len(loop.calls)
           /\ Emit(MessageEnd(r), "resultStart", [loop EXCEPT !.next = @ + 1])
        \/ /\ loop.mode = "parallel" /\ loop.next = Len(loop.calls)
           /\ Emit(MessageEnd(r), "turnEnd", BatchDone(loop))
    BY DEF ResultEnd
  <1> HIDE DEF r
  <1>4. processEvents(MessageEnd(r))
    BY <1>3 DEF Emit
  <1>5. Ends(r)
    BY <1>1, <1>4, Reduces
  <1>6. AgentType'
    BY <1>1, <1>2, <1>5, EventTypes
  <1>7. /\ pendingToolCalls' = pendingToolCalls /\ errorMessage' = errorMessage /\ errorMessage \in BOOLEAN
        /\ UNCHANGED <<queues, issued, turn, toolTurns, cleared, executed, marks>>
    BY <1>1, <1>5 DEF Ends, LoopFrame, TypeInv, AgentType
  <1>8. \/ Unwinds
        \/ loop.mode # "parallel" /\ Moves("advance", loop)
        \/ /\ loop.mode = "parallel" /\ loop.next < Len(loop.calls)
           /\ Moves("resultStart", [loop EXCEPT !.next = @ + 1])
        \/ loop.mode = "parallel" /\ loop.next = Len(loop.calls) /\ Moves("turnEnd", BatchDone(loop))
    BY <1>1, <1>3, <1>6, Emits DEF Looping
  <1>9. Unwinds \/ Walks \/ Nexts("resultStart") \/ EndsBatch(loop)
    BY <1>1, <1>6, <1>7, <1>8 DEF Walks, WalksTo, Nexts, EndsBatch
  <1> QED
    BY <1>1, <1>5, <1>9 DEF r

-----------------------------------------------------------------------------
(* Between turns *)

\* A drain takes a first part of the queue and leaves the rest.
LEMMA Drains ==
    ASSUME NEW q \in Seq(UserMessage), NEW mode
    PROVE  /\ Drained(q, mode) \in Seq(UserMessage) /\ AfterDrain(q, mode) \in Seq(UserMessage)
           /\ Len(Drained(q, mode)) + Len(AfterDrain(q, mode)) = Len(q)
           /\ \A i \in 1..Len(Drained(q, mode)) : Drained(q, mode)[i] = q[i]
           /\ \A i \in 1..Len(AfterDrain(q, mode)) : AfterDrain(q, mode)[i] = q[Len(Drained(q, mode)) + i]
           /\ Drained(q, mode) = <<>> => q = <<>> /\ AfterDrain(q, mode) = <<>>
           /\ Len(Drained(q, mode)) \in Nat /\ Len(AfterDrain(q, mode)) \in Nat
           /\ q # <<>> => Len(Drained(q, mode)) >= 1
  <1>1. CASE mode = "all" \/ q = <<>>
    <2>1. Drained(q, mode) = q /\ AfterDrain(q, mode) = <<>> /\ Len(<<>>) = 0 /\ <<>> \in Seq(UserMessage)
      BY <1>1 DEF Drained, AfterDrain
    <2>2. Len(q) \in Nat /\ (q # <<>> => Len(q) >= 1)
      BY EmptySeq
    <2> QED
      BY <2>1, <2>2
  <1>2. CASE ~ (mode = "all" \/ q = <<>>)
    <2>1. Drained(q, mode) = <<Head(q)>> /\ AfterDrain(q, mode) = Tail(q)
      BY <1>2 DEF Drained, AfterDrain
    <2>2. Head(q) \in UserMessage /\ Tail(q) \in Seq(UserMessage) /\ Len(Tail(q)) = Len(q) - 1 /\ Len(q) \in Nat
      BY <1>2
    <2>3. <<Head(q)>> \in Seq(UserMessage) /\ Len(<<Head(q)>>) = 1 /\ <<Head(q)>>[1] = q[1] /\ <<Head(q)>> # <<>>
      BY <1>2, <2>2
    <2>4. \A i \in 1..Len(Tail(q)) : Tail(q)[i] = q[1 + i]
      BY <1>2, <2>2
    <2>5. Len(q) >= 1
      BY <1>2, <2>2, EmptySeq
    <2> QED
      BY <2>1, <2>2, <2>3, <2>4, <2>5
  <1> QED
    BY <1>1, <1>2

\* shouldStopAfterTurn stops the run.
Stops ==
    /\ pc = "afterTurn" /\ Moves("agentEnd", [loop EXCEPT !.reason = "stopped"])
    /\ UNCHANGED <<agentState, queues, runState, issued, turn, toolTurns, history>>

\* That keeps the invariant.
LEMMA StopsKeeps == ASSUME CoreInv, Stops PROVE CoreInv'
  <1> DEFINE l == [loop EXCEPT !.reason = "stopped"]
  <1>1. /\ TypeInv /\ ControlInv /\ PendingInv /\ TurnsInv /\ ErrorInv
        /\ pc = "afterTurn" /\ Moves("agentEnd", l)
        /\ UNCHANGED <<agentState, queues, runState, issued, turn, toolTurns, history>>
    BY DEF CoreInv, Stops
  <1>4. /\ l \in LoopType /\ l.prompts = loop.prompts /\ l.pending = loop.pending
        /\ l.skipPoll = loop.skipPoll /\ l.reason = "stopped"
    BY <1>1 DEF TypeInv, LoopType, Reasons
  <1> HIDE DEF l
  <1>5. AgentType' /\ QueueType' /\ turn' \in Nat /\ toolTurns' \in 0..MaxToolTurns
    BY <1>1 DEF TypeInv, QueueType, RunType, queues, AgentType, agentState, history
  <1>7. TypeInv' /\ pc' = "agentEnd"
    BY <1>1, <1>4, <1>5, MovesType DEF Labels
  <1>8. /\ loop' = l /\ UNCHANGED <<run, aborted, exit, interrupted, orphans, throws>>
        /\ UNCHANGED <<steeringQueue, followUpQueue, issued, turn, toolTurns, marks>>
        /\ UNCHANGED <<pendingToolCalls, errorMessage>>
    BY <1>1 DEF Moves, Goto, runState, queues, agentState, history
  <1>9. ControlInv'
    BY <1>1, <1>4, <1>7, <1>8 DEF ControlInv
  <1>10. CallsInv' /\ MarksInv'
    BY <1>4, <1>7, <1>8 DEF CallsInv, MarksInv
  <1>11. PendingInv' /\ ErrorInv'
    BY <1>1, <1>4, <1>7, <1>8 DEF PendingInv, ErrorInv
  <1>12. TurnsInv'
    <2>1. Owed' = 0 /\ Owed \in {0, 1}
      BY <1>7 DEF Owed
    <2> QED
      BY <1>1, <1>8, <2>1 DEF TurnsInv, TypeInv, QueueType, RunType
  <1> QED
    BY <1>7, <1>9, <1>10, <1>11, <1>12 DEF CoreInv

\* The hooks after a turn.
LEMMA AfterTurnIs == ASSUME CoreInv, AfterTurn PROVE Unwinds \/ Walks \/ Stops
  <1>1. /\ TypeInv /\ pc = "afterTurn"
        /\ UNCHANGED <<agentState, queues, runState, issued, turn, toolTurns, history>>
    BY DEF CoreInv, AfterTurn
  <1>2. AgentType' /\ errorMessage \in BOOLEAN
    BY <1>1, EventTypes DEF Quiet, TypeInv, AgentType
  <1>3. CASE Goto("pollSteering") /\ UNCHANGED loop
    BY <1>1, <1>2, <1>3 DEF Walks, WalksTo, Moves, LoopFrame, history, agentState
  <1>4. CASE Goto("agentEnd") /\ loop' = [loop EXCEPT !.reason = "stopped"]
    BY <1>1, <1>4 DEF Stops, Moves, history
  <1>5. CASE Throw(0)
    BY <1>1, <1>5, ThrowUnwinds DEF Looping
  <1> QED
    BY <1>3, <1>4, <1>5 DEF AfterTurn

\* The provider, or what is around it, throws.
LEMMA StreamThrowsUnwinds == ASSUME CoreInv, StreamThrows PROVE Unwinds
  BY ThrowUnwinds DEF CoreInv, StreamThrows, Looping

\* The inner loop begins, with what the steering queue had for it.
Polls(taken, label) ==
    /\ pc = "pollSteering"
    /\ IF loop.hasMore \/ taken # <<>> THEN label \in {"turnStart", InjectLabel(taken)}
                                       ELSE label = "pollFollowUp" /\ steeringQueue' = <<>>
    /\ Moves(label, [loop EXCEPT !.pending = taken, !.skipPoll = FALSE, !.firstTurn = FALSE])
    /\ QueueType' /\ UNCHANGED <<agentState, followUpQueue, issued, turn, toolTurns, cleared, executed>>
    /\ Len(steeringQueue') + Len(taken) <= Len(steeringQueue)

\* That keeps the invariant.
LEMMA PollsKeeps ==
    ASSUME CoreInv, NEW taken \in Seq(UserMessage), NEW label, Polls(taken, label)
    PROVE  CoreInv'
  <1> DEFINE l == [loop EXCEPT !.pending = taken, !.skipPoll = FALSE, !.firstTurn = FALSE]
  <1>1. /\ TypeInv /\ ControlInv /\ PendingInv /\ TurnsInv /\ ErrorInv
        /\ pc = "pollSteering" /\ Moves(label, l) /\ QueueType'
        /\ UNCHANGED <<messages, streamingMessage, pendingToolCalls, errorMessage>>
        /\ UNCHANGED <<followUpQueue, issued, turn, toolTurns>>
        /\ Len(steeringQueue') + Len(taken) <= Len(steeringQueue)
        /\ label = "pollFollowUp" => steeringQueue' = <<>> /\ ~ loop.hasMore /\ taken = <<>>
        /\ label # "pollFollowUp" => /\ loop.hasMore \/ taken # <<>>
                                     /\ label \in {"turnStart", InjectLabel(taken)}
    BY DEF CoreInv, Polls, agentState, InjectLabel
  <1>2. /\ l \in LoopType /\ l.prompts = loop.prompts /\ l.pending = taken
        /\ l.skipPoll = FALSE /\ l.reason = loop.reason /\ l.hasMore = loop.hasMore
    BY <1>1 DEF TypeInv, LoopType
  <1> HIDE DEF l
  <1>3. label \in {"turnStart", "stream", "injectStart", "pollFollowUp"} /\ label \in Labels \ {"idle"}
    BY <1>1 DEF InjectLabel, Labels
  <1>4. turn' \in Nat /\ toolTurns' \in 0..MaxToolTurns /\ AgentType'
    BY <1>1 DEF TypeInv, RunType, AgentType
  <1>5. TypeInv' /\ pc' = label
    BY <1>1, <1>2, <1>3, <1>4, MovesType
  <1>6. /\ loop' = l /\ UNCHANGED <<run, aborted, exit, interrupted, orphans, throws>>
    BY <1>1 DEF Moves, Goto, runState
  <1>7. label = "stream" => taken = <<>>
    BY <1>1 DEF InjectLabel
  <1>8. label = "injectStart" => taken # <<>>
    BY <1>1 DEF InjectLabel
  <1>9. ControlInv'
    BY <1>1, <1>2, <1>3, <1>5, <1>6, <1>7, <1>8 DEF ControlInv
  <1>10. CallsInv' /\ MarksInv'
    BY <1>1, <1>3, <1>5 DEF CallsInv, MarksInv
  <1>11. PendingInv' /\ ErrorInv'
    BY <1>1, <1>3, <1>5, <1>6 DEF PendingInv, ErrorInv
  <1>12. TurnsInv'
    <2>1. /\ Len(steeringQueue) \in Nat /\ Len(steeringQueue') \in Nat /\ Len(followUpQueue) \in Nat
          /\ Len(taken) \in Nat /\ turn \in Nat /\ run \in Nat /\ toolTurns \in Nat /\ issued \in Nat
      BY <1>1, BoundsAssumption DEF TypeInv, QueueType, RunType
    <2>2. turn + Owed + Len(steeringQueue) + Len(followUpQueue) <= run + toolTurns + issued
      BY <1>1 DEF TurnsInv
    <2>3. CASE label = "pollFollowUp"
      <3>1. Owed' = 0 /\ Owed \in {0, 1}
        BY <1>5, <2>3 DEF Owed
      <3> QED
        BY <1>1, <1>6, <2>1, <2>2, <3>1 DEF TurnsInv
    <2>4. CASE label # "pollFollowUp" /\ loop.hasMore
      <3>1. Owed' = 1 /\ Owed = 1
        BY <1>1, <1>3, <1>5, <2>4 DEF Owed
      <3> QED
        BY <1>1, <1>6, <2>1, <2>2, <3>1 DEF TurnsInv
    <2>5. CASE label # "pollFollowUp" /\ taken # <<>>
      <3>1. Owed' = 1 /\ Owed \in {0, 1}
        BY <1>3, <1>5, <2>5 DEF Owed
      <3>2. Len(taken) >= 1
        BY <2>1, <2>5, EmptySeq
      <3>3. turn + Owed' + Len(steeringQueue') + Len(followUpQueue) <= run + toolTurns + issued
        BY <1>1, <2>1, <2>2, <3>1, <3>2
      <3> QED
        BY <1>1, <1>6, <3>3 DEF TurnsInv
    <2> QED
      BY <1>1, <2>3, <2>4, <2>5
  <1> QED
    BY <1>5, <1>9, <1>10, <1>11, <1>12 DEF CoreInv

\* getSteeringMessages.
LEMMA PollSteeringIs ==
    ASSUME CoreInv, PollSteering
    PROVE  \E taken \in Seq(UserMessage), label \in Labels :
             /\ Polls(taken, label)
             /\ \/ loop.skipPoll /\ taken = <<>> /\ UNCHANGED <<queues, marks>>
                \/ \E mode : taken = Drained(steeringQueue, mode) /\ steeringQueue' = AfterDrain(steeringQueue, mode)
  <1>1. /\ TypeInv /\ ControlInv /\ pc = "pollSteering"
        /\ UNCHANGED <<agentState, followUpQueue, runState, issued, turn, toolTurns, cleared, executed, exit>>
    BY DEF CoreInv, PollSteering
  <1>2. /\ steeringQueue \in Seq(UserMessage) /\ followUpQueue \in Seq(UserMessage) /\ Len(steeringQueue) \in Nat
        /\ issued \in 0..MaxMsgs /\ marks \in [steering : 0..issued, followUp : 0..issued]
        /\ loop \in LoopType
    BY <1>1 DEF TypeInv, QueueType
  <1>3. ASSUME loop.skipPoll, loop' = [loop EXCEPT !.skipPoll = FALSE, !.firstTurn = FALSE],
               Goto(InnerLabel(loop)), UNCHANGED <<steeringQueue, marks>>
        PROVE  \E label \in Labels : Polls(<<>>, label)
    <2>1. loop.hasMore /\ loop.pending = <<>>
      BY <1>1, <1>3 DEF ControlInv
    <2>2. loop' = [loop EXCEPT !.pending = <<>>, !.skipPoll = FALSE, !.firstTurn = FALSE]
      BY <1>2, <1>3, <2>1 DEF LoopType
    <2>3. InnerLabel(loop) \in {"turnStart", InjectLabel(<<>>)} /\ InnerLabel(loop) \in Labels
      BY <2>1 DEF InnerLabel, InjectLabel, Labels
    <2>4. QueueType'
      BY <1>1, <1>2, <1>3 DEF QueueType
    <2>5. Moves(InnerLabel(loop), [loop EXCEPT !.pending = <<>>, !.skipPoll = FALSE, !.firstTurn = FALSE])
      BY <1>1, <1>3, <2>2 DEF Moves
    <2>6. Len(steeringQueue') + Len(<<>>) <= Len(steeringQueue)
      BY <1>2, <1>3
    <2>7. Polls(<<>>, InnerLabel(loop))
      BY <1>1, <2>1, <2>3, <2>4, <2>5, <2>6 DEF Polls
    <2> QED
      BY <2>3, <2>7
  <1>4. ASSUME ~ loop.skipPoll, NEW mode \in QueueModes, NEW taken, taken = Drained(steeringQueue, mode),
               steeringQueue' = AfterDrain(steeringQueue, mode),
               loop' = [[loop EXCEPT !.pending = taken] EXCEPT !.firstTurn = FALSE],
               Goto(InnerLabel([loop EXCEPT !.pending = taken])),
               marks' = [marks EXCEPT !.steering = issued]
        PROVE  taken \in Seq(UserMessage) /\ \E label \in Labels : Polls(taken, label)
    <2>1. /\ taken \in Seq(UserMessage) /\ steeringQueue' \in Seq(UserMessage)
          /\ Len(taken) + Len(steeringQueue') = Len(steeringQueue)
          /\ taken = <<>> => steeringQueue' = <<>>
          /\ Len(taken) \in Nat /\ Len(steeringQueue') \in Nat
      BY <1>2, <1>4, Drains
    <2>2. loop' = [loop EXCEPT !.pending = taken, !.skipPoll = FALSE, !.firstTurn = FALSE]
      BY <1>2, <1>4 DEF LoopType
    <2> DEFINE label == InnerLabel([loop EXCEPT !.pending = taken])
    <2>3. /\ IF loop.hasMore \/ taken # <<>> THEN label \in {"turnStart", InjectLabel(taken)}
                                             ELSE label = "pollFollowUp"
          /\ label \in Labels
      BY <1>2 DEF InnerLabel, InjectLabel, Labels, LoopType
    <2>4. marks' \in [steering : 0..issued, followUp : 0..issued]
      BY <1>2, <1>4, BoundsAssumption
    <2>5. QueueType'
      BY <1>1, <1>2, <2>1, <2>4 DEF QueueType
    <2>6. Goto(label)
      BY <1>4
    <2> HIDE DEF label
    <2>7. Moves(label, [loop EXCEPT !.pending = taken, !.skipPoll = FALSE, !.firstTurn = FALSE])
      BY <1>1, <2>2, <2>6 DEF Moves
    <2>8. Len(steeringQueue') + Len(taken) <= Len(steeringQueue)
      BY <2>1
    <2>9. Polls(taken, label)
      BY <1>1, <2>1, <2>3, <2>5, <2>7, <2>8 DEF Polls
    <2> QED
      BY <2>1, <2>3, <2>9
  <1>5. CASE loop.skipPoll
    <2>1. UNCHANGED <<queues, marks>>
      BY <1>1, <1>5 DEF PollSteering, queues
    <2>2. PICK label \in Labels : Polls(<<>>, label)
      BY <1>3, <1>5 DEF PollSteering
    <2>3. <<>> \in Seq(UserMessage)
      OBVIOUS
    <2> QED
      BY <1>5, <2>1, <2>2, <2>3
  <1>6. CASE ~ loop.skipPoll
    <2>1. PICK mode \in QueueModes :
            /\ steeringQueue' = AfterDrain(steeringQueue, mode)
            /\ loop' = [[loop EXCEPT !.pending = Drained(steeringQueue, mode)] EXCEPT !.firstTurn = FALSE]
            /\ Goto(InnerLabel([loop EXCEPT !.pending = Drained(steeringQueue, mode)]))
      BY <1>6 DEF PollSteering
    <2>2. marks' = [marks EXCEPT !.steering = issued]
      BY <1>6 DEF PollSteering
    <2>3. PICK taken : taken = Drained(steeringQueue, mode)
      OBVIOUS
    <2>4. /\ loop' = [[loop EXCEPT !.pending = taken] EXCEPT !.firstTurn = FALSE]
          /\ Goto(InnerLabel([loop EXCEPT !.pending = taken]))
      BY <2>1, <2>3
    <2>5. taken \in Seq(UserMessage) /\ \E label \in Labels : Polls(taken, label)
      BY <1>4, <1>6, <2>1, <2>2, <2>3, <2>4
    <2> QED
      BY <2>1, <2>3, <2>5
  <1> QED
    BY <1>5, <1>6

\* getFollowUpMessages: the run is over, or goes on with what the queue had.
Drain(taken) ==
    /\ pc = "pollFollowUp" /\ taken # <<>>
    /\ Moves("turnStart", [loop EXCEPT !.pending = taken, !.hasMore = TRUE])
    /\ QueueType' /\ UNCHANGED <<agentState, steeringQueue, issued, turn, toolTurns, cleared, executed>>
    /\ Len(followUpQueue') + Len(taken) <= Len(followUpQueue)
Dries ==
    /\ pc = "pollFollowUp" /\ followUpQueue = <<>>
    /\ Moves("agentEnd", [loop EXCEPT !.reason = "drained"])
    /\ QueueType' /\ UNCHANGED <<agentState, queues, issued, turn, toolTurns, cleared, executed>>
    /\ marks' = [marks EXCEPT !.followUp = issued]

\* Both keep the invariant.
LEMMA DrainKeeps ==
    ASSUME CoreInv, NEW taken \in Seq(UserMessage), Drain(taken)
    PROVE  CoreInv'
  <1> DEFINE l == [loop EXCEPT !.pending = taken, !.hasMore = TRUE]
  <1>1. /\ TypeInv /\ ControlInv /\ PendingInv /\ TurnsInv /\ ErrorInv
        /\ pc = "pollFollowUp" /\ Moves("turnStart", l) /\ QueueType' /\ taken # <<>>
        /\ UNCHANGED <<messages, streamingMessage, pendingToolCalls, errorMessage>>
        /\ UNCHANGED <<steeringQueue, issued, turn, toolTurns>>
        /\ Len(followUpQueue') + Len(taken) <= Len(followUpQueue)
    BY DEF CoreInv, Drain, agentState
  <1>2. /\ l \in LoopType /\ l.prompts = loop.prompts /\ l.pending = taken
        /\ l.skipPoll = loop.skipPoll /\ l.reason = loop.reason
    BY <1>1 DEF TypeInv, LoopType
  <1> HIDE DEF l
  <1>4. turn' \in Nat /\ toolTurns' \in 0..MaxToolTurns /\ AgentType'
    BY <1>1 DEF TypeInv, RunType, AgentType
  <1>5. TypeInv' /\ pc' = "turnStart"
    BY <1>1, <1>2, <1>4, MovesType DEF Labels
  <1>6. /\ loop' = l /\ UNCHANGED <<run, aborted, exit, interrupted, orphans, throws>>
    BY <1>1 DEF Moves, Goto, runState
  <1>9. ControlInv'
    BY <1>1, <1>2, <1>5, <1>6 DEF ControlInv
  <1>10. CallsInv' /\ MarksInv'
    BY <1>5 DEF CallsInv, MarksInv
  <1>11. PendingInv' /\ ErrorInv'
    BY <1>1, <1>5, <1>6 DEF PendingInv, ErrorInv
  <1>12. TurnsInv'
    <2>1. /\ Len(steeringQueue) \in Nat /\ Len(followUpQueue') \in Nat /\ Len(followUpQueue) \in Nat
          /\ Len(taken) \in Nat /\ turn \in Nat /\ run \in Nat /\ toolTurns \in Nat /\ issued \in Nat
      BY <1>1, BoundsAssumption DEF TypeInv, QueueType, RunType
    <2>2. turn + Owed + Len(steeringQueue) + Len(followUpQueue) <= run + toolTurns + issued
      BY <1>1 DEF TurnsInv
    <2>3. Owed' = 1 /\ Owed \in {0, 1}
      BY <1>5 DEF Owed
    <2>4. Len(taken) >= 1
      BY <1>1, <2>1, EmptySeq
    <2>5. turn + Owed' + Len(steeringQueue) + Len(followUpQueue') <= run + toolTurns + issued
      BY <1>1, <2>1, <2>2, <2>3, <2>4
    <2> QED
      BY <1>1, <1>6, <2>5 DEF TurnsInv
  <1> QED
    BY <1>5, <1>9, <1>10, <1>11, <1>12 DEF CoreInv

\* The run is over because nothing is left to do.
LEMMA DriesKeeps == ASSUME CoreInv, Dries PROVE CoreInv'
  <1> DEFINE l == [loop EXCEPT !.reason = "drained"]
  <1>1. /\ TypeInv /\ ControlInv /\ PendingInv /\ TurnsInv /\ ErrorInv /\ MarksInv
        /\ pc = "pollFollowUp" /\ Moves("agentEnd", l) /\ QueueType' /\ followUpQueue = <<>>
        /\ UNCHANGED <<messages, streamingMessage, pendingToolCalls, errorMessage>>
        /\ UNCHANGED <<steeringQueue, followUpQueue, issued, turn, toolTurns>>
        /\ marks' = [marks EXCEPT !.followUp = issued]
    BY DEF CoreInv, Dries, agentState, queues
  <1>2. /\ l \in LoopType /\ l.prompts = loop.prompts /\ l.pending = loop.pending
        /\ l.skipPoll = loop.skipPoll /\ l.reason = "drained"
    BY <1>1 DEF TypeInv, LoopType, Reasons
  <1> HIDE DEF l
  <1>4. turn' \in Nat /\ toolTurns' \in 0..MaxToolTurns /\ AgentType'
    BY <1>1 DEF TypeInv, RunType, AgentType
  <1>5. TypeInv' /\ pc' = "agentEnd"
    BY <1>1, <1>2, <1>4, MovesType DEF Labels
  <1>6. /\ loop' = l /\ UNCHANGED <<run, aborted, exit, interrupted, orphans, throws>>
    BY <1>1 DEF Moves, Goto, runState
  <1>9. ControlInv'
    BY <1>1, <1>2, <1>5, <1>6 DEF ControlInv
  <1>10. CallsInv' /\ PendingInv' /\ ErrorInv'
    BY <1>1, <1>2, <1>5, <1>6 DEF CallsInv, PendingInv, ErrorInv
  <1>11. MarksInv'
    <2>1. marks'.steering = marks.steering
      BY <1>1 DEF TypeInv, QueueType
    <2> QED
      BY <1>1, <1>5, <2>1 DEF MarksInv
  <1>12. TurnsInv'
    <2>1. Owed' = 0 /\ Owed = 0
      BY <1>1, <1>5 DEF Owed
    <2> QED
      BY <1>1, <1>6, <2>1 DEF TurnsInv
  <1> QED
    BY <1>5, <1>9, <1>10, <1>11, <1>12 DEF CoreInv

\* What getFollowUpMessages does.
LEMMA PollFollowUpIs ==
    ASSUME CoreInv, PollFollowUp
    PROVE  \/ Dries
           \/ \E taken \in Seq(UserMessage), mode \in QueueModes :
                /\ Drain(taken)
                /\ taken = Drained(followUpQueue, mode) /\ followUpQueue' = AfterDrain(followUpQueue, mode)
  <1>1. /\ TypeInv /\ pc = "pollFollowUp" /\ marks' = [marks EXCEPT !.followUp = issued]
        /\ UNCHANGED <<agentState, steeringQueue, runState, issued, turn, toolTurns, cleared, executed, exit>>
    BY DEF CoreInv, PollFollowUp
  <1>2. /\ steeringQueue \in Seq(UserMessage) /\ followUpQueue \in Seq(UserMessage)
        /\ issued \in 0..MaxMsgs /\ marks \in [steering : 0..issued, followUp : 0..issued]
    BY <1>1 DEF TypeInv, QueueType
  <1>3. marks' \in [steering : 0..issued, followUp : 0..issued]
    BY <1>1, <1>2, BoundsAssumption
  <1>4. CASE followUpQueue = <<>> /\ loop' = [loop EXCEPT !.reason = "drained"] /\ Goto("agentEnd") /\ UNCHANGED followUpQueue
    <2>1. QueueType'
      BY <1>1, <1>2, <1>3, <1>4 DEF QueueType
    <2> QED
      BY <1>1, <1>4, <2>1 DEF Dries, Moves, queues
  <1>5. CASE followUpQueue # <<>>
    <2>1. PICK mode \in QueueModes :
            /\ followUpQueue' = AfterDrain(followUpQueue, mode)
            /\ loop' = [loop EXCEPT !.pending = Drained(followUpQueue, mode), !.hasMore = TRUE]
            /\ Goto("turnStart")
      BY <1>5 DEF PollFollowUp
    <2>2. PICK taken : taken = Drained(followUpQueue, mode)
      OBVIOUS
    <2>3. /\ taken \in Seq(UserMessage) /\ followUpQueue' \in Seq(UserMessage)
          /\ Len(taken) + Len(followUpQueue') = Len(followUpQueue)
          /\ Len(taken) \in Nat /\ Len(followUpQueue') \in Nat /\ taken # <<>>
      BY <1>2, <1>5, <2>1, <2>2, Drains
    <2>4. QueueType'
      BY <1>1, <1>2, <1>3, <2>3 DEF QueueType
    <2>5. Moves("turnStart", [loop EXCEPT !.pending = taken, !.hasMore = TRUE])
      BY <1>1, <2>1, <2>2 DEF Moves
    <2>6. Len(followUpQueue') + Len(taken) <= Len(followUpQueue)
      BY <2>3
    <2>7. Drain(taken)
      BY <1>1, <2>3, <2>4, <2>5, <2>6 DEF Drain
    <2> QED
      BY <2>1, <2>2, <2>3, <2>7
  <1> QED
    BY <1>4, <1>5 DEF PollFollowUp

-----------------------------------------------------------------------------
(* The end of a run, and what a failed one left behind *)

\* One event of handleRunFailure.
LEMMA FailureIs ==
    ASSUME CoreInv, handleRunFailure
    PROVE  /\ pc \in Failing /\ pc' \in Failing \cup {"finish"} /\ AgentType'
           /\ pendingToolCalls' = pendingToolCalls /\ throws' \in 0..MaxThrows
           /\ IF pc = "failEnd" THEN messages' = Append(messages, loop.message) ELSE messages' = messages
           /\ UNCHANGED <<loop, interrupted, orphans>> /\ LoopFrame
  <1>1. /\ TypeInv /\ ControlInv /\ pc \in DOMAIN FailureEvents /\ processEvents(FailureEvents[pc].event)
        /\ UNCHANGED <<loop, interrupted, orphans>> /\ LoopFrame
    BY DEF CoreInv, handleRunFailure
  <1>2. pc \in Failing
    BY <1>1 DEF FailureEvents
  <1>3. loop.message \in Message
    BY <1>1, <1>2, MakesMessages DEF ControlInv
  <1>4. throws' \in 0..MaxThrows
    <2>1. throws \in 0..MaxThrows
      BY <1>1 DEF TypeInv, RunType
    <2> QED
      BY <2>1, BoundsAssumption DEF handleRunFailure
  <1>5. pc' = FailureEvents[pc].next \/ pc' = "finish"
    BY DEF handleRunFailure
  <1>6. CASE pc = "failStart"
    <2>1. FailureEvents[pc].event = MessageStart(loop.message) /\ FailureEvents[pc].next = "failEnd"
      BY <1>6 DEF FailureEvents
    <2>2. Starts(loop.message)
      BY <1>1, <2>1, Reduces
    <2>3. AgentType'
      BY <1>1, <1>3, <2>2, EventTypes
    <2> QED
      BY <1>1, <1>2, <1>4, <1>5, <1>6, <2>1, <2>2, <2>3 DEF Starts
  <1>7. CASE pc = "failEnd"
    <2>1. FailureEvents[pc].event = MessageEnd(loop.message) /\ FailureEvents[pc].next = "failTurnEnd"
      BY <1>7 DEF FailureEvents
    <2>2. Ends(loop.message)
      BY <1>1, <2>1, Reduces
    <2>3. AgentType'
      BY <1>1, <1>3, <2>2, EventTypes
    <2> QED
      BY <1>1, <1>2, <1>4, <1>5, <1>7, <2>1, <2>2, <2>3 DEF Ends
  <1>8. CASE pc = "failTurnEnd"
    <2>1. FailureEvents[pc].event = TurnEndEvent(loop.message) /\ FailureEvents[pc].next = "failAgentEnd"
      BY <1>8 DEF FailureEvents
    <2>2. EndsTurn(loop.message)
      BY <1>1, <2>1, Reduces
    <2>3. AgentType'
      BY <1>1, <1>3, <2>2, EventTypes
    <2> QED
      BY <1>1, <1>2, <1>4, <1>5, <1>8, <2>1, <2>2, <2>3 DEF EndsTurn
  <1>9. CASE pc = "failAgentEnd"
    <2>1. FailureEvents[pc].event = Event("agent_end") /\ FailureEvents[pc].next = "finish"
      BY <1>9 DEF FailureEvents
    <2>2. EndsRun
      BY <1>1, <2>1, Reduces
    <2>3. AgentType'
      BY <1>1, <1>3, <2>2, EventTypes
    <2> QED
      BY <1>1, <1>2, <1>4, <1>5, <1>9, <2>1, <2>2, <2>3 DEF EndsRun
  <1> QED
    BY <1>2, <1>6, <1>7, <1>8, <1>9

\* The failure handler keeps the invariant.
LEMMA FailureKeeps == ASSUME CoreInv, handleRunFailure PROVE CoreInv'
  <1>1. /\ pc \in Failing /\ pc' \in Failing \cup {"finish"} /\ AgentType'
        /\ pendingToolCalls' = pendingToolCalls /\ throws' \in 0..MaxThrows
        /\ UNCHANGED <<loop, interrupted, orphans>> /\ LoopFrame
    BY FailureIs
  <1>2. TypeInv /\ ControlInv /\ PendingInv /\ TurnsInv
    BY DEF CoreInv
  <1>3. UNCHANGED <<steeringQueue, followUpQueue, issued, turn, toolTurns, marks, exit, activeRun, aborted, run>>
    BY <1>1 DEF LoopFrame, queues, runState
  <1>4. TypeInv'
    BY <1>1, <1>2, <1>3 DEF TypeInv, QueueType, RunType, Labels
  <1>5. ControlInv'
    BY <1>1, <1>2, <1>3 DEF ControlInv
  <1>6. CallsInv' /\ MarksInv' /\ ErrorInv'
    <2>1. loop'.reason = "failed"
      BY <1>1, <1>2 DEF ControlInv
    <2> QED
      BY <1>1, <2>1 DEF CallsInv, MarksInv, ErrorInv
  <1>7. PendingInv'
    BY <1>1, <1>2, <1>3 DEF PendingInv
  <1>8. TurnsInv'
    <2>1. Owed = 0 /\ Owed' = 0
      BY <1>1 DEF Owed
    <2> QED
      BY <1>2, <1>3, <2>1 DEF TurnsInv
  <1> QED
    BY <1>4, <1>5, <1>6, <1>7, <1>8 DEF CoreInv

\* The run is finished.
LEMMA FinishKeeps == ASSUME CoreInv, finishRun PROVE CoreInv'
  <1>1. TypeInv /\ ControlInv /\ PendingInv /\ TurnsInv /\ ErrorInv /\ MarksInv
    BY DEF CoreInv
  <1>2. /\ pc = "finish" /\ pc' = "idle" /\ activeRun' = FALSE /\ streamingMessage' = None
        /\ pendingToolCalls' = {} /\ loop' = NoLoop /\ exit' = loop.reason
        /\ UNCHANGED <<messages, errorMessage, steeringQueue, followUpQueue, aborted, run, orphans, issued, turn,
                       toolTurns, throws, interrupted, marks>>
    BY DEF finishRun, queues
  <1>3. TypeInv'
    <2>1. loop.reason \in Reasons
      BY <1>1 DEF TypeInv, LoopType
    <2> QED
      BY <1>1, <1>2, <2>1, NoLoopType DEF TypeInv, AgentType, QueueType, RunType, Labels
  <1>4. ControlInv'
    BY <1>1, <1>2, NoLoopType DEF ControlInv
  <1>5. CallsInv' /\ PendingInv' /\ MarksInv'
    BY <1>1, <1>2 DEF CallsInv, PendingInv, MarksInv
  <1>6. ErrorInv'
    BY <1>1, <1>2 DEF ErrorInv
  <1>7. TurnsInv'
    <2>1. Owed = 0 /\ Owed' = 0
      BY <1>2 DEF Owed
    <2> QED
      BY <1>1, <1>2, <2>1 DEF TurnsInv
  <1> QED
    BY <1>3, <1>4, <1>5, <1>6, <1>7 DEF CoreInv

\* An execution left behind completes: the agent shows nothing of it.
LEMMA OrphanKeeps == ASSUME CoreInv, NEW o \in orphans, OrphanCompletes(o) PROVE CoreInv'
  <1>1. TypeInv /\ ControlInv /\ CallsInv /\ PendingInv /\ TurnsInv /\ ErrorInv /\ MarksInv
    BY DEF CoreInv
  <1>2. /\ EndsCall(o) /\ orphans' = orphans \ {o}
        /\ UNCHANGED <<steeringQueue, followUpQueue, activeRun, aborted, run, pc, loop, issued, turn, toolTurns,
                       throws, interrupted, marks, exit>>
    BY <1>1, Reduces DEF OrphanCompletes, queues, runState
  <1>3. AgentType'
    BY <1>1, <1>2, EventTypes
  <1>4. TypeInv'
    BY <1>1, <1>2, <1>3 DEF TypeInv, QueueType, RunType
  <1>5. ControlInv' /\ CallsInv' /\ MarksInv'
    BY <1>1, <1>2 DEF ControlInv, CallsInv, Status, MarksInv
  <1>6. ErrorInv'
    BY <1>1, <1>2 DEF ErrorInv, EndsCall
  <1>7. PendingInv'
    <2>1. pendingToolCalls' = pendingToolCalls \ {o}
      BY <1>2 DEF EndsCall
    <2>2. CASE pc \in Batch
      <3>1. o[1] < turn /\ loop.message.id = turn /\ turn \in Nat /\ o \in ToolCallId
        BY <1>1, <2>2 DEF PendingInv, ControlInv, TypeInv, RunType
      <3>2. o \notin pendingToolCalls
        <4>1. \A i : o # <<loop.message.id, i>>
          BY <3>1, MakesMessages DEF ToolCallId
        <4> QED
          BY <1>1, <2>2, <4>1 DEF PendingInv
      <3>3. pendingToolCalls' = pendingToolCalls
        BY <2>1, <3>2
      <3> QED
        BY <1>1, <1>2, <2>2, <3>3 DEF PendingInv, Status
    <2>3. CASE pc \notin Batch
      BY <1>1, <1>2, <2>1, <2>3 DEF PendingInv
    <2> QED
      BY <2>2, <2>3
  <1>8. TurnsInv'
    BY <1>1, <1>2 DEF TurnsInv, Owed
  <1> QED
    BY <1>4, <1>5, <1>6, <1>7, <1>8 DEF CoreInv

-----------------------------------------------------------------------------
(* The callers *)

\* A message is queued.
Queues ==
    /\ issued' = issued + 1 /\ issued < MaxMsgs
    /\ \/ /\ steeringQueue' = Append(steeringQueue, User(issued + 1, "steer"))
          /\ UNCHANGED followUpQueue
       \/ /\ followUpQueue' = Append(followUpQueue, User(issued + 1, "followUp"))
          /\ UNCHANGED steeringQueue
    /\ UNCHANGED <<agentState, runState, pc, loop, orphans, turn, toolTurns, throws, interrupted, history>>

\* That keeps the invariant, at every await.
LEMMA QueuesKeeps == ASSUME CoreInv, Queues PROVE CoreInv'
  <1>1. TypeInv /\ ControlInv /\ CallsInv /\ PendingInv /\ TurnsInv /\ ErrorInv /\ MarksInv
    BY DEF CoreInv
  <1>2. /\ issued' = issued + 1 /\ issued' \in 1..MaxMsgs /\ issued \in 0..MaxMsgs
        /\ UNCHANGED <<messages, streamingMessage, pendingToolCalls, errorMessage, activeRun, aborted, run, pc, loop,
                       orphans, turn, toolTurns, throws, interrupted, marks, exit>>
    BY <1>1, BoundsAssumption DEF Queues, TypeInv, QueueType, agentState, runState, history
  <1>3. /\ User(issued + 1, "steer") \in UserMessage /\ User(issued + 1, "steer").id = issued + 1
        /\ User(issued + 1, "followUp") \in UserMessage /\ User(issued + 1, "followUp").id = issued + 1
    BY <1>2, MakesMessages DEF Vias
  <1>4. /\ steeringQueue \in Seq(UserMessage) /\ followUpQueue \in Seq(UserMessage)
        /\ steeringQueue' \in Seq(UserMessage) /\ followUpQueue' \in Seq(UserMessage)
        /\ Len(steeringQueue') + Len(followUpQueue') = Len(steeringQueue) + Len(followUpQueue) + 1
        /\ \A i \in DOMAIN steeringQueue' : steeringQueue'[i].id = issued + 1 \/ (i \in DOMAIN steeringQueue /\ steeringQueue'[i] = steeringQueue[i])
        /\ \A i \in DOMAIN followUpQueue' : followUpQueue'[i].id = issued + 1 \/ (i \in DOMAIN followUpQueue /\ followUpQueue'[i] = followUpQueue[i])
    <2>1. steeringQueue \in Seq(UserMessage) /\ followUpQueue \in Seq(UserMessage)
      BY <1>1 DEF TypeInv, QueueType
    <2>2. CASE steeringQueue' = Append(steeringQueue, User(issued + 1, "steer")) /\ followUpQueue' = followUpQueue
      BY <1>3, <2>1, <2>2
    <2>3. CASE followUpQueue' = Append(followUpQueue, User(issued + 1, "followUp")) /\ steeringQueue' = steeringQueue
      BY <1>3, <2>1, <2>3
    <2> QED
      BY <2>2, <2>3 DEF Queues
  <1>5. marks \in [steering : 0..issued, followUp : 0..issued]
    BY <1>1 DEF TypeInv, QueueType
  <1>6. marks' \in [steering : 0..issued', followUp : 0..issued']
    BY <1>2, <1>5
  <1>7. TypeInv'
    BY <1>1, <1>2, <1>4, <1>6 DEF TypeInv, AgentType, QueueType, RunType
  <1>8. ControlInv' /\ CallsInv' /\ PendingInv' /\ ErrorInv'
    BY <1>1, <1>2 DEF ControlInv, CallsInv, PendingInv, ErrorInv, Status
  <1>9. MarksInv'
    <2>1. issued + 1 > marks.steering /\ issued + 1 > marks.followUp
      BY <1>2, <1>5
    <2> QED
      BY <1>1, <1>2, <1>4, <2>1 DEF MarksInv
  <1>10. TurnsInv'
    <2>1. Owed' = Owed
      BY <1>2 DEF Owed
    <2>2. turn + Owed + Len(steeringQueue) + Len(followUpQueue) <= run + toolTurns + issued /\ Owed \in {0, 1}
      BY <1>1 DEF TurnsInv, Owed
    <2>3. /\ Len(steeringQueue) \in Nat /\ Len(followUpQueue) \in Nat /\ Len(steeringQueue') \in Nat
          /\ Len(followUpQueue') \in Nat /\ turn \in Nat /\ run \in Nat /\ toolTurns \in Nat /\ issued \in Nat
      BY <1>1, <1>4, BoundsAssumption DEF TypeInv, RunType, QueueType
    <2>4. turn + Owed + Len(steeringQueue') + Len(followUpQueue') <= run + toolTurns + issued'
      BY <1>2, <1>4, <2>2, <2>3
    <2> QED
      BY <1>2, <2>1, <2>4 DEF TurnsInv
  <1> QED
    BY <1>7, <1>8, <1>9, <1>10 DEF CoreInv

\* steer and followUp.
LEMMA SteerQueues == (steer \/ followUp) => Queues
  BY DEF steer, followUp, Queues, enqueue, queues

\* Clearing queues keeps the invariant.
LEMMA ClearKeeps ==
    ASSUME CoreInv, NEW s \in BOOLEAN, NEW f \in BOOLEAN, clearQueues(s, f)
    PROVE  CoreInv'
  <1>1. TypeInv /\ ControlInv /\ CallsInv /\ PendingInv /\ TurnsInv /\ ErrorInv /\ MarksInv
    BY DEF CoreInv
  <1>2. UNCHANGED <<messages, streamingMessage, pendingToolCalls, errorMessage, activeRun, aborted, run, pc, loop,
                    orphans, issued, turn, toolTurns, throws, interrupted, marks, exit>>
    BY DEF clearQueues, agentState, runState
  <1>3. steeringQueue' \in {<<>>, steeringQueue} /\ followUpQueue' \in {<<>>, followUpQueue}
    BY DEF clearQueues
  <1>4. /\ steeringQueue \in Seq(UserMessage) /\ followUpQueue \in Seq(UserMessage)
        /\ steeringQueue' \in Seq(UserMessage) /\ followUpQueue' \in Seq(UserMessage)
        /\ Len(steeringQueue') <= Len(steeringQueue) /\ Len(followUpQueue') <= Len(followUpQueue)
    <2>1. steeringQueue \in Seq(UserMessage) /\ followUpQueue \in Seq(UserMessage)
      BY <1>1 DEF TypeInv, QueueType
    <2>2. <<>> \in Seq(UserMessage) /\ Len(<<>>) = 0
      OBVIOUS
    <2>3. ASSUME NEW q \in Seq(UserMessage), NEW r \in {<<>>, q}
          PROVE  r \in Seq(UserMessage) /\ Len(r) <= Len(q)
      <3>1. Len(q) \in Nat
        OBVIOUS
      <3>2. CASE r = <<>>
        BY <2>2, <3>1, <3>2
      <3>3. CASE r = q
        BY <3>1, <3>3
      <3> QED
        BY <3>2, <3>3
    <2> QED
      BY <1>3, <2>1, <2>3
  <1>5. TypeInv'
    BY <1>1, <1>2, <1>4 DEF TypeInv, AgentType, QueueType, RunType
  <1>6. ControlInv' /\ CallsInv' /\ PendingInv' /\ ErrorInv'
    BY <1>1, <1>2 DEF ControlInv, CallsInv, PendingInv, ErrorInv, Status
  <1>7. MarksInv'
    BY <1>1, <1>2, <1>3 DEF MarksInv
  <1>8. TurnsInv'
    <2>1. Owed' = Owed
      BY <1>2 DEF Owed
    <2>2. turn + Owed + Len(steeringQueue) + Len(followUpQueue) <= run + toolTurns + issued /\ Owed \in {0, 1}
      BY <1>1 DEF TurnsInv, Owed
    <2>3. /\ Len(steeringQueue) \in Nat /\ Len(followUpQueue) \in Nat /\ Len(steeringQueue') \in Nat
          /\ Len(followUpQueue') \in Nat /\ turn \in Nat /\ run \in Nat /\ toolTurns \in Nat /\ issued \in Nat
      BY <1>1, <1>4, BoundsAssumption DEF TypeInv, RunType, QueueType
    <2>4. turn + Owed + Len(steeringQueue') + Len(followUpQueue') <= run + toolTurns + issued
      BY <1>4, <2>2, <2>3
    <2> QED
      BY <1>2, <2>1, <2>4 DEF TurnsInv
  <1> QED
    BY <1>5, <1>6, <1>7, <1>8 DEF CoreInv

\* So do abort and reset.
LEMMA AbortKeeps == ASSUME CoreInv, abort PROVE CoreInv'
  <1>1. TypeInv /\ ControlInv /\ CallsInv /\ PendingInv /\ TurnsInv /\ ErrorInv /\ MarksInv
    BY DEF CoreInv
  <1>2. /\ aborted' = TRUE /\ interrupted' = interrupted \cup {run}
        /\ UNCHANGED <<messages, streamingMessage, pendingToolCalls, errorMessage, steeringQueue, followUpQueue,
                       activeRun, run, pc, loop, orphans, issued, turn, toolTurns, throws, marks, exit>>
    BY DEF abort, agentState, queues, history
  <1>3. TypeInv'
    BY <1>1, <1>2 DEF TypeInv, AgentType, QueueType, RunType
  <1>4. ControlInv' /\ CallsInv' /\ PendingInv' /\ ErrorInv'
    BY <1>1, <1>2 DEF ControlInv, CallsInv, PendingInv, ErrorInv, Status
  <1>5. MarksInv' /\ TurnsInv'
    BY <1>1, <1>2 DEF MarksInv, TurnsInv, Owed
  <1> QED
    BY <1>3, <1>4, <1>5 DEF CoreInv

\* reset of an idle agent.
LEMMA ResetKeeps == ASSUME CoreInv, reset PROVE CoreInv'
  <1>1. TypeInv /\ ControlInv /\ PendingInv /\ TurnsInv /\ pc = "idle"
    BY DEF CoreInv, reset, TypeInv, RunType
  <1>2. /\ messages' = <<>> /\ streamingMessage' = None /\ pendingToolCalls' = {} /\ errorMessage' = FALSE
        /\ steeringQueue' = <<>> /\ followUpQueue' = <<>> /\ exit' = "none"
        /\ UNCHANGED <<activeRun, aborted, run, pc, loop, orphans, issued, turn, toolTurns, throws, interrupted, marks>>
    BY DEF reset, runState
  <1>3. /\ <<>> \in Seq(Message) /\ <<>> \in Seq(UserMessage) /\ Len(<<>>) = 0
    OBVIOUS
  <1>4. TypeInv'
    BY <1>1, <1>2, <1>3 DEF TypeInv, AgentType, QueueType, RunType, Reasons
  <1>5. ControlInv' /\ CallsInv' /\ PendingInv' /\ ErrorInv' /\ MarksInv'
    BY <1>1, <1>2 DEF ControlInv, CallsInv, PendingInv, ErrorInv, MarksInv
  <1>6. TurnsInv'
    <2>1. Owed' = 0 /\ Owed = 0
      BY <1>1, <1>2 DEF Owed
    <2>2. /\ Len(steeringQueue) \in Nat /\ Len(followUpQueue) \in Nat
          /\ turn \in Nat /\ run \in Nat /\ toolTurns \in Nat /\ issued \in Nat
      BY <1>1, BoundsAssumption DEF TypeInv, RunType, QueueType
    <2> QED
      BY <1>1, <1>2, <1>3, <2>1, <2>2 DEF TurnsInv
  <1> QED
    BY <1>4, <1>5, <1>6 DEF CoreInv

\* A run starts.
StartsRun(prompts, skip) ==
    /\ ~ activeRun /\ runWithLifecycle(prompts, skip) /\ QueueType'
    /\ Len(steeringQueue') + Len(followUpQueue') + issued <= Len(steeringQueue) + Len(followUpQueue) + issued'

\* That keeps the invariant.
LEMMA StartsRunKeeps ==
    ASSUME CoreInv, NEW prompts \in Seq(UserMessage), NEW skip \in BOOLEAN, StartsRun(prompts, skip)
    PROVE  CoreInv'
  <1>1. TypeInv /\ ControlInv /\ PendingInv /\ TurnsInv /\ pc = "idle" /\ QueueType'
    BY DEF CoreInv, StartsRun, TypeInv, RunType
  <1> DEFINE context == messages \o prompts
             l == [NoLoop EXCEPT !.context = context, !.newMessages = prompts,
                                 !.prompts = prompts, !.skipPoll = skip]
  <1>2. /\ run < MaxRuns /\ run' = run + 1 /\ activeRun' = TRUE /\ aborted' = FALSE /\ streamingMessage' = None
        /\ errorMessage' = FALSE /\ loop' = l /\ pc' = "agentStart" /\ exit' = "none"
        /\ UNCHANGED <<messages, pendingToolCalls, orphans, turn, toolTurns, throws, interrupted, marks>>
    BY DEF StartsRun, runWithLifecycle
  <1>3. prompts \in Seq(Message) /\ context \in Seq(Message)
    <2>1. messages \in Seq(Message) /\ UserMessage \subseteq Message
      BY <1>1, MakesMessages DEF TypeInv, AgentType
    <2>2. prompts \in Seq(Message)
      BY <2>1
    <2> QED
      BY <2>1, <2>2
  <1> HIDE DEF context
  <1>4. /\ l \in LoopType /\ l.prompts = prompts /\ l.pending = <<>> /\ l.hasMore = TRUE /\ l.reason = "none"
    BY <1>3, NoLoopType DEF LoopType
  <1> HIDE DEF l
  <1>5. run \in 0..MaxRuns /\ run' \in 1..MaxRuns
    BY <1>1, <1>2, BoundsAssumption DEF TypeInv, RunType
  <1>6. TypeInv'
    <2>1. AgentType'
      BY <1>1, <1>2 DEF TypeInv, AgentType
    <2>2. RunType'
      <3>1. turn \in Nat /\ throws \in 0..MaxThrows /\ toolTurns \in 0..MaxToolTurns
        BY <1>1 DEF TypeInv, RunType
      <3>2. run' \in 0..MaxRuns
        BY <1>5, BoundsAssumption
      <3>3. activeRun' = (pc' # "idle")
        BY <1>2
      <3> QED
        BY <1>2, <3>1, <3>2, <3>3 DEF RunType
    <2> QED
      BY <1>1, <1>2, <1>4, <2>1, <2>2 DEF TypeInv, Labels, Reasons
  <1>7. ControlInv'
    BY <1>1, <1>2, <1>4, <1>5 DEF ControlInv
  <1>8. CallsInv' /\ PendingInv' /\ ErrorInv' /\ MarksInv'
    BY <1>1, <1>2 DEF CallsInv, PendingInv, ErrorInv, MarksInv
  <1>9. TurnsInv'
    <2>1. Owed' = 1 /\ Owed = 0
      BY <1>1, <1>2 DEF Owed
    <2>2. turn + Owed + Len(steeringQueue) + Len(followUpQueue) <= run + toolTurns + issued
      BY <1>1 DEF TurnsInv
    <2>3. /\ Len(steeringQueue) \in Nat /\ Len(followUpQueue) \in Nat /\ Len(steeringQueue') \in Nat
          /\ Len(followUpQueue') \in Nat /\ turn \in Nat /\ run \in Nat /\ toolTurns \in Nat /\ issued \in Nat
          /\ issued' \in Nat
      BY <1>1, BoundsAssumption DEF TypeInv, RunType, QueueType
    <2>4. Len(steeringQueue') + Len(followUpQueue') + issued <= Len(steeringQueue) + Len(followUpQueue) + issued'
      BY DEF StartsRun
    <2>5. turn + Owed' + Len(steeringQueue') + Len(followUpQueue') <= run' + toolTurns + issued'
      BY <1>2, <2>1, <2>2, <2>3, <2>4
    <2> QED
      BY <1>2, <2>5 DEF TurnsInv
  <1> QED
    BY <1>6, <1>7, <1>8, <1>9 DEF CoreInv

\* How prompt and continue start it.
LEMMA PromptStarts ==
    ASSUME CoreInv, prompt
    PROVE  /\ issued + 1 \in 1..MaxMsgs /\ <<User(issued + 1, "prompt")>> \in Seq(UserMessage)
           /\ StartsRun(<<User(issued + 1, "prompt")>>, FALSE)
           /\ issued' = issued + 1 /\ UNCHANGED queues
  <1>1. /\ ~ activeRun /\ issued < MaxMsgs /\ issued' = issued + 1 /\ UNCHANGED queues
        /\ runWithLifecycle(<<User(issued + 1, "prompt")>>, FALSE)
    BY DEF prompt
  <1>2. /\ issued \in 0..MaxMsgs /\ marks \in [steering : 0..issued, followUp : 0..issued] /\ marks' = marks
        /\ steeringQueue \in Seq(UserMessage) /\ followUpQueue \in Seq(UserMessage)
        /\ steeringQueue' = steeringQueue /\ followUpQueue' = followUpQueue
    BY <1>1 DEF CoreInv, TypeInv, QueueType, runWithLifecycle, queues
  <1>3. issued + 1 \in 1..MaxMsgs
    BY <1>1, <1>2, BoundsAssumption
  <1>4. User(issued + 1, "prompt") \in UserMessage
    BY <1>3, MakesMessages DEF Vias
  <1>5. marks \in [steering : 0..(issued + 1), followUp : 0..(issued + 1)]
    BY <1>2
  <1>6. QueueType'
    BY <1>1, <1>2, <1>3, <1>5, BoundsAssumption DEF QueueType
  <1>7. Len(steeringQueue') + Len(followUpQueue') + issued <= Len(steeringQueue) + Len(followUpQueue) + issued'
    BY <1>1, <1>2, BoundsAssumption
  <1>8. <<User(issued + 1, "prompt")>> \in Seq(UserMessage)
    BY <1>4
  <1>9. StartsRun(<<User(issued + 1, "prompt")>>, FALSE)
    BY <1>1, <1>6, <1>7 DEF StartsRun
  <1> QED
    BY <1>1, <1>3, <1>8, <1>9

\* continue from an assistant message takes from a queue; else it takes nothing.
LEMMA ContinueStarts ==
    ASSUME CoreInv, continue
    PROVE  /\ issued' = issued /\ messages # <<>>
           /\ \/ \E prompts \in Seq(UserMessage), mode \in QueueModes :
                   /\ StartsRun(prompts, TRUE) /\ prompts = Drained(steeringQueue, mode)
                   /\ steeringQueue' = AfterDrain(steeringQueue, mode) /\ UNCHANGED followUpQueue
              \/ \E prompts \in Seq(UserMessage), mode \in QueueModes :
                   /\ StartsRun(prompts, FALSE) /\ prompts = Drained(followUpQueue, mode)
                   /\ followUpQueue' = AfterDrain(followUpQueue, mode) /\ UNCHANGED steeringQueue
              \/ StartsRun(<<>>, FALSE) /\ UNCHANGED queues
  <1>1. ~ activeRun /\ messages # <<>> /\ issued' = issued
    BY DEF continue
  <1>2. /\ issued \in 0..MaxMsgs /\ marks \in [steering : 0..issued, followUp : 0..issued]
        /\ steeringQueue \in Seq(UserMessage) /\ followUpQueue \in Seq(UserMessage)
        /\ Len(steeringQueue) \in Nat /\ Len(followUpQueue) \in Nat
    BY DEF CoreInv, TypeInv, QueueType
  <1>3. ASSUME NEW mode, steeringQueue' = AfterDrain(steeringQueue, mode), followUpQueue' = followUpQueue,
               runWithLifecycle(Drained(steeringQueue, mode), TRUE)
        PROVE  Drained(steeringQueue, mode) \in Seq(UserMessage) /\ StartsRun(Drained(steeringQueue, mode), TRUE)
    <2>1. /\ Drained(steeringQueue, mode) \in Seq(UserMessage) /\ steeringQueue' \in Seq(UserMessage)
          /\ Len(Drained(steeringQueue, mode)) + Len(steeringQueue') = Len(steeringQueue)
          /\ Len(Drained(steeringQueue, mode)) \in Nat /\ Len(steeringQueue') \in Nat
      BY <1>2, <1>3, Drains
    <2>2. marks' = marks
      BY <1>3 DEF runWithLifecycle
    <2>3. QueueType'
      BY <1>1, <1>2, <1>3, <2>1, <2>2 DEF QueueType
    <2>4. Len(steeringQueue') + Len(followUpQueue') + issued <= Len(steeringQueue) + Len(followUpQueue) + issued'
      BY <1>1, <1>2, <1>3, <2>1, BoundsAssumption
    <2> QED
      BY <1>1, <1>3, <2>1, <2>3, <2>4 DEF StartsRun
  <1>4. ASSUME NEW mode, followUpQueue' = AfterDrain(followUpQueue, mode), steeringQueue' = steeringQueue,
               runWithLifecycle(Drained(followUpQueue, mode), FALSE)
        PROVE  Drained(followUpQueue, mode) \in Seq(UserMessage) /\ StartsRun(Drained(followUpQueue, mode), FALSE)
    <2>1. /\ Drained(followUpQueue, mode) \in Seq(UserMessage) /\ followUpQueue' \in Seq(UserMessage)
          /\ Len(Drained(followUpQueue, mode)) + Len(followUpQueue') = Len(followUpQueue)
          /\ Len(Drained(followUpQueue, mode)) \in Nat /\ Len(followUpQueue') \in Nat
      BY <1>2, <1>4, Drains
    <2>2. marks' = marks
      BY <1>4 DEF runWithLifecycle
    <2>3. QueueType'
      BY <1>1, <1>2, <1>4, <2>1, <2>2 DEF QueueType
    <2>4. Len(steeringQueue') + Len(followUpQueue') + issued <= Len(steeringQueue) + Len(followUpQueue) + issued'
      BY <1>1, <1>2, <1>4, <2>1, BoundsAssumption
    <2> QED
      BY <1>1, <1>4, <2>1, <2>3, <2>4 DEF StartsRun
  <1>5. ASSUME runWithLifecycle(<<>>, FALSE), UNCHANGED queues
        PROVE  StartsRun(<<>>, FALSE)
    <2>1. marks' = marks /\ steeringQueue' = steeringQueue /\ followUpQueue' = followUpQueue
      BY <1>5 DEF runWithLifecycle, queues
    <2>2. QueueType'
      BY <1>1, <1>2, <2>1 DEF QueueType
    <2>3. Len(steeringQueue') + Len(followUpQueue') + issued <= Len(steeringQueue) + Len(followUpQueue) + issued'
      BY <1>1, <1>2, <2>1, BoundsAssumption
    <2> QED
      BY <1>1, <1>5, <2>2, <2>3 DEF StartsRun
  <1>6. CASE \E mode \in QueueModes :
               /\ steeringQueue' = AfterDrain(steeringQueue, mode)
               /\ runWithLifecycle(Drained(steeringQueue, mode), TRUE) /\ UNCHANGED followUpQueue
    BY <1>1, <1>3, <1>6
  <1>7. CASE \E mode \in QueueModes :
               /\ followUpQueue' = AfterDrain(followUpQueue, mode)
               /\ runWithLifecycle(Drained(followUpQueue, mode), FALSE) /\ UNCHANGED steeringQueue
    BY <1>1, <1>4, <1>7
  <1>8. CASE runWithLifecycle(<<>>, FALSE) /\ UNCHANGED queues
    BY <1>1, <1>5, <1>8
  <1> QED
    BY <1>6, <1>7, <1>8 DEF continue

-----------------------------------------------------------------------------
(* The invariant *)

\* It holds of an agent that has done nothing.
LEMMA CoreInit == Init => CoreInv
  <1> SUFFICES ASSUME Init PROVE CoreInv
    OBVIOUS
  <1>1. /\ messages = <<>> /\ streamingMessage = None
        /\ pendingToolCalls = {} /\ errorMessage = FALSE
        /\ steeringQueue = <<>> /\ followUpQueue = <<>>
        /\ activeRun = FALSE /\ aborted = FALSE /\ run = 0
        /\ pc = "idle" /\ loop = NoLoop /\ orphans = {}
        /\ issued = 0 /\ turn = 0 /\ toolTurns = 0 /\ throws = 0
        /\ marks = [steering |-> 0, followUp |-> 0] /\ exit = "none"
    BY DEF Init
  <1>2. /\ <<>> \in Seq(Message) /\ <<>> \in Seq(UserMessage) /\ Len(<<>>) = 0
    OBVIOUS
  <1>3. TypeInv
    <2>1. AgentType
      BY <1>1, <1>2 DEF AgentType
    <2>2. QueueType
      BY <1>1, <1>2, BoundsAssumption DEF QueueType
    <2>3. RunType
      <3>1. activeRun = (pc # "idle")
        BY <1>1
      <3>2. 0 \in 0..MaxRuns /\ 0 \in 0..MaxThrows /\ 0 \in 0..MaxToolTurns
        BY BoundsAssumption
      <3> QED
        BY <1>1, <3>1, <3>2 DEF RunType
    <2> QED
      BY <1>1, <2>1, <2>2, <2>3, NoLoopType DEF TypeInv, Labels, Reasons
  <1>4. ControlInv
    BY <1>1, NoLoopType DEF ControlInv
  <1>5. CallsInv /\ PendingInv /\ ErrorInv /\ MarksInv
    BY <1>1 DEF CallsInv, PendingInv, ErrorInv, MarksInv
  <1>6. TurnsInv
    BY <1>1, <1>2 DEF TurnsInv, Owed
  <1> QED
    BY <1>3, <1>4, <1>5, <1>6 DEF CoreInv

\* Every step keeps it.
LEMMA CoreStep == ASSUME CoreInv, [Next]_vars PROVE CoreInv'
  <1>1. CASE Caller
    <2>1. CASE steer \/ followUp
      BY <2>1, SteerQueues, QueuesKeeps
    <2>2. CASE abort
      BY <2>2, AbortKeeps
    <2>3. CASE reset
      BY <2>3, ResetKeeps
    <2>4. CASE prompt
      BY <2>4, PromptStarts, StartsRunKeeps
    <2>5. CASE continue
      <3>1. <<>> \in Seq(UserMessage)
        OBVIOUS
      <3> QED
        BY <2>5, <3>1, ContinueStarts, StartsRunKeeps
    <2>6. CASE clearQueues(TRUE, FALSE) \/ clearQueues(FALSE, TRUE) \/ clearQueues(TRUE, TRUE)
      BY <2>6, ClearKeeps
    <2> QED
      BY <1>1, <2>1, <2>2, <2>3, <2>4, <2>5, <2>6 DEF Caller
  <1>2. CASE LoopStep
    <2>1. CASE AgentStart \/ FirstTurnStart \/ PromptMessageStart \/ TurnStart \/ InjectStart
               \/ ResultStart \/ AgentEnd \/ TurnEnd
      <3>1. Unwinds \/ Walks
        BY <2>1, AgentStartWalks, FirstTurnStartWalks, PromptMessageStartWalks, TurnStartWalks,
           InjectStartWalks, ResultStartWalks, AgentEndWalks, TurnEndWalks
      <3> QED
        BY <3>1, UnwindsKeeps, WalksKeeps
    <2>2. CASE PromptMessageEnd \/ InjectEnd \/ StreamPartial \/ StreamWhole \/ StreamFinal \/ AnswerEnd
      <3>1. Unwinds \/ CoreInv'
        BY <2>2, PromptMessageEndKeeps, InjectEndKeeps, StreamPartialKeeps, StreamWholeKeeps,
           StreamFinalKeeps, AnswerEndKeeps
      <3> QED
        BY <3>1, UnwindsKeeps
    <2>3. CASE ToolStart \/ PrepareToolCall \/ Execute \/ ExecuteSettles \/ ToolEnd
      <3>1. Unwinds \/ \E c \in Call, label \in Labels : CallMoves(loop.next, c, label)
        BY <2>3, ToolStartMoves, PrepareMoves, ExecuteMoves, ExecuteSettlesMoves, ToolEndMoves
      <3>2. loop.next \in 1..Len(loop.calls)
        <4>1. pc \in Batch
          BY <2>3 DEF ToolStart, PrepareToolCall, Execute, ExecuteSettles, ToolEnd
        <4> QED
          BY <4>1, AtCall
      <3> QED
        BY <3>1, <3>2, UnwindsKeeps, CallMovesKeeps
    <2>4. CASE \E i \in 1..MaxCalls : ParallelCompletes(i)
      BY <2>4, ParallelCompletesMoves, UnwindsKeeps, CallMovesKeeps
    <2>5. CASE Advance \/ ResultEnd
      <3>1. \/ Unwinds \/ Walks \/ StartsBatch
            \/ \E label : Nexts(label)
            \/ \E l : EndsBatch(l)
        BY <2>5, AdvanceIs, ResultEndIs
      <3> QED
        BY <3>1, UnwindsKeeps, WalksKeeps, StartsBatchKeeps, NextsKeeps, EndsBatchKeeps
    <2>6. CASE ParallelDone
      BY <2>6, ParallelDoneKeeps
    <2>7. CASE AfterTurn \/ StreamThrows
      BY <2>7, AfterTurnIs, StreamThrowsUnwinds, UnwindsKeeps, WalksKeeps, StopsKeeps
    <2>8. CASE PollSteering
      BY <2>8, PollSteeringIs, PollsKeeps
    <2>9. CASE PollFollowUp
      BY <2>9, PollFollowUpIs, DriesKeeps, DrainKeeps
    <2>10. CASE handleRunFailure
      BY <2>10, FailureKeeps
    <2>11. CASE finishRun
      BY <2>11, FinishKeeps
    <2> QED
      BY <1>2, <2>1, <2>2, <2>3, <2>4, <2>5, <2>6, <2>7, <2>8, <2>9, <2>10, <2>11 DEF LoopStep
  <1>3. CASE \E o \in orphans : OrphanCompletes(o)
    BY <1>3, OrphanKeeps
  <1>4. CASE UNCHANGED vars
    <2>1. UNCHANGED <<messages, streamingMessage, pendingToolCalls, errorMessage, steeringQueue, followUpQueue,
                      activeRun, aborted, run, pc, loop, orphans, issued, turn, toolTurns, throws, interrupted,
                      marks, exit>>
      BY <1>4 DEF vars, agentState, queues, runState, history
    <2>2. TypeInv /\ ControlInv /\ CallsInv /\ PendingInv /\ TurnsInv /\ ErrorInv /\ MarksInv
      BY DEF CoreInv
    <2>3. TypeInv'
      BY <2>1, <2>2 DEF TypeInv, AgentType, QueueType, RunType
    <2>4. ControlInv' /\ CallsInv' /\ PendingInv' /\ ErrorInv'
      BY <2>1, <2>2 DEF ControlInv, CallsInv, PendingInv, ErrorInv, Status
    <2>5. MarksInv' /\ TurnsInv'
      BY <2>1, <2>2 DEF MarksInv, TurnsInv, Owed
    <2> QED
      BY <2>3, <2>4, <2>5 DEF CoreInv
  <1> QED
    BY <1>1, <1>2, <1>3, <1>4 DEF Next

\* The inductive invariant of the agent and its loop.
THEOREM CoreCorrect == Spec => []CoreInv
  <1>1. CoreInv /\ [Next]_vars => CoreInv'
    BY CoreStep
  <1> QED
    BY <1>1, CoreInit, PTL DEF Spec

\* Every variable stays in its type. There is always an id for the next answer:
\* a request is owed to a run, a queued message or an answer with tool calls.
THEOREM TypeCorrect == Spec => []TypeOK
  <1>1. CoreInv => TypeOK
    <2> SUFFICES ASSUME CoreInv PROVE TypeOK
      OBVIOUS
    <2>1. TypeInv /\ TurnsInv
      BY DEF CoreInv
    <2>2. /\ loop.pending \in Seq(UserMessage) /\ loop.prompts \in Seq(UserMessage) /\ loop.calls \in Seq(Call)
          /\ loop.reason \in Reasons
      BY <2>1 DEF TypeInv, LoopType
    <2>3. turn \in 0..MaxTurns
      <3>1. /\ Len(steeringQueue) \in Nat /\ Len(followUpQueue) \in Nat /\ turn \in Nat /\ Owed \in {0, 1}
            /\ run \in 0..MaxRuns /\ toolTurns \in 0..MaxToolTurns /\ issued \in 0..MaxMsgs
        BY <2>1 DEF TypeInv, RunType, QueueType, Owed
      <3>2. turn + Owed + Len(steeringQueue) + Len(followUpQueue) <= run + toolTurns + issued
        BY <2>1 DEF TurnsInv
      <3> QED
        BY <3>1, <3>2, MakesMessages, BoundsAssumption
    <2>4. messages \in Seq(Message) /\ steeringQueue \in Seq(UserMessage) /\ followUpQueue \in Seq(UserMessage)
      BY <2>1 DEF TypeInv, AgentType, QueueType
    <2>5. \A q \in {steeringQueue, followUpQueue, loop.pending, loop.prompts} : \A i \in DOMAIN q : q[i] \in UserMessage
      BY <2>2, <2>4
    <2>6. /\ \A i \in DOMAIN messages : messages[i] \in Message
          /\ \A i \in DOMAIN loop.calls : loop.calls[i] \in Call
      BY <2>2, <2>4
    <2> QED
      BY <2>1, <2>2, <2>3, <2>5, <2>6 DEF TypeOK, TypeInv, AgentType, QueueType, RunType
  <1> QED
    BY <1>1, CoreCorrect, PTL

\* When the agent is idle or between turns nothing streams, no call is pending
\* and errorMessage tells how the last run ended, whatever was aborted, threw,
\* or was left running by an earlier run.
THEOREM SettledCorrect == Spec => []SettledBetweenTurns
  <1>1. CoreInv => SettledBetweenTurns
    <2> SUFFICES ASSUME CoreInv PROVE SettledBetweenTurns
      OBVIOUS
    <2>1. PendingInv /\ ErrorInv
      BY DEF CoreInv
    <2>2. pc \in {"idle", "turnEnd", "afterTurn", "stream", "agentEnd"} => pendingToolCalls = {}
      BY <2>1 DEF PendingInv
    <2>3. pc = "idle" => /\ streamingMessage = None
                         /\ exit = "error" => errorMessage
                         /\ exit \in {"drained", "stopped"} => ~ errorMessage
      BY <2>1 DEF ErrorInv
    <2> QED
      BY <2>2, <2>3 DEF SettledBetweenTurns
  <1> QED
    BY <1>1, CoreCorrect, PTL

\* A run that ends because nothing is left to do leaves only messages that
\* were queued after it last looked.
THEOREM NoneLeftCorrect == Spec => []NoneLeftBehind
  <1>1. CoreInv => NoneLeftBehind
    <2> SUFFICES ASSUME CoreInv, pc = "idle", exit = "drained"
                 PROVE  /\ \A id \in Ids(steeringQueue) : id > marks.steering
                        /\ \A id \in Ids(followUpQueue) : id > marks.followUp
      BY DEF NoneLeftBehind
    <2>1. MarksInv
      BY DEF CoreInv
    <2> QED
      BY <2>1 DEF MarksInv, Ids
  <1> QED
    BY <1>1, CoreCorrect, PTL
=============================================================================
