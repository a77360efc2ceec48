------------------------ MODULE AgentMessagesProofs ------------------------
(***************************************************************************)
(* Proofs about AgentLoop: what happens to the messages.                   *)
(***************************************************************************)
EXTENDS AgentLoopProofs

-----------------------------------------------------------------------------
(* What a step does to the messages *)

USE DEF Starting, Requesting, Batch, WithAnswer, Failing

\* The message whose message_end is emitted where the loop is.
Sending == {"promptEnd", "injectEnd", "answerEnd", "failEnd", "resultEnd"}
Outgoing ==
    IF pc = "promptEnd" THEN Head(loop.prompts)
    ELSE IF pc = "injectEnd" THEN Head(loop.pending)
    ELSE IF pc = "resultEnd" THEN ToolResult(loop.message.id, loop.next)
    ELSE loop.message
Sends == messages' = IF pc \in Sending THEN Append(messages, Outgoing) ELSE messages

\* The transcript grows by that message, whether or not a listener throws, and
\* by nothing else.
LEMMA LoopSends == ASSUME CoreInv, LoopStep PROVE Sends
  <1>0. TypeInv
    BY DEF CoreInv
  <1>1. CASE AgentStart \/ FirstTurnStart \/ TurnStart
    <2>1. Quiet /\ pc \in {"agentStart", "firstTurnStart", "turnStart"}
      BY <1>0, <1>1, Reduces DEF AgentStart, FirstTurnStart, TurnStart, Emit
    <2> QED
      BY <2>1 DEF Quiet, agentState, Sends, Sending
  <1>2. CASE PromptMessageStart \/ InjectStart \/ ResultStart \/ StreamPartial \/ StreamWhole
    <2>1. (\E m : Starts(m)) /\ pc \in {"promptStart", "injectStart", "resultStart", "stream"}
      BY <1>0, <1>2, Reduces
         DEF PromptMessageStart, InjectStart, ResultStart, StreamPartial, StreamWhole, Emit
    <2> QED
      BY <2>1 DEF Starts, Sends, Sending
  <1>3. CASE PromptMessageEnd
    BY <1>0, <1>3, Reduces DEF PromptMessageEnd, Emit, Ends, Sends, Sending, Outgoing
  <1>4. CASE InjectEnd
    BY <1>0, <1>4, Reduces DEF InjectEnd, Emit, Ends, Sends, Sending, Outgoing
  <1>5. CASE AnswerEnd
    BY <1>0, <1>5, Reduces DEF AnswerEnd, Emit, Ends, Sends, Sending, Outgoing
  <1>6. CASE ResultEnd
    <2>1. Ends(ToolResult(loop.message.id, loop.next)) /\ pc = "resultEnd"
      BY <1>6, ResultEndIs DEF ResultEnd
    <2> QED
      BY <2>1 DEF Ends, Sends, Sending, Outgoing
  <1>7. CASE ToolStart
    BY <1>0, <1>7, Reduces DEF ToolStart, Emit, StartsCall, Sends, Sending
  <1>8. CASE ToolEnd
    BY <1>0, <1>8, Reduces DEF ToolEnd, Emit, EndsCall, Sends, Sending
  <1>9. CASE \E i \in 1..MaxCalls : ParallelCompletes(i)
    <2>1. PICK i \in 1..MaxCalls : ParallelCompletes(i)
      BY <1>9
    <2>2. pc = "parallel" /\ (processEvents(ToolEndEvent(<<loop.message.id, i>>)) \/ UNCHANGED agentState)
      BY <2>1 DEF ParallelCompletes
    <2> QED
      BY <1>0, <2>2, Reduces DEF EndsCall, agentState, Sends, Sending
  <1>10. CASE TurnEnd
    BY <1>0, <1>10, Reduces DEF TurnEnd, Emit, EndsTurn, Sends, Sending
  <1>11. CASE AgentEnd
    BY <1>0, <1>11, Reduces DEF AgentEnd, Emit, EndsRun, Sends, Sending
  <1>12. CASE PollSteering \/ PollFollowUp \/ StreamFinal \/ StreamThrows \/ PrepareToolCall \/ Execute
              \/ ExecuteSettles \/ Advance \/ ParallelDone \/ AfterTurn \/ finishRun
    <2>1. /\ pc \in {"pollSteering", "pollFollowUp", "streaming", "stream", "prepare", "execute", "executing",
                     "advance", "parallel", "afterTurn", "finish"}
          /\ messages' = messages
      BY <1>12 DEF PollSteering, PollFollowUp, StreamFinal, StreamThrows, PrepareToolCall, Execute,
                   ExecuteSettles, Advance, ParallelDone, AfterTurn, finishRun, agentState
    <2> QED
      BY <2>1 DEF Sends, Sending
  <1>13. CASE handleRunFailure
    <2>1. /\ pc \in Failing
          /\ IF pc = "failEnd" THEN messages' = Append(messages, loop.message) ELSE messages' = messages
      BY <1>13, FailureIs
    <2> QED
      BY <2>1 DEF Sends, Sending, Outgoing
  <1> QED
    BY <1>1, <1>2, <1>3, <1>4, <1>5, <1>6, <1>7, <1>8, <1>9, <1>10, <1>11, <1>12, <1>13 DEF LoopStep

\* The loop hands out no ids and clears nothing.
LEMMA LoopFrames == ASSUME LoopStep PROVE UNCHANGED <<issued, cleared>>
  <1>1. CASE AgentStart \/ FirstTurnStart \/ PromptMessageStart \/ PromptMessageEnd \/ TurnStart
             \/ InjectStart \/ InjectEnd \/ StreamPartial \/ AnswerEnd \/ ToolStart \/ ToolEnd
    BY <1>1 DEF AgentStart, FirstTurnStart, PromptMessageStart, PromptMessageEnd, TurnStart, InjectStart,
                InjectEnd, StreamPartial, AnswerEnd, ToolStart, ToolEnd, LoopFrame
  <1>2. CASE ResultStart \/ ResultEnd \/ TurnEnd \/ AgentEnd \/ handleRunFailure
             \/ \E i \in 1..MaxCalls : ParallelCompletes(i)
    BY <1>2 DEF ResultStart, ResultEnd, TurnEnd, AgentEnd, handleRunFailure, ParallelCompletes, LoopFrame
  <1>3. CASE PollSteering \/ PollFollowUp \/ StreamWhole \/ StreamFinal \/ StreamThrows \/ PrepareToolCall
    BY <1>3 DEF PollSteering, PollFollowUp, StreamWhole, StreamFinal, StreamThrows, PrepareToolCall, history
  <1>4. CASE Execute \/ ExecuteSettles \/ Advance \/ ParallelDone \/ AfterTurn \/ finishRun
    BY <1>4 DEF Execute, ExecuteSettles, Advance, ParallelDone, AfterTurn, finishRun, history
  <1> QED
    BY <1>1, <1>2, <1>3, <1>4 DEF LoopStep

\* Only answers that are complete have calls that execute.
LEMMA LoopExecutes ==
    ASSUME CoreInv, LoopStep
    PROVE  \/ executed' = executed
           \/ /\ pc \in {"execute", "advance"} /\ pc' \in Batch /\ loop.message.stopReason = "stop"
              /\ \A x \in executed' : x \in executed \/ x[1] = loop.message.id
  <1>1. CASE AgentStart \/ FirstTurnStart \/ PromptMessageStart \/ PromptMessageEnd \/ TurnStart
             \/ InjectStart \/ InjectEnd \/ StreamPartial \/ AnswerEnd \/ ToolStart \/ ToolEnd
    BY <1>1 DEF AgentStart, FirstTurnStart, PromptMessageStart, PromptMessageEnd, TurnStart, InjectStart,
                InjectEnd, StreamPartial, AnswerEnd, ToolStart, ToolEnd, LoopFrame
  <1>2. CASE ResultStart \/ ResultEnd \/ TurnEnd \/ AgentEnd \/ handleRunFailure
             \/ \E i \in 1..MaxCalls : ParallelCompletes(i)
    BY <1>2 DEF ResultStart, ResultEnd, TurnEnd, AgentEnd, handleRunFailure, ParallelCompletes, LoopFrame
  <1>3. CASE PollSteering \/ PollFollowUp \/ StreamWhole \/ StreamFinal \/ StreamThrows \/ PrepareToolCall
    BY <1>3 DEF PollSteering, PollFollowUp, StreamWhole, StreamFinal, StreamThrows, PrepareToolCall, history
  <1>4. CASE ExecuteSettles \/ ParallelDone \/ AfterTurn \/ finishRun
    BY <1>4 DEF ExecuteSettles, ParallelDone, AfterTurn, finishRun, history
  <1>5. CASE Execute
    <2>1. pc = "execute" /\ pc' = "executing" /\ executed' = executed \cup {Current}
      BY <1>5 DEF Execute, Goto
    <2>2. loop.message.stopReason = "stop"
      BY <2>1 DEF CoreInv, CallsInv
    <2> QED
      BY <2>1, <2>2 DEF Current
  <1>6. CASE Advance
    <2>1. CASE executed' = executed
      BY <2>1
    <2>2. CASE executed' # executed
      <3>1. /\ pc = "advance" /\ pc' = "parallel" /\ loop.mode = "parallel"
            /\ \E ready : executed' = executed \cup {<<loop.message.id, i>> : i \in ready}
        BY <1>6, <2>2 DEF Advance, Goto
      <3>2. loop.message.stopReason = "stop"
        BY <3>1 DEF CoreInv, CallsInv
      <3> QED
        BY <3>1, <3>2
    <2> QED
      BY <2>1, <2>2
  <1> QED
    BY <1>1, <1>2, <1>3, <1>4, <1>5, <1>6 DEF LoopStep

-----------------------------------------------------------------------------
(* What a step of the loop does to its own copies *)

\* Awaits at which the context of the loop is the transcript.
Clean == {"pollSteering", "turnStart", "injectStart", "injectEnd", "stream", "turnEnd", "afterTurn",
          "pollFollowUp", "agentEnd"}
\* The results of the batch that are in the transcript.
Given ==
    IF pc = "advance" /\ loop.mode # "parallel" THEN loop.next
    ELSE IF loop.mode # "parallel" \/ pc \in {"resultStart", "resultEnd"} THEN loop.next - 1
    ELSE 0
Results(n) == [j \in 1..n |-> ToolResult(loop.message.id, j)]

\* The loop goes on, in the same turn, without a look at the queues.
GoesOn == UNCHANGED <<steeringQueue, followUpQueue, run, turn, throws, interrupted>>
SameHands == loop'.prompts = loop.prompts /\ loop'.pending = loop.pending
SameContext == loop'.context = loop.context /\ loop'.newMessages = loop.newMessages

Stays ==
    /\ GoesOn /\ SameHands /\ SameContext /\ loop'.message = loop.message
    /\ \/ pc \in {"agentStart", "firstTurnStart", "promptStart"} /\ pc' \in Starting
       \/ pc = "firstTurnStart" /\ pc' = "pollSteering" /\ loop.prompts = <<>>
       \/ pc \in Clean \ {"injectEnd"} /\ pc' \in Clean /\ (pc' \in WithAnswer => pc \in WithAnswer)
       \/ pc = "agentEnd" /\ pc' = "finish"
       \/ pc \in Batch /\ pc' \in Batch /\ Given' = IF pc = "resultEnd" THEN Given + 1 ELSE Given
Takes ==
    /\ pc \in {"pollSteering", "pollFollowUp"} /\ pc' \in Clean \ WithAnswer
    /\ \E mode :
         \/ /\ loop'.pending = Drained(steeringQueue, mode)
            /\ steeringQueue' = AfterDrain(steeringQueue, mode) /\ UNCHANGED followUpQueue
         \/ /\ loop'.pending = Drained(followUpQueue, mode)
            /\ followUpQueue' = AfterDrain(followUpQueue, mode) /\ UNCHANGED steeringQueue
    /\ loop'.prompts = loop.prompts /\ SameContext /\ UNCHANGED <<run, turn, throws, interrupted>>
PromptSent ==
    /\ pc = "promptEnd" /\ pc' = PromptLabel(Tail(loop.prompts)) /\ GoesOn /\ SameContext
    /\ loop'.prompts = Tail(loop.prompts) /\ loop'.pending = loop.pending
InjectSent ==
    /\ pc = "injectEnd" /\ pc' \in {"stream", "injectStart"} /\ GoesOn
    /\ loop'.prompts = loop.prompts /\ loop'.pending = Tail(loop.pending)
    /\ loop'.context = Append(loop.context, Head(loop.pending))
    /\ loop'.newMessages = Append(loop.newMessages, Head(loop.pending))
PartialCame ==
    /\ pc = "stream" /\ pc' = "streaming" /\ GoesOn /\ SameHands
    /\ \E m \in AssistantMessage : loop'.context = Append(loop.context, m)
    /\ loop'.newMessages = loop.newMessages
AnswerCame ==
    /\ pc \in {"stream", "streaming"} /\ pc' = "answerEnd" /\ SameHands
    /\ turn' = turn + 1 /\ UNCHANGED <<steeringQueue, followUpQueue, run, throws, interrupted>>
    /\ loop'.context = IF pc = "stream" THEN Append(loop.context, loop'.message)
                       ELSE [loop.context EXCEPT ![Len(loop.context)] = loop'.message]
    /\ loop'.newMessages = loop.newMessages
AnswerSent ==
    /\ pc = "answerEnd" /\ GoesOn /\ SameHands /\ loop'.message = loop.message
    /\ \/ pc' = "toolStart" /\ Given' = 0
       \/ pc' = "turnEnd" /\ (loop.message.stopReason \in FailedStops \/ loop.message.calls = 0)
    /\ loop'.context = loop.context /\ loop'.newMessages = Append(loop.newMessages, loop.message)
BatchEnded(n) ==
    /\ pc \in {"advance", "resultEnd"} /\ pc' = "turnEnd" /\ GoesOn /\ SameHands
    /\ loop'.message = loop.message
    /\ n = (IF pc = "resultEnd" THEN Given + 1 ELSE Given) /\ n >= 1
    /\ n = loop.message.calls \/ aborted
    /\ loop'.context = loop.context \o Results(n) /\ loop'.newMessages = loop.newMessages \o Results(n)
    /\ Results(n) \in Seq(Message)
Thrown ==
    /\ pc' = "failStart" /\ Looping /\ loop'.prompts = <<>> /\ loop'.pending = <<>>
    /\ throws' = throws + 1 /\ interrupted' = interrupted \cup {run}
    /\ UNCHANGED <<steeringQueue, followUpQueue, run>> /\ turn' >= turn /\ turn' \in Nat
Fails ==
    /\ pc \in Failing /\ pc' \in Failing \cup {"finish"} /\ loop' = loop
    /\ throws' \in {throws, throws + 1}
    /\ UNCHANGED <<steeringQueue, followUpQueue, run, turn, interrupted>>
Finishes == pc = "finish" /\ pc' = "idle" /\ loop' = NoLoop /\ GoesOn

\* A step from one await to the next.
LEMMA WalksStays == ASSUME CoreInv, Walks PROVE Stays
  <1>1. PICK label : WalksTo(label) /\ Moves(label, loop)
    BY DEF Walks
  <1>2. /\ pc' = label /\ loop' = loop /\ UNCHANGED <<throws, interrupted, run, turn, steeringQueue, followUpQueue>>
    BY <1>1 DEF Walks, Moves, Goto, LoopFrame, runState, queues
  <1>3. GoesOn /\ SameHands /\ SameContext /\ loop'.message = loop.message
    BY <1>2 DEF GoesOn, SameHands, SameContext
  <1>4. CASE pc \notin Batch
    BY <1>1, <1>2, <1>3, <1>4 DEF Stays, WalksTo, Clean, PromptLabel, InjectLabel
  <1>5. CASE pc \in Batch
    <2>1. loop.next \in Nat
      BY DEF CoreInv, TypeInv, LoopType
    <2>2. \/ pc = "resultStart" /\ label = "resultEnd"
          \/ pc = "resultEnd" /\ loop.mode # "parallel" /\ label = "advance"
      BY <1>1, <1>5 DEF WalksTo
    <2>3. Given' = IF pc = "resultEnd" THEN Given + 1 ELSE Given
      BY <1>2, <2>1, <2>2 DEF Given
    <2> QED
      BY <1>2, <1>3, <2>2, <2>3 DEF Stays
  <1> QED
    BY <1>4, <1>5

\* A step of one call.
LEMMA CallMovesStays ==
    ASSUME CoreInv, NEW i \in 1..Len(loop.calls), NEW c \in Call, NEW label, CallMoves(i, c, label)
    PROVE  Stays
  <1>1. /\ pc \in Batch /\ label \in Batch /\ CallGoes(i, c.status, label) /\ Moves(label, Updated(i, c))
        /\ UNCHANGED <<steeringQueue, followUpQueue, turn>>
    BY DEF CallMoves, CallGoes, queues
  <1>2. /\ loop' = Updated(i, c) /\ pc' = label /\ UNCHANGED <<throws, interrupted, run>>
    BY <1>1 DEF Moves, Goto, runState
  <1>3. loop \in LoopType /\ loop.next \in Nat /\ loop.mode \in Modes
    BY DEF CoreInv, TypeInv, LoopType
  <1> DEFINE calls == [loop.calls EXCEPT ![i] = c]
  <1>4. loop' = [loop EXCEPT !.calls = calls]
    BY <1>2 DEF Updated
  <1> HIDE DEF calls
  <1>5. /\ loop'.prompts = loop.prompts /\ loop'.pending = loop.pending /\ loop'.message = loop.message
        /\ loop'.context = loop.context /\ loop'.newMessages = loop.newMessages
        /\ loop'.mode = loop.mode /\ loop'.next = loop.next
    BY <1>3, <1>4 DEF LoopType
  <1>6. GoesOn /\ SameHands /\ SameContext
    BY <1>1, <1>2, <1>5 DEF GoesOn, SameHands, SameContext
  <1>7. Given' = Given /\ pc # "resultEnd"
    <2>1. pc \in {"execute", "executing"} => loop.mode = "sequential"
      BY DEF CoreInv, CallsInv
    <2>2. loop.mode # "none" /\ (pc = "prepare" => loop.mode # "truncated")
      BY <1>1 DEF CoreInv, CallsInv
    <2> QED
      BY <1>1, <1>2, <1>3, <1>5, <2>1, <2>2 DEF Given, CallGoes, Modes
  <1> QED
    BY <1>1, <1>2, <1>5, <1>6, <1>7 DEF Stays

\* The next call, or the next result of a parallel batch.
LEMMA NextsStays == ASSUME CoreInv, NEW label, Nexts(label) PROVE Stays
  <1>1. /\ pc \in Batch /\ label \in Batch /\ Moves(label, [loop EXCEPT !.next = @ + 1])
        /\ \/ pc = "advance" /\ label = "toolStart"
           \/ pc = "resultEnd" /\ loop.mode = "parallel" /\ label = "resultStart"
        /\ UNCHANGED <<steeringQueue, followUpQueue, turn>>
    BY DEF Nexts, queues
  <1>2. /\ loop' = [loop EXCEPT !.next = @ + 1] /\ pc' = label /\ UNCHANGED <<throws, interrupted, run>>
    BY <1>1 DEF Moves, Goto, runState
  <1>3. loop \in LoopType /\ loop.next \in Nat
    BY DEF CoreInv, TypeInv, LoopType
  <1>4. /\ loop'.prompts = loop.prompts /\ loop'.pending = loop.pending /\ loop'.message = loop.message
        /\ loop'.context = loop.context /\ loop'.newMessages = loop.newMessages
        /\ loop'.mode = loop.mode /\ loop'.next = loop.next + 1
    BY <1>2, <1>3 DEF LoopType
  <1>5. GoesOn /\ SameHands /\ SameContext
    BY <1>1, <1>2, <1>4 DEF GoesOn, SameHands, SameContext
  <1>6. Given' = IF pc = "resultEnd" THEN Given + 1 ELSE Given
    BY <1>1, <1>2, <1>3, <1>4 DEF Given
  <1> QED
    BY <1>1, <1>2, <1>4, <1>5, <1>6 DEF Stays

\* A parallel batch starts.
LEMMA StartsBatchStays == ASSUME CoreInv, StartsBatch PROVE Stays
  <1>1. /\ pc = "advance" /\ loop.mode = "parallel" /\ Moves("parallel", [Cut EXCEPT !.calls = Started])
        /\ UNCHANGED <<steeringQueue, followUpQueue, turn>>
    BY DEF StartsBatch, queues
  <1>2. /\ loop' = [Cut EXCEPT !.calls = Started] /\ pc' = "parallel" /\ UNCHANGED <<throws, interrupted, run>>
    BY <1>1 DEF Moves, Goto, runState
  <1>3. /\ Cut \in LoopType /\ Cut.prompts = loop.prompts /\ Cut.pending = loop.pending
        /\ Cut.message = loop.message /\ Cut.mode = loop.mode /\ Cut.next = loop.next
        /\ Cut.context = loop.context /\ Cut.newMessages = loop.newMessages
    BY <1>1, CutFields
  <1>4. /\ loop'.prompts = loop.prompts /\ loop'.pending = loop.pending /\ loop'.message = loop.message
        /\ loop'.context = loop.context /\ loop'.newMessages = loop.newMessages
        /\ loop'.mode = loop.mode
    BY <1>2, <1>3 DEF LoopType
  <1>5. GoesOn /\ SameHands /\ SameContext
    BY <1>1, <1>2, <1>4 DEF GoesOn, SameHands, SameContext
  <1>6. Given' = Given
    BY <1>1, <1>2, <1>4 DEF Given
  <1> QED
    BY <1>1, <1>2, <1>4, <1>5, <1>6 DEF Stays

\* The results of a parallel batch begin.
LEMMA ParallelDoneStays == ASSUME CoreInv, ParallelDone PROVE Stays
  <1>1. /\ pc = "parallel" /\ loop' = [loop EXCEPT !.next = 1] /\ pc' = "resultStart"
        /\ UNCHANGED <<steeringQueue, followUpQueue, turn, throws, interrupted, run>>
    BY DEF ParallelDone, queues, Goto, runState
  <1>2. loop \in LoopType /\ loop.mode = "parallel"
    BY <1>1 DEF CoreInv, TypeInv, CallsInv
  <1>3. /\ loop'.prompts = loop.prompts /\ loop'.pending = loop.pending /\ loop'.message = loop.message
        /\ loop'.context = loop.context /\ loop'.newMessages = loop.newMessages
        /\ loop'.mode = loop.mode /\ loop'.next = 1
    BY <1>1, <1>2 DEF LoopType
  <1>4. GoesOn /\ SameHands /\ SameContext
    BY <1>1, <1>3 DEF GoesOn, SameHands, SameContext
  <1>5. Given' = Given
    BY <1>1, <1>2, <1>3 DEF Given
  <1> QED
    BY <1>1, <1>3, <1>4, <1>5 DEF Stays

\* A batch ends: with a result for every call, unless it was aborted.
LEMMA EndsBatchEnded == ASSUME CoreInv, NEW l, EndsBatch(l) PROVE \E n : BatchEnded(n)
  <1>1. /\ pc \in {"advance", "resultEnd"} /\ Moves("turnEnd", BatchDone(l))
        /\ UNCHANGED <<steeringQueue, followUpQueue, turn>>
    BY DEF EndsBatch, queues
  <1>2. loop' = BatchDone(l) /\ pc' = "turnEnd" /\ UNCHANGED <<throws, interrupted, run>>
    BY <1>1 DEF Moves, Goto, runState
  <1>3. /\ loop.calls \in Seq(Call) /\ loop.next \in 1..Len(loop.calls) /\ Len(loop.calls) \in Nat /\ loop \in LoopType
        /\ Len(loop.calls) = loop.message.calls \/ aborted
    BY <1>1, AtCall DEF CoreInv, TypeInv, CallsInv
  <1>4. /\ l \in LoopType /\ l.message = loop.message /\ l.prompts = loop.prompts
        /\ l.pending = loop.pending /\ l.skipPoll = loop.skipPoll /\ l.reason = loop.reason
        /\ Len(l.calls) \in 1..Len(loop.calls) /\ l.mode = loop.mode
        /\ l.context = loop.context /\ l.newMessages = loop.newMessages
        /\ Len(l.calls) = loop.next
    <2>1. CASE l = Cut
      BY <1>1, <1>3, <2>1, CutFields
    <2>2. CASE l = loop /\ loop.next = Len(loop.calls)
      BY <1>1, <1>3, <2>2
    <2> QED
      BY <2>1, <2>2 DEF EndsBatch
  <1>5. loop.next = loop.message.calls \/ aborted
    BY <1>3 DEF EndsBatch, LastCall
  <1>6. /\ loop'.prompts = loop.prompts /\ loop'.pending = loop.pending /\ loop'.message = loop.message
        /\ loop'.context = loop.context \o Results(loop.next)
        /\ loop'.newMessages = loop.newMessages \o Results(loop.next)
        /\ Results(loop.next) \in Seq(Message)
    <2>1. pc \in Batch
      BY <1>1
    <2> QED
      BY <1>2, <1>4, <2>1, BatchDoneFields DEF Results
  <1>7. GoesOn /\ SameHands
    BY <1>1, <1>2, <1>6 DEF GoesOn, SameHands
  <1>8. loop.next = IF pc = "resultEnd" THEN Given + 1 ELSE Given
    BY <1>3 DEF EndsBatch, Given
  <1>9. loop.next >= 1
    BY <1>3
  <1>10. BatchEnded(loop.next)
    BY <1>1, <1>2, <1>5, <1>6, <1>7, <1>8, <1>9 DEF BatchEnded
  <1> QED
    BY <1>10

\* An exception.
LEMMA UnwindsThrown == ASSUME CoreInv, Unwinds PROVE Thrown
  <1>1. /\ pc' = "failStart" /\ interrupted' = interrupted \cup {run} /\ throws' = throws + 1
        /\ loop' = [NoLoop EXCEPT !.reason = "failed", !.message =
                      Assistant(0, run, 0, IF aborted THEN "aborted" ELSE "error")]
        /\ UNCHANGED <<steeringQueue, followUpQueue, run>> /\ Looping /\ turn' \in turn..(turn + Owed)
    BY DEF Unwinds, Throw, queues, runState
  <1>2. loop'.prompts = <<>> /\ loop'.pending = <<>>
    BY <1>1, NoLoopType DEF LoopType
  <1>3. turn' >= turn /\ turn' \in Nat
    BY <1>1 DEF CoreInv, TypeInv, RunType, Owed
  <1> QED
    BY <1>1, <1>2, <1>3 DEF Thrown

\* message_end of a prompt.
LEMMA PromptMessageEndIs == ASSUME CoreInv, PromptMessageEnd PROVE Unwinds \/ PromptSent
  <1> DEFINE label == PromptLabel(Tail(loop.prompts))
             locals == [loop EXCEPT !.prompts = Tail(@)]
  <1>1. /\ TypeInv /\ pc = "promptEnd" /\ LoopFrame /\ Emit(MessageEnd(Head(loop.prompts)), label, locals)
        /\ loop \in LoopType
    BY DEF CoreInv, PromptMessageEnd, TypeInv
  <1>2. Ends(Head(loop.prompts))
    BY <1>1, Reduces DEF Emit
  <1>3. Head(loop.prompts) \in Message
    BY <1>1, HandsHold DEF CoreInv, ControlInv
  <1>4. AgentType'
    BY <1>1, <1>2, <1>3, EventTypes
  <1>5. Unwinds \/ Moves(label, locals)
    BY <1>1, <1>4, Emits DEF Looping
  <1>6. ASSUME Moves(label, locals) PROVE PromptSent
    <2>1. /\ loop' = locals /\ pc' = label
          /\ UNCHANGED <<steeringQueue, followUpQueue, turn, throws, interrupted, run>>
      BY <1>1, <1>6 DEF Moves, Goto, LoopFrame, runState, queues
    <2>2. /\ loop'.prompts = Tail(loop.prompts) /\ loop'.pending = loop.pending
          /\ loop'.context = loop.context /\ loop'.newMessages = loop.newMessages
      BY <1>1, <2>1 DEF LoopType
    <2> QED
      BY <1>1, <2>1, <2>2 DEF PromptSent, GoesOn, SameContext
  <1> QED
    BY <1>5, <1>6

\* message_end of a queued message.
LEMMA InjectEndIs == ASSUME CoreInv, InjectEnd PROVE Unwinds \/ InjectSent
  <1> DEFINE m == Head(loop.pending)
             label == InjectLabel(Tail(loop.pending))
             locals == [loop EXCEPT !.pending = Tail(@), !.context = Append(@, m),
                                    !.newMessages = Append(@, m)]
  <1>1. /\ TypeInv /\ pc = "injectEnd" /\ LoopFrame /\ Emit(MessageEnd(m), label, locals) /\ loop \in LoopType
    BY DEF CoreInv, InjectEnd, TypeInv
  <1>2. Ends(m)
    BY <1>1, Reduces DEF Emit
  <1>3. m \in Message
    BY <1>1, HandsHold DEF CoreInv, ControlInv
  <1>4. AgentType'
    BY <1>1, <1>2, <1>3, EventTypes
  <1>5. Unwinds \/ Moves(label, locals)
    BY <1>1, <1>4, Emits DEF Looping
  <1>6. ASSUME Moves(label, locals) PROVE InjectSent
    <2>1. /\ loop' = locals /\ pc' = label
          /\ UNCHANGED <<steeringQueue, followUpQueue, turn, throws, interrupted, run>>
      BY <1>1, <1>6 DEF Moves, Goto, LoopFrame, runState, queues
    <2>2. /\ loop'.pending = Tail(loop.pending) /\ loop'.prompts = loop.prompts
          /\ loop'.context = Append(loop.context, Head(loop.pending))
          /\ loop'.newMessages = Append(loop.newMessages, Head(loop.pending))
      BY <1>1, <2>1 DEF LoopType
    <2>3. label \in {"stream", "injectStart"}
      BY DEF InjectLabel
    <2> QED
      BY <1>1, <2>1, <2>2, <2>3 DEF InjectSent, GoesOn
  <1> QED
    BY <1>5, <1>6

\* A partial message.
LEMMA StreamPartialIs == ASSUME CoreInv, StreamPartial PROVE Unwinds \/ PartialCame
  <1> DEFINE m == Assistant(turn + 1, run, 0, "partial")
             locals == [loop EXCEPT !.context = Append(@, m)]
  <1>1. /\ TypeInv /\ pc = "stream" /\ LoopFrame /\ Emit(MessageStart(m), "streaming", locals) /\ loop \in LoopType
    BY DEF CoreInv, StreamPartial, TypeInv
  <1>2. Starts(m)
    BY <1>1, Reduces DEF Emit
  <1>3. m \in AssistantMessage /\ m \in Message
    BY <1>1, TurnLeft, MakesMessages, BoundsAssumption DEF StopReasons
  <1> HIDE DEF m
  <1>4. AgentType'
    BY <1>1, <1>2, <1>3, EventTypes
  <1>5. Unwinds \/ Moves("streaming", locals)
    BY <1>1, <1>4, Emits DEF Looping
  <1>6. ASSUME Moves("streaming", locals) PROVE PartialCame
    <2>1. /\ loop' = locals /\ pc' = "streaming"
          /\ UNCHANGED <<steeringQueue, followUpQueue, turn, throws, interrupted, run>>
      BY <1>1, <1>6 DEF Moves, Goto, LoopFrame, runState, queues
    <2>2. /\ loop'.pending = loop.pending /\ loop'.prompts = loop.prompts
          /\ loop'.context = Append(loop.context, m) /\ loop'.newMessages = loop.newMessages
      BY <1>1, <2>1 DEF LoopType
    <2> QED
      BY <1>1, <1>3, <2>1, <2>2 DEF PartialCame, GoesOn, SameHands
  <1> QED
    BY <1>5, <1>6

\* A whole answer at once.
LEMMA StreamWholeIs == ASSUME CoreInv, StreamWhole PROVE Unwinds \/ AnswerCame
  <1>1. PICK m \in Answers :
          /\ Answered(m)
          /\ Emit(MessageStart(m), "answerEnd", [loop EXCEPT !.context = Append(@, m), !.message = m])
    BY DEF StreamWhole
  <1>2. /\ TypeInv /\ pc = "stream" /\ loop \in LoopType
        /\ UNCHANGED <<queues, runState, issued, cleared, executed, marks, exit>>
    BY DEF CoreInv, StreamWhole, TypeInv
  <1>3. /\ m \in Message /\ turn' = turn + 1 /\ toolTurns' \in toolTurns..MaxToolTurns
    BY <1>1, <1>2, Answering
  <1>4. Starts(m)
    BY <1>1, <1>2, Reduces DEF Emit
  <1>5. AgentType'
    BY <1>2, <1>3, <1>4, EventTypes
  <1>6. CASE Throw(0)
    <2>1. turn' \in turn..(turn + Owed)
      BY <1>2, <1>3 DEF Owed, TypeInv, RunType
    <2> QED
      BY <1>2, <1>3, <1>5, <1>6, <2>1 DEF Unwinds, Looping
  <1>7. CASE Goto("answerEnd") /\ loop' = [loop EXCEPT !.context = Append(@, m), !.message = m]
    <2>1. /\ loop'.pending = loop.pending /\ loop'.prompts = loop.prompts /\ loop'.message = m
          /\ loop'.context = Append(loop.context, m) /\ loop'.newMessages = loop.newMessages
      BY <1>2, <1>7 DEF LoopType
    <2>2. pc' = "answerEnd" /\ UNCHANGED <<steeringQueue, followUpQueue, throws, interrupted, run>>
      BY <1>2, <1>7 DEF Goto, queues, runState
    <2> QED
      BY <1>2, <1>3, <2>1, <2>2 DEF AnswerCame, SameHands
  <1> QED
    BY <1>1, <1>6, <1>7 DEF Emit

\* The final message of a stream.
LEMMA StreamFinalIs == ASSUME CoreInv, StreamFinal PROVE AnswerCame
  <1>1. PICK m \in Answers :
          /\ Answered(m)
          /\ loop' = [loop EXCEPT !.context[Len(loop.context)] = m, !.message = m]
    BY DEF StreamFinal
  <1>2. /\ pc = "streaming" /\ pc' = "answerEnd" /\ loop \in LoopType
        /\ UNCHANGED <<steeringQueue, followUpQueue, throws, interrupted, run>>
    BY DEF CoreInv, TypeInv, StreamFinal, Goto, queues, runState
  <1>3. turn' = turn + 1
    BY <1>1, <1>2, Answering
  <1>4. PICK ctx : ctx = [loop.context EXCEPT ![Len(loop.context)] = m]
    OBVIOUS
  <1>5. loop' = [loop EXCEPT !.context = ctx, !.message = m]
    BY <1>1, <1>4
  <1>6. /\ loop'.pending = loop.pending /\ loop'.prompts = loop.prompts /\ loop'.message = m
        /\ loop'.context = ctx /\ loop'.newMessages = loop.newMessages
    BY <1>2, <1>5 DEF LoopType
  <1> QED
    BY <1>2, <1>3, <1>4, <1>6 DEF AnswerCame, SameHands

\* message_end of an answer.
LEMMA AnswerEndIs == ASSUME CoreInv, AnswerEnd PROVE Unwinds \/ AnswerSent
  <1>1. TypeInv /\ pc = "answerEnd" /\ LoopFrame /\ loop \in LoopType
    BY DEF CoreInv, AnswerEnd, TypeInv
  <1>2. PICK mode \in BatchModes(loop.message) :
          Emit(MessageEnd(loop.message),
               IF AfterAnswer(loop, mode).calls = <<>> THEN "turnEnd" ELSE "toolStart",
               AfterAnswer(loop, mode))
    BY DEF AnswerEnd
  <1> DEFINE m == loop.message
             l == AfterAnswer(loop, mode)
             calls == IF m.stopReason \in FailedStops THEN <<>> ELSE [i \in 1..m.calls |-> Waiting]
             reason == IF m.stopReason \in FailedStops THEN "error" ELSE loop.reason
             label == IF l.calls = <<>> THEN "turnEnd" ELSE "toolStart"
  <1>3. m \in Message /\ m.calls \in Nat
    BY <1>1, MakesMessages, BoundsAssumption DEF CoreInv, ControlInv
  <1>4. l = [loop EXCEPT !.newMessages = Append(loop.newMessages, m), !.mode = mode, !.next = 1,
                         !.hasMore = FALSE, !.calls = calls, !.reason = reason]
    BY DEF AfterAnswer
  <1>5. /\ l.calls = calls /\ l.pending = loop.pending /\ l.prompts = loop.prompts /\ l.message = m
        /\ l.context = loop.context /\ l.newMessages = Append(loop.newMessages, m) /\ l.next = 1
    <2> HIDE DEF calls, reason, l
    <2> QED
      BY <1>1, <1>4 DEF LoopType
  <1>6. calls = <<>> => m.stopReason \in FailedStops \/ m.calls = 0
    <2>1. ASSUME calls = <<>>, m.stopReason \notin FailedStops PROVE m.calls = 0
      <3>1. [i \in 1..m.calls |-> Waiting] = <<>>
        BY <2>1
      <3>2. Len([i \in 1..m.calls |-> Waiting]) = m.calls
        BY <1>3
      <3> QED
        BY <3>1, <3>2
    <2> QED
      BY <2>1
  <1> HIDE DEF l, calls
  <1>7. Emit(MessageEnd(m), label, l)
    BY <1>2 DEF l
  <1>8. Ends(m)
    BY <1>1, <1>7, Reduces DEF Emit
  <1>9. AgentType'
    BY <1>1, <1>3, <1>8, EventTypes
  <1>10. Unwinds \/ Moves(label, l)
    BY <1>1, <1>7, <1>9, Emits DEF Looping
  <1>11. ASSUME Moves(label, l) PROVE AnswerSent
    <2>1. /\ loop' = l /\ pc' = label
          /\ UNCHANGED <<steeringQueue, followUpQueue, turn, throws, interrupted, run>>
      BY <1>1, <1>11 DEF Moves, Goto, LoopFrame, runState, queues
    <2>2. \/ pc' = "toolStart" /\ Given' = 0
          \/ pc' = "turnEnd" /\ (m.stopReason \in FailedStops \/ m.calls = 0)
      BY <1>5, <1>6, <2>1 DEF Given
    <2> QED
      BY <1>1, <1>5, <2>1, <2>2 DEF AnswerSent, GoesOn, SameHands
  <1> QED
    BY <1>10, <1>11

\* The queues are looked at.
LEMMA PollSteeringTakes == ASSUME CoreInv, PollSteering PROVE Stays \/ Takes
  <1>1. PICK taken \in Seq(UserMessage), label \in Labels :
             /\ Polls(taken, label)
             /\ \/ loop.skipPoll /\ taken = <<>> /\ UNCHANGED <<queues, marks>>
                \/ \E mode : taken = Drained(steeringQueue, mode) /\ steeringQueue' = AfterDrain(steeringQueue, mode)
    BY PollSteeringIs
  <1>2. /\ pc = "pollSteering" /\ pc' = label /\ loop \in LoopType
        /\ label \in {"turnStart", "stream", "injectStart", "pollFollowUp"}
        /\ loop' = [loop EXCEPT !.pending = taken, !.skipPoll = FALSE, !.firstTurn = FALSE]
        /\ UNCHANGED <<followUpQueue, turn, throws, interrupted, run>>
    BY <1>1 DEF Polls, Moves, Goto, runState, InjectLabel, CoreInv, TypeInv
  <1>3. /\ loop'.prompts = loop.prompts /\ loop'.pending = taken /\ loop'.message = loop.message
        /\ loop'.context = loop.context /\ loop'.newMessages = loop.newMessages
    BY <1>2 DEF LoopType
  <1>4. loop.pending = <<>>
    BY <1>2 DEF CoreInv, ControlInv
  <1>5. CASE taken = <<>> /\ UNCHANGED queues
    BY <1>2, <1>3, <1>4, <1>5 DEF Stays, GoesOn, SameHands, SameContext, Clean, queues
  <1>6. CASE \E mode : taken = Drained(steeringQueue, mode) /\ steeringQueue' = AfterDrain(steeringQueue, mode)
    BY <1>2, <1>3, <1>6 DEF Takes, SameContext, Clean
  <1> QED
    BY <1>1, <1>5, <1>6

\* Of the follow-ups too.
LEMMA PollFollowUpTakes == ASSUME CoreInv, PollFollowUp PROVE Stays \/ Takes
  <1>1. CASE Dries
    <2>1. /\ pc = "pollFollowUp" /\ pc' = "agentEnd" /\ loop \in LoopType
          /\ loop' = [loop EXCEPT !.reason = "drained"]
          /\ UNCHANGED <<steeringQueue, followUpQueue, turn, throws, interrupted, run>>
      BY <1>1 DEF Dries, Moves, Goto, runState, queues, CoreInv, TypeInv
    <2>2. /\ loop'.prompts = loop.prompts /\ loop'.pending = loop.pending /\ loop'.message = loop.message
          /\ loop'.context = loop.context /\ loop'.newMessages = loop.newMessages
      BY <2>1 DEF LoopType
    <2> QED
      BY <2>1, <2>2 DEF Stays, GoesOn, SameHands, SameContext, Clean
  <1>2. ASSUME NEW taken, NEW mode, Drain(taken), taken = Drained(followUpQueue, mode),
               followUpQueue' = AfterDrain(followUpQueue, mode)
        PROVE  Takes
    <2>1. /\ pc = "pollFollowUp" /\ pc' = "turnStart" /\ loop \in LoopType
          /\ loop' = [loop EXCEPT !.pending = taken, !.hasMore = TRUE]
          /\ UNCHANGED <<steeringQueue, turn, throws, interrupted, run>>
      BY <1>2 DEF Drain, Moves, Goto, runState, CoreInv, TypeInv
    <2>2. /\ loop'.prompts = loop.prompts /\ loop'.pending = taken
          /\ loop'.context = loop.context /\ loop'.newMessages = loop.newMessages
      BY <2>1 DEF LoopType
    <2> QED
      BY <1>2, <2>1, <2>2 DEF Takes, SameContext, Clean
  <1> QED
    BY <1>1, <1>2, PollFollowUpIs

\* The run is stopped after a turn.
LEMMA StopsStays == ASSUME CoreInv, Stops PROVE Stays
  <1>1. /\ pc = "afterTurn" /\ pc' = "agentEnd" /\ loop \in LoopType
        /\ loop' = [loop EXCEPT !.reason = "stopped"]
        /\ UNCHANGED <<steeringQueue, followUpQueue, turn, throws, interrupted, run>>
    BY DEF Stops, Moves, Goto, runState, queues, CoreInv, TypeInv
  <1>2. /\ loop'.prompts = loop.prompts /\ loop'.pending = loop.pending /\ loop'.message = loop.message
        /\ loop'.context = loop.context /\ loop'.newMessages = loop.newMessages
    BY <1>1 DEF LoopType
  <1> QED
    BY <1>1, <1>2 DEF Stays, GoesOn, SameHands, SameContext, Clean

\* handleRunFailure and finishRun.
LEMMA FailureFails == ASSUME CoreInv, handleRunFailure PROVE Fails
  <1>1. /\ pc \in Failing /\ pc' \in Failing \cup {"finish"} /\ UNCHANGED <<loop, interrupted, orphans>> /\ LoopFrame
    BY FailureIs
  <1>2. throws' \in {throws, throws + 1}
    BY DEF handleRunFailure
  <1> QED
    BY <1>1, <1>2 DEF Fails, LoopFrame, queues, runState

LoopKind ==
    \/ Stays \/ Takes \/ PromptSent \/ InjectSent \/ PartialCame \/ AnswerCame \/ AnswerSent
    \/ (\E n : BatchEnded(n)) \/ Thrown \/ Fails \/ Finishes

\* Every step of the loop is one of these.
LEMMA LoopKinds == ASSUME CoreInv, LoopStep PROVE LoopKind
  <1> USE DEF LoopKind
  <1>1. CASE AgentStart \/ FirstTurnStart \/ PromptMessageStart \/ TurnStart \/ InjectStart
             \/ ResultStart \/ AgentEnd \/ TurnEnd
    <2>1. Unwinds \/ Walks
      BY <1>1, AgentStartWalks, FirstTurnStartWalks, PromptMessageStartWalks, TurnStartWalks,
         InjectStartWalks, ResultStartWalks, AgentEndWalks, TurnEndWalks
    <2> QED
      BY <2>1, UnwindsThrown, WalksStays
  <1>2. CASE PromptMessageEnd \/ InjectEnd \/ StreamPartial \/ StreamWhole \/ StreamFinal \/ AnswerEnd
    BY <1>2, PromptMessageEndIs, InjectEndIs, StreamPartialIs, StreamWholeIs, StreamFinalIs, AnswerEndIs,
       UnwindsThrown
  <1>3. CASE ToolStart \/ PrepareToolCall \/ Execute \/ ExecuteSettles \/ ToolEnd
    <2>1. Unwinds \/ \E c \in Call, label \in Labels : CallMoves(loop.next, c, label)
      BY <1>3, ToolStartMoves, PrepareMoves, ExecuteMoves, ExecuteSettlesMoves, ToolEndMoves
    <2>2. loop.next \in 1..Len(loop.calls)
      <3>1. pc \in Batch
        BY <1>3 DEF ToolStart, PrepareToolCall, Execute, ExecuteSettles, ToolEnd
      <3> QED
        BY <3>1, AtCall
    <2> QED
      BY <2>1, <2>2, UnwindsThrown, CallMovesStays
  <1>4. CASE \E i \in 1..MaxCalls : ParallelCompletes(i)
    BY <1>4, ParallelCompletesMoves, UnwindsThrown, CallMovesStays
  <1>5. CASE Advance \/ ResultEnd
    <2>1. Unwinds \/ Walks \/ StartsBatch \/ (\E label : Nexts(label)) \/ (\E l : EndsBatch(l))
      BY <1>5, AdvanceIs, ResultEndIs
    <2> QED
      BY <2>1, UnwindsThrown, WalksStays, StartsBatchStays, NextsStays, EndsBatchEnded
  <1>6. CASE ParallelDone
    BY <1>6, ParallelDoneStays
  <1>7. CASE AfterTurn \/ StreamThrows
    BY <1>7, AfterTurnIs, StreamThrowsUnwinds, UnwindsThrown, WalksStays, StopsStays
  <1>8. CASE PollSteering \/ PollFollowUp
    BY <1>8, PollSteeringTakes, PollFollowUpTakes
  <1>9. CASE handleRunFailure
    BY <1>9, FailureFails
  <1>10. CASE finishRun
    BY <1>10 DEF finishRun, Finishes, GoesOn, queues
  <1> QED
    BY <1>1, <1>2, <1>3, <1>4, <1>5, <1>6, <1>7, <1>8, <1>9, <1>10 DEF LoopStep

-----------------------------------------------------------------------------
(* What callers and tools of earlier runs do *)

\* A run starts, from a prompt, from a queue or from the transcript as it is.
Begins ==
    /\ pc = "idle" /\ pc' = "agentStart" /\ loop'.pending = <<>>
    /\ loop'.context = messages \o loop'.prompts /\ loop'.newMessages = loop'.prompts
    /\ UNCHANGED <<messages, turn, throws, interrupted, cleared, executed>>
    /\ \/ /\ issued' = issued + 1 /\ loop'.prompts = <<User(issued + 1, "prompt")>>
          /\ UNCHANGED <<steeringQueue, followUpQueue>>
       \/ /\ issued' = issued
          /\ \E mode :
               \/ /\ loop'.prompts = Drained(steeringQueue, mode)
                  /\ steeringQueue' = AfterDrain(steeringQueue, mode) /\ UNCHANGED followUpQueue
               \/ /\ loop'.prompts = Drained(followUpQueue, mode)
                  /\ followUpQueue' = AfterDrain(followUpQueue, mode) /\ UNCHANGED steeringQueue
       \/ issued' = issued /\ loop'.prompts = <<>> /\ UNCHANGED <<steeringQueue, followUpQueue>>
Aborts ==
    /\ interrupted \subseteq interrupted'
    /\ UNCHANGED <<messages, steeringQueue, followUpQueue, pc, loop, run, turn, throws, issued, cleared, executed>>
CallerKind ==
    \/ Begins \/ Queues \/ Aborts \/ reset
    \/ \E s, f \in BOOLEAN : clearQueues(s, f)

\* The locals that runWithLifecycle starts with.
LEMMA BeginsLocals ==
    ASSUME CoreInv, NEW prompts, NEW skip, StartsRun(prompts, skip)
    PROVE  /\ pc = "idle" /\ pc' = "agentStart" /\ loop'.pending = <<>> /\ loop'.prompts = prompts
           /\ loop'.context = messages \o prompts /\ loop'.newMessages = prompts
           /\ UNCHANGED <<messages, turn, throws, interrupted, cleared, executed>>
  <1>1. /\ ~ activeRun /\ pc' = "agentStart"
        /\ loop' = [NoLoop EXCEPT !.context = messages \o prompts, !.newMessages = prompts,
                                  !.prompts = prompts, !.skipPoll = skip]
        /\ UNCHANGED <<messages, turn, throws, interrupted, cleared, executed>>
    BY DEF StartsRun, runWithLifecycle
  <1>2. pc = "idle"
    BY <1>1 DEF CoreInv, TypeInv, RunType
  <1>3. NoLoop \in LoopType /\ NoLoop.pending = <<>>
    BY NoLoopType
  <1> QED
    BY <1>1, <1>2, <1>3 DEF LoopType

\* Every step that is not one of the loop is one of these.
LEMMA CallerKinds ==
    ASSUME CoreInv, Caller \/ (\E o \in orphans : OrphanCompletes(o)) \/ UNCHANGED vars
    PROVE  CallerKind
  <1>0. TypeInv
    BY DEF CoreInv
  <1>1. CASE steer \/ followUp
    BY <1>1, SteerQueues DEF CallerKind
  <1>2. CASE abort
    BY <1>2 DEF abort, Aborts, CallerKind, agentState, queues, history
  <1>3. CASE reset
    BY <1>3 DEF CallerKind
  <1>4. CASE prompt
    <2>1. /\ StartsRun(<<User(issued + 1, "prompt")>>, FALSE)
          /\ issued' = issued + 1 /\ UNCHANGED queues
      BY <1>4, PromptStarts
    <2>2. Begins
      BY <2>1, BeginsLocals DEF Begins, queues
    <2> QED
      BY <2>2 DEF CallerKind
  <1>5. CASE continue
    <2>0. issued' = issued
      BY <1>5, ContinueStarts
    <2>1. ASSUME NEW prompts, NEW mode, StartsRun(prompts, TRUE), prompts = Drained(steeringQueue, mode),
                 steeringQueue' = AfterDrain(steeringQueue, mode), UNCHANGED followUpQueue
          PROVE  Begins
      BY <2>0, <2>1, BeginsLocals DEF Begins
    <2>2. ASSUME NEW prompts, NEW mode, StartsRun(prompts, FALSE), prompts = Drained(followUpQueue, mode),
                 followUpQueue' = AfterDrain(followUpQueue, mode), UNCHANGED steeringQueue
          PROVE  Begins
      BY <2>0, <2>2, BeginsLocals DEF Begins
    <2>3. ASSUME StartsRun(<<>>, FALSE), UNCHANGED queues PROVE Begins
      BY <2>0, <2>3, BeginsLocals DEF Begins, queues
    <2>4. Begins
      BY <1>5, <2>1, <2>2, <2>3, ContinueStarts
    <2> QED
      BY <2>4 DEF CallerKind
  <1>6. CASE clearQueues(TRUE, FALSE) \/ clearQueues(FALSE, TRUE) \/ clearQueues(TRUE, TRUE)
    BY <1>6 DEF CallerKind
  <1>7. ASSUME NEW o, OrphanCompletes(o) PROVE CallerKind
    <2>1. EndsCall(o)
      BY <1>0, <1>7, Reduces DEF OrphanCompletes
    <2> QED
      BY <1>7, <2>1 DEF OrphanCompletes, EndsCall, Aborts, CallerKind, queues, runState
  <1>8. CASE UNCHANGED vars
    BY <1>8 DEF vars, agentState, queues, runState, history, Aborts, CallerKind
  <1> QED
    BY <1>1, <1>2, <1>3, <1>4, <1>5, <1>6, <1>7, <1>8 DEF Caller

\* What is in a transcript that has grown by a message.
LEMMA Grown ==
    ASSUME CoreInv, Sends
    PROVE  /\ messages \in Seq(Message) /\ Len(messages) \in Nat /\ DOMAIN messages = 1..Len(messages)
           /\ pc \notin Sending => messages' = messages
           /\ pc \in Sending =>
                /\ messages' = Append(messages, Outgoing)
                /\ DOMAIN messages' = 1..(Len(messages) + 1) /\ Len(messages') = Len(messages) + 1
                /\ \A p \in 1..Len(messages) : messages'[p] = messages[p]
                /\ messages'[Len(messages) + 1] = Outgoing
           /\ \A p \in DOMAIN messages' :
                \/ p \in DOMAIN messages /\ messages'[p] = messages[p]
                \/ p = Len(messages) + 1 /\ pc \in Sending /\ messages'[p] = Outgoing
  <1>1. messages \in Seq(Message)
    BY DEF CoreInv, TypeInv, AgentType
  <1>2. CASE pc \notin Sending
    BY <1>1, <1>2 DEF Sends
  <1>3. CASE pc \in Sending
    <2>1. messages' = Append(messages, Outgoing)
      BY <1>3 DEF Sends
    <2>2. PICK m : m = Outgoing
      OBVIOUS
    <2>3. /\ DOMAIN Append(messages, m) = 1..(Len(messages) + 1) /\ Len(Append(messages, m)) = Len(messages) + 1
          /\ \A p \in 1..Len(messages) : Append(messages, m)[p] = messages[p]
          /\ Append(messages, m)[Len(messages) + 1] = m
          /\ Len(messages) \in Nat /\ DOMAIN messages = 1..Len(messages)
      BY <1>1
    <2>4. \A p \in 1..(Len(messages) + 1) : p \in 1..Len(messages) \/ p = Len(messages) + 1
      BY <2>3
    <2> QED
      BY <1>1, <1>3, <2>1, <2>2, <2>3, <2>4
  <1> QED
    BY <1>2, <1>3

\* What goes out.
LEMMA Outgoes ==
    ASSUME CoreInv, pc \in Sending
    PROVE  /\ pc \in {"promptEnd", "injectEnd"} => Outgoing \in UserMessage /\ Outgoing.role = "user"
           /\ pc = "promptEnd" => Outgoing = Head(loop.prompts) /\ loop.prompts # <<>>
           /\ pc = "injectEnd" => Outgoing = Head(loop.pending) /\ loop.pending # <<>>
           /\ pc = "resultEnd" => /\ Outgoing = ToolResult(loop.message.id, loop.next)
                                  /\ Outgoing.role = "toolResult" /\ Outgoing \in Message
           /\ pc \in {"answerEnd", "failEnd"} =>
                /\ Outgoing = loop.message /\ loop.message \in AssistantMessage
                /\ Outgoing.role = "assistant" /\ Outgoing \in Message
           /\ pc = "answerEnd" => loop.message.id = turn /\ turn >= 1 /\ loop.message.run = run
           /\ pc = "failEnd" => /\ loop.message.id = 0 /\ loop.message.calls = 0
                                /\ loop.message.stopReason \in FailedStops
  <1>1. CASE pc = "promptEnd"
    <2>1. loop.prompts # <<>>
      BY <1>1 DEF CoreInv, ControlInv
    <2> QED
      BY <1>1, <2>1, HandsHold, MakesMessages DEF Outgoing
  <1>2. CASE pc = "injectEnd"
    <2>1. loop.pending # <<>>
      BY <1>2 DEF CoreInv, ControlInv
    <2> QED
      BY <1>2, <2>1, HandsHold, MakesMessages DEF Outgoing
  <1>3. CASE pc = "resultEnd"
    <2>1. ToolResult(loop.message.id, loop.next) \in Message
      BY <1>3, AtCall
    <2> QED
      BY <1>3, <2>1 DEF Outgoing, ToolResult
  <1>4. CASE pc = "answerEnd"
    BY <1>4, MakesMessages DEF Outgoing, CoreInv, ControlInv
  <1>5. CASE pc = "failEnd"
    BY <1>5, MakesMessages DEF Outgoing, CoreInv, ControlInv
  <1> QED
    BY <1>1, <1>2, <1>3, <1>4, <1>5 DEF Sending

-----------------------------------------------------------------------------
(* Executions *)

\* An answer has an id of its own, and its calls execute only when the answer
\* is the last one and complete.
ExecInv ==
    /\ \A x \in executed : x[1] \in Nat /\ x[1] <= turn /\ (pc = "answerEnd" => x[1] < turn)
    /\ \A p \in DOMAIN messages : IsAssistant(messages[p]) =>
         /\ messages[p].id \in Nat /\ messages[p].id <= turn
         /\ pc = "answerEnd" => messages[p].id < turn
         /\ pc \in WithAnswer /\ messages[p].id = turn => messages[p] = loop.message
    /\ OnlyCompleteCallsExecute

\* A message that goes out has no executed calls yet.
LEMMA SendsUnexecuted ==
    ASSUME CoreInv, ExecInv, Sends
    PROVE  /\ \A p \in DOMAIN messages' : IsAssistant(messages'[p]) =>
                /\ messages'[p].id \in Nat /\ messages'[p].id <= turn
                /\ messages'[p].stopReason # "stop" =>
                     \A i \in 1..messages'[p].calls : <<messages'[p].id, i>> \notin executed
           /\ turn \in Nat
  <1>1. turn \in Nat
    BY DEF CoreInv, TypeInv, RunType
  <1>2. ASSUME NEW p \in DOMAIN messages, IsAssistant(messages[p])
        PROVE  /\ messages[p].id \in Nat /\ messages[p].id <= turn
               /\ messages[p].stopReason # "stop" =>
                    \A i \in 1..messages[p].calls : <<messages[p].id, i>> \notin executed
    BY <1>2 DEF ExecInv, OnlyCompleteCallsExecute
  <1>3. ASSUME pc \in Sending, IsAssistant(Outgoing)
        PROVE  /\ Outgoing.id \in Nat /\ Outgoing.id <= turn
               /\ \A i \in 1..Outgoing.calls : <<Outgoing.id, i>> \notin executed
    <2>1. pc \in {"answerEnd", "failEnd"}
      BY <1>3, Outgoes DEF IsAssistant, Sending
    <2>2. CASE pc = "answerEnd"
      <3>1. Outgoing.id = turn
        BY <1>3, <2>2, Outgoes
      <3>2. \A x \in executed : x[1] \in Nat /\ x[1] < turn
        BY <2>2 DEF ExecInv
      <3> QED
        BY <1>1, <3>1, <3>2
    <2>3. CASE pc = "failEnd"
      <3>1. Outgoing.id = 0 /\ Outgoing.calls = 0
        BY <1>3, <2>3, Outgoes
      <3> QED
        BY <1>1, <3>1
    <2> QED
      BY <2>1, <2>2, <2>3
  <1> QED
    BY <1>1, <1>2, <1>3, Grown

\* A step of the loop keeps that.
LEMMA ExecLoop == ASSUME CoreInv, ExecInv, LoopStep PROVE ExecInv'
  <1>1. Sends /\ LoopKind
    BY LoopSends, LoopKinds
  <1>2. /\ \A p \in DOMAIN messages' : IsAssistant(messages'[p]) =>
             /\ messages'[p].id \in Nat /\ messages'[p].id <= turn
             /\ messages'[p].stopReason # "stop" =>
                  \A i \in 1..messages'[p].calls : <<messages'[p].id, i>> \notin executed
        /\ turn \in Nat
    BY <1>1, SendsUnexecuted
  <1>3. turn' \in Nat /\ turn' >= turn
    BY <1>1, <1>2 DEF LoopKind, Stays, Takes, PromptSent, InjectSent, PartialCame, AnswerCame, AnswerSent,
                      BatchEnded, Thrown, Fails, Finishes, GoesOn
  <1>4. ASSUME NEW p \in DOMAIN messages', IsAssistant(messages'[p])
        PROVE  /\ pc' = "answerEnd" => messages'[p].id < turn'
               /\ pc' \in WithAnswer /\ messages'[p].id = turn' => messages'[p] = loop'.message
    <2>1. CASE AnswerCame
      <3>1. turn' = turn + 1
        BY <2>1 DEF AnswerCame
      <3> QED
        BY <1>2, <1>4, <3>1
    <2>2. CASE AnswerSent
      <3>1. pc = "answerEnd" /\ pc' # "answerEnd" /\ turn' = turn /\ loop'.message = loop.message
        BY <2>2 DEF AnswerSent, GoesOn
      <3>2. CASE p \in DOMAIN messages /\ messages'[p] = messages[p]
        <4>1. messages[p].id \in Nat /\ messages[p].id < turn
          BY <1>4, <3>1, <3>2 DEF ExecInv
        <4> QED
          BY <1>2, <3>1, <3>2, <4>1
      <3>3. CASE messages'[p] = Outgoing
        BY <3>1, <3>3 DEF Outgoing
      <3> QED
        BY <1>1, <1>4, <3>2, <3>3, Grown
    <2>3. CASE (Stays \/ \E n : BatchEnded(n)) /\ pc' \in WithAnswer
      <3>1. /\ pc \in WithAnswer \ {"answerEnd"} /\ pc' # "answerEnd" /\ turn' = turn /\ loop'.message = loop.message
        BY <2>3 DEF Stays, BatchEnded, GoesOn, Clean
      <3>2. p \in DOMAIN messages /\ messages'[p] = messages[p]
        <4>1. pc \in Sending => pc = "resultEnd"
          BY <3>1 DEF Sending
        <4>2. pc \in Sending => ~ IsAssistant(Outgoing)
          BY <4>1, Outgoes DEF IsAssistant
        <4> QED
          BY <1>1, <1>4, <4>2, Grown
      <3> QED
        BY <1>4, <3>1, <3>2 DEF ExecInv
    <2>4. CASE pc' \notin WithAnswer
      BY <2>4
    <2>5. CASE Takes \/ PromptSent \/ InjectSent \/ PartialCame \/ Thrown \/ Fails \/ Finishes
      <3>1. pc' \notin WithAnswer
        BY <2>5 DEF Takes, PromptSent, InjectSent, PartialCame, Thrown, Fails, Finishes, Clean, PromptLabel
      <3> QED
        BY <3>1
    <2> QED
      BY <1>1, <2>1, <2>2, <2>3, <2>4, <2>5 DEF LoopKind
  <1>5. CASE executed' = executed
    <2>1. ASSUME NEW x \in executed' PROVE x[1] \in Nat /\ x[1] <= turn' /\ (pc' = "answerEnd" => x[1] < turn')
      <3>1. x[1] \in Nat /\ x[1] <= turn
        BY <1>5, <2>1 DEF ExecInv
      <3>2. pc' = "answerEnd" => turn' = turn + 1
        BY <1>1 DEF LoopKind, Stays, Takes, PromptSent, InjectSent, PartialCame, AnswerCame, AnswerSent,
                    BatchEnded, Thrown, Fails, Finishes, Clean, PromptLabel
      <3> QED
        BY <1>2, <1>3, <3>1, <3>2
    <2>2. OnlyCompleteCallsExecute'
      BY <1>2, <1>5 DEF OnlyCompleteCallsExecute
    <2> QED
      BY <1>2, <1>3, <1>4, <2>1, <2>2 DEF ExecInv
  <1>6. CASE /\ pc \in {"execute", "advance"} /\ pc' \in Batch /\ loop.message.stopReason = "stop"
             /\ \A x \in executed' : x \in executed \/ x[1] = loop.message.id
    <2>1. messages' = messages /\ loop.message.id = turn
      BY <1>1, <1>6 DEF Sends, Sending, CoreInv, ControlInv
    <2>2. ASSUME NEW x \in executed' PROVE x[1] \in Nat /\ x[1] <= turn'
      BY <1>2, <1>3, <1>6, <2>1, <2>2 DEF ExecInv
    <2>3. OnlyCompleteCallsExecute'
      <3> SUFFICES ASSUME NEW p \in DOMAIN messages, IsAssistant(messages[p]), messages[p].stopReason # "stop",
                          NEW i \in 1..messages[p].calls, <<messages[p].id, i>> \in executed'
                   PROVE  FALSE
        BY <2>1 DEF OnlyCompleteCallsExecute
      <3>1. <<messages[p].id, i>> \notin executed
        BY DEF ExecInv, OnlyCompleteCallsExecute
      <3>2. messages[p].id = turn
        BY <1>6, <2>1, <3>1
      <3>3. messages[p] = loop.message
        BY <1>6, <3>2 DEF ExecInv
      <3> QED
        BY <1>6, <3>3
    <2>4. pc' # "answerEnd"
      BY <1>6
    <2> QED
      BY <1>2, <1>3, <1>4, <2>2, <2>3, <2>4 DEF ExecInv
  <1> QED
    BY <1>5, <1>6, LoopExecutes

\* So does a caller.
LEMMA ExecCaller == ASSUME CoreInv, ExecInv, CallerKind PROVE ExecInv'
  <1>1. CASE Begins
    BY <1>1 DEF Begins, ExecInv, OnlyCompleteCallsExecute
  <1>2. CASE Queues
    BY <1>2 DEF Queues, ExecInv, OnlyCompleteCallsExecute, agentState, history
  <1>3. CASE Aborts
    BY <1>3 DEF Aborts, ExecInv, OnlyCompleteCallsExecute
  <1>4. CASE reset
    <2>1. messages' = <<>> /\ UNCHANGED <<executed, turn, pc>>
      BY <1>4 DEF reset
    <2> QED
      BY <2>1 DEF ExecInv, OnlyCompleteCallsExecute
  <1>5. CASE \E s, f \in BOOLEAN : clearQueues(s, f)
    BY <1>5 DEF clearQueues, ExecInv, OnlyCompleteCallsExecute, agentState
  <1> QED
    BY <1>1, <1>2, <1>3, <1>4, <1>5 DEF CallerKind

\* Every step keeps it.
LEMMA ExecStep == ASSUME CoreInv, ExecInv, [Next]_vars PROVE ExecInv'
  BY ExecLoop, ExecCaller, CallerKinds DEF Next

\* No call of an answer that was cut off or failed ever executes.
THEOREM OnlyCompleteCorrect == Spec => []OnlyCompleteCallsExecute
  <1>1. Init => ExecInv
    BY DEF Init, ExecInv, OnlyCompleteCallsExecute
  <1>2. CoreInv /\ ExecInv /\ [Next]_vars => ExecInv'
    BY ExecStep
  <1>3. ExecInv => OnlyCompleteCallsExecute
    BY DEF ExecInv
  <1> QED
    BY <1>1, <1>2, <1>3, CoreCorrect, PTL DEF Spec

-----------------------------------------------------------------------------
(* Order *)

\* Messages of the same door are in the order of their ids: in one place, and
\* those of one place before those of another.
InOrder(q) ==
    \A i, j \in DOMAIN q :
        /\ i < j /\ q[i].role = "user" /\ q[j].role = "user" /\ q[i].via = q[j].via
        => q[i].id < q[j].id
Before(q, r) ==
    \A i \in DOMAIN q, j \in DOMAIN r :
        q[i].role = "user" /\ r[j].role = "user" /\ q[i].via = r[j].via => q[i].id < r[j].id
UpTo(q, n) == \A i \in DOMAIN q : q[i].role = "user" => q[i].id <= n
OfDoor(q, via) == \A i \in DOMAIN q : q[i].via = via

\* The queues S and F, the hands P and G of the loop and the transcript M, from
\* the last to the first that a message comes to; n ids were given out.
Ordered(S, F, P, G, M, n) ==
    /\ OfDoor(S, "steer") /\ OfDoor(F, "followUp")
    /\ InOrder(S) /\ InOrder(F) /\ InOrder(P) /\ InOrder(G) /\ InOrder(M)
    /\ UpTo(S, n) /\ UpTo(F, n) /\ UpTo(P, n) /\ UpTo(G, n) /\ UpTo(M, n)
    /\ Before(M, S) /\ Before(M, F) /\ Before(M, P) /\ Before(M, G)
    /\ Before(P, S) /\ Before(P, F) /\ Before(G, S) /\ Before(G, F)
OrderInv == Ordered(steeringQueue, followUpQueue, loop.prompts, loop.pending, messages, issued)

\* Nothing is out of order in an empty sequence.
LEMMA EmptyOrder ==
    /\ InOrder(<<>>) /\ \A n : UpTo(<<>>, n) /\ OfDoor(<<>>, n)
    /\ \A q : Before(<<>>, q) /\ Before(q, <<>>)
  BY DEF InOrder, UpTo, OfDoor, Before

\* The first message of the hands goes to the end of the transcript.
LEMMA SendOrder ==
    ASSUME NEW M \in Seq(Message), NEW H \in Seq(UserMessage), H # <<>>, NEW n \in Nat,
           InOrder(M), InOrder(H), Before(M, H), UpTo(M, n), UpTo(H, n)
    PROVE  /\ InOrder(Append(M, Head(H))) /\ InOrder(Tail(H)) /\ Before(Append(M, Head(H)), Tail(H))
           /\ UpTo(Append(M, Head(H)), n) /\ UpTo(Tail(H), n)
           /\ \A Q \in Seq(UserMessage) :
                /\ Before(M, Q) /\ Before(H, Q) => Before(Append(M, Head(H)), Q) /\ Before(Tail(H), Q)
  <1>1. PICK h : h = Head(H)
    OBVIOUS
  <1>2. PICK A : A = Append(M, h)
    OBVIOUS
  <1>3. PICK T : T = Tail(H)
    OBVIOUS
  <1>4. /\ DOMAIN M = 1..Len(M) /\ Len(M) \in Nat /\ DOMAIN A = 1..(Len(M) + 1)
        /\ \A i \in 1..Len(M) : A[i] = M[i]
        /\ A[Len(M) + 1] = h
    BY <1>2
  <1>5. /\ DOMAIN H = 1..Len(H) /\ Len(H) \in Nat /\ Len(H) >= 1 /\ h = H[1]
        /\ T \in Seq(UserMessage) /\ DOMAIN T = 1..(Len(H) - 1)
        /\ \A i \in 1..(Len(H) - 1) : T[i] = H[i + 1]
    BY <1>1, <1>3, EmptySeq
  <1>6. \A i \in DOMAIN T : i + 1 \in DOMAIN H /\ T[i] = H[i + 1] /\ 1 < i + 1
    BY <1>5
  <1>7. 1 \in DOMAIN H
    BY <1>5
  <1>8. \A i \in DOMAIN A : (i \in DOMAIN M /\ A[i] = M[i]) \/ (i = Len(M) + 1 /\ A[i] = h)
    BY <1>4
  <1>9. InOrder(A)
    <2> SUFFICES ASSUME NEW i \in DOMAIN A, NEW j \in DOMAIN A, i < j, A[i].role = "user", A[j].role = "user",
                        A[i].via = A[j].via
                 PROVE  A[i].id < A[j].id
      BY DEF InOrder
    <2>1. i \in DOMAIN M /\ A[i] = M[i]
      BY <1>4
    <2> QED
      BY <1>5, <1>7, <1>8, <2>1 DEF InOrder, Before
  <1>10. InOrder(T)
    <2> SUFFICES ASSUME NEW i \in DOMAIN T, NEW j \in DOMAIN T, i < j, T[i].role = "user", T[j].role = "user",
                        T[i].via = T[j].via
                 PROVE  T[i].id < T[j].id
      BY DEF InOrder
    <2>1. i + 1 \in DOMAIN H /\ j + 1 \in DOMAIN H /\ i + 1 < j + 1 /\ T[i] = H[i + 1] /\ T[j] = H[j + 1]
      BY <1>5, <1>6
    <2> QED
      BY <2>1 DEF InOrder
  <1>11. Before(A, T)
    <2> SUFFICES ASSUME NEW i \in DOMAIN A, NEW j \in DOMAIN T, A[i].role = "user", T[j].role = "user",
                        A[i].via = T[j].via
                 PROVE  A[i].id < T[j].id
      BY DEF Before
    <2>1. j + 1 \in DOMAIN H /\ T[j] = H[j + 1] /\ 1 < j + 1
      BY <1>6
    <2>2. CASE i \in DOMAIN M /\ A[i] = M[i]
      BY <2>1, <2>2 DEF Before
    <2>3. CASE A[i] = h
      BY <1>5, <1>7, <2>1, <2>3 DEF InOrder
    <2> QED
      BY <1>8, <2>2, <2>3
  <1>12. UpTo(A, n) /\ UpTo(T, n)
    BY <1>5, <1>6, <1>7, <1>8 DEF UpTo
  <1>13. ASSUME NEW Q \in Seq(UserMessage), Before(M, Q), Before(H, Q) PROVE Before(A, Q) /\ Before(T, Q)
    BY <1>5, <1>6, <1>7, <1>8, <1>13 DEF Before
  <1> QED
    BY <1>1, <1>2, <1>3, <1>9, <1>10, <1>11, <1>12, <1>13

\* A message that no user sent goes to the end of the transcript.
LEMMA SendOther ==
    ASSUME NEW M \in Seq(Message), NEW m, m.role # "user"
    PROVE  /\ InOrder(M) => InOrder(Append(M, m))
           /\ \A n : UpTo(M, n) => UpTo(Append(M, m), n)
           /\ \A Q : Before(M, Q) => Before(Append(M, m), Q)
  <1>1. PICK A : A = Append(M, m)
    OBVIOUS
  <1>2. /\ DOMAIN M = 1..Len(M) /\ Len(M) \in Nat /\ DOMAIN A = 1..(Len(M) + 1)
        /\ \A i \in 1..Len(M) : A[i] = M[i]
        /\ A[Len(M) + 1] = m
    BY <1>1
  <1>3. \A i \in DOMAIN A : A[i].role = "user" => i \in DOMAIN M /\ A[i] = M[i]
    BY <1>2
  <1>4. InOrder(M) => InOrder(A)
    BY <1>3 DEF InOrder
  <1>5. \A n : UpTo(M, n) => UpTo(A, n)
    BY <1>3 DEF UpTo
  <1>6. \A Q : Before(M, Q) => Before(A, Q)
    BY <1>3 DEF Before
  <1> QED
    BY <1>1, <1>4, <1>5, <1>6

\* A drain keeps the order, and what it takes comes before what it leaves.
LEMMA DrainOrder ==
    ASSUME NEW q \in Seq(UserMessage), NEW mode, NEW n, NEW via, InOrder(q), UpTo(q, n), OfDoor(q, via)
    PROVE  LET d == Drained(q, mode)  a == AfterDrain(q, mode) IN
           /\ InOrder(d) /\ InOrder(a) /\ UpTo(d, n) /\ UpTo(a, n) /\ OfDoor(d, via) /\ OfDoor(a, via)
           /\ Before(d, a) /\ \A r : Before(r, q) => Before(r, d) /\ Before(r, a)
  <1> DEFINE d == Drained(q, mode)
             a == AfterDrain(q, mode)
  <1>1. /\ d \in Seq(UserMessage) /\ a \in Seq(UserMessage) /\ Len(d) + Len(a) = Len(q)
        /\ \A i \in 1..Len(d) : d[i] = q[i]
        /\ \A i \in 1..Len(a) : a[i] = q[Len(d) + i]
        /\ Len(d) \in Nat /\ Len(a) \in Nat
    BY Drains
  <1> HIDE DEF d, a
  <1>2. /\ DOMAIN d = 1..Len(d) /\ DOMAIN a = 1..Len(a) /\ DOMAIN q = 1..Len(q)
    BY <1>1
  <1>3. \A i \in DOMAIN d : i \in DOMAIN q /\ d[i] = q[i] /\ \A j \in DOMAIN a : i < Len(d) + j
    BY <1>1, <1>2
  <1>4. \A i \in DOMAIN a : Len(d) + i \in DOMAIN q /\ a[i] = q[Len(d) + i]
    BY <1>1, <1>2
  <1>5. \A i, j \in DOMAIN a : i < j => Len(d) + i < Len(d) + j
    BY <1>1, <1>2
  <1>6. InOrder(d) /\ UpTo(d, n) /\ OfDoor(d, via)
    BY <1>3 DEF InOrder, UpTo, OfDoor
  <1>7. InOrder(a)
    BY <1>4, <1>5 DEF InOrder
  <1>8. UpTo(a, n) /\ OfDoor(a, via)
    BY <1>4 DEF UpTo, OfDoor
  <1>9. Before(d, a)
    BY <1>3, <1>4 DEF InOrder, Before
  <1>10. \A r : Before(r, q) => Before(r, d) /\ Before(r, a)
    BY <1>3, <1>4 DEF Before
  <1> QED
    BY <1>6, <1>7, <1>8, <1>9, <1>10 DEF d, a

\* Messages of different doors are in no order.
LEMMA DoorsApart ==
    ASSUME NEW q, NEW r, NEW v, NEW w, OfDoor(q, v), OfDoor(r, w), v # w
    PROVE  Before(q, r)
  BY DEF OfDoor, Before

\* A new message is queued behind all others.
LEMMA QueueOrder ==
    ASSUME NEW q \in Seq(UserMessage), NEW n \in Nat, NEW m, m.id = n + 1, NEW via, m.via = via,
           InOrder(q), UpTo(q, n), OfDoor(q, via), \A i \in DOMAIN q : q[i].id \in Nat
    PROVE  /\ InOrder(Append(q, m)) /\ UpTo(Append(q, m), n + 1) /\ OfDoor(Append(q, m), via)
           /\ \A r : /\ Before(r, q) /\ UpTo(r, n)
                     /\ \A i \in DOMAIN r : r[i].role = "user" => r[i].id \in Nat
                     => Before(r, Append(q, m))
  <1>1. PICK A : A = Append(q, m)
    OBVIOUS
  <1>2. /\ DOMAIN q = 1..Len(q) /\ Len(q) \in Nat /\ DOMAIN A = 1..(Len(q) + 1)
        /\ \A i \in 1..Len(q) : A[i] = q[i]
        /\ A[Len(q) + 1] = m
    BY <1>1
  <1>3. \A i \in DOMAIN A : (i \in DOMAIN q /\ A[i] = q[i]) \/ (i = Len(q) + 1 /\ A[i] = m)
    BY <1>2
  <1>4. \A i \in DOMAIN q : q[i].role = "user" => q[i].id <= n /\ q[i].id < n + 1
    BY DEF UpTo
  <1>5. InOrder(A)
    <2> SUFFICES ASSUME NEW i \in DOMAIN A, NEW j \in DOMAIN A, i < j, A[i].role = "user", A[j].role = "user",
                        A[i].via = A[j].via
                 PROVE  A[i].id < A[j].id
      BY DEF InOrder
    <2>1. i \in DOMAIN q /\ A[i] = q[i]
      BY <1>2
    <2> QED
      BY <1>3, <1>4, <2>1 DEF InOrder
  <1>6. UpTo(A, n + 1)
    <2> SUFFICES ASSUME NEW i \in DOMAIN A, A[i].role = "user" PROVE A[i].id <= n + 1
      BY DEF UpTo
    <2>1. CASE i \in DOMAIN q /\ A[i] = q[i]
      BY <1>4, <2>1
    <2>2. CASE A[i] = m
      BY <2>2
    <2> QED
      BY <1>3, <2>1, <2>2
  <1>7. OfDoor(A, via)
    BY <1>3 DEF OfDoor
  <1>8. ASSUME NEW r, Before(r, q), UpTo(r, n), \A i \in DOMAIN r : r[i].role = "user" => r[i].id \in Nat
        PROVE  Before(r, A)
    <2> SUFFICES ASSUME NEW i \in DOMAIN r, NEW j \in DOMAIN A, r[i].role = "user", A[j].role = "user",
                        r[i].via = A[j].via
                 PROVE  r[i].id < A[j].id
      BY DEF Before
    <2>1. CASE j \in DOMAIN q /\ A[j] = q[j]
      BY <1>8, <2>1 DEF Before
    <2>2. CASE A[j] = m
      <3>1. r[i].id \in Nat /\ r[i].id <= n
        BY <1>8 DEF UpTo
      <3> QED
        BY <2>2, <3>1
    <2> QED
      BY <1>3, <2>1, <2>2
  <1> QED
    BY <1>1, <1>5, <1>6, <1>7, <1>8

\* What the steps that move messages make of that order.
LEMMA OrderedMoves ==
    ASSUME NEW S \in Seq(UserMessage), NEW F \in Seq(UserMessage), NEW P \in Seq(UserMessage),
           NEW G \in Seq(UserMessage), NEW M \in Seq(Message), NEW n \in Nat, Ordered(S, F, P, G, M, n)
    PROVE  /\ Ordered(S, F, <<>>, <<>>, M, n)
           /\ \A m : m.role # "user" => Ordered(S, F, P, G, Append(M, m), n)
           /\ P # <<>> /\ G = <<>> => Ordered(S, F, Tail(P), G, Append(M, Head(P)), n)
           /\ G # <<>> /\ P = <<>> => Ordered(S, F, P, Tail(G), Append(M, Head(G)), n)
  <1>1. Ordered(S, F, <<>>, <<>>, M, n)
    BY EmptyOrder DEF Ordered
  <1>2. ASSUME NEW m, m.role # "user" PROVE Ordered(S, F, P, G, Append(M, m), n)
    BY <1>2, SendOther DEF Ordered
  <1>3. ASSUME P # <<>>, G = <<>> PROVE Ordered(S, F, Tail(P), G, Append(M, Head(P)), n)
    BY <1>3, SendOrder, EmptyOrder DEF Ordered
  <1>4. ASSUME G # <<>>, P = <<>> PROVE Ordered(S, F, P, Tail(G), Append(M, Head(G)), n)
    BY <1>4, SendOrder, EmptyOrder DEF Ordered
  <1> QED
    BY <1>1, <1>2, <1>3, <1>4

\* A drain into empty hands, as the messages to inject or as prompts.
LEMMA OrderedDrains ==
    ASSUME NEW S \in Seq(UserMessage), NEW F \in Seq(UserMessage), NEW M \in Seq(Message), NEW n \in Nat,
           NEW mode, Ordered(S, F, <<>>, <<>>, M, n)
    PROVE  /\ Ordered(AfterDrain(S, mode), F, <<>>, Drained(S, mode), M, n)
           /\ Ordered(AfterDrain(S, mode), F, Drained(S, mode), <<>>, M, n)
           /\ Ordered(S, AfterDrain(F, mode), <<>>, Drained(F, mode), M, n)
           /\ Ordered(S, AfterDrain(F, mode), Drained(F, mode), <<>>, M, n)
  <1>1. PICK ds : ds = Drained(S, mode)
    OBVIOUS
  <1>2. PICK rs : rs = AfterDrain(S, mode)
    OBVIOUS
  <1>3. PICK df : df = Drained(F, mode)
    OBVIOUS
  <1>4. PICK af : af = AfterDrain(F, mode)
    OBVIOUS
  <1>5. /\ InOrder(ds) /\ InOrder(rs) /\ UpTo(ds, n) /\ UpTo(rs, n) /\ OfDoor(ds, "steer") /\ OfDoor(rs, "steer")
        /\ Before(ds, rs) /\ Before(M, ds) /\ Before(M, rs)
    BY <1>1, <1>2, DrainOrder DEF Ordered
  <1>6. /\ InOrder(df) /\ InOrder(af) /\ UpTo(df, n) /\ UpTo(af, n)
        /\ OfDoor(df, "followUp") /\ OfDoor(af, "followUp")
        /\ Before(df, af) /\ Before(M, df) /\ Before(M, af)
    BY <1>3, <1>4, DrainOrder DEF Ordered
  <1>7. Before(ds, F) /\ Before(df, S)
    BY <1>5, <1>6, DoorsApart DEF Ordered
  <1>8. /\ Ordered(rs, F, <<>>, ds, M, n) /\ Ordered(rs, F, ds, <<>>, M, n)
        /\ Ordered(S, af, <<>>, df, M, n) /\ Ordered(S, af, df, <<>>, M, n)
    BY <1>5, <1>6, <1>7, EmptyOrder DEF Ordered
  <1> QED
    BY <1>1, <1>2, <1>3, <1>4, <1>8

\* The ids of messages are numbers.
LEMMA UserIds ==
    /\ \A q \in Seq(UserMessage) : \A i \in DOMAIN q : q[i].id \in Nat /\ q[i].role = "user"
    /\ \A q \in Seq(Message) : \A i \in DOMAIN q : q[i].role = "user" => q[i].id \in Nat
  <1>0. MaxMsgs \in Nat
    BY BoundsAssumption
  <1>1. \A m \in UserMessage : m.id \in Nat /\ m.role = "user"
    BY <1>0 DEF UserMessage
  <1>2. \A m \in Message : m.role = "user" => m \in UserMessage
    BY DEF Message, UserMessage, AssistantMessage, ToolResultMessage
  <1>3. ASSUME NEW q \in Seq(UserMessage), NEW i \in DOMAIN q PROVE q[i] \in UserMessage
    OBVIOUS
  <1>4. ASSUME NEW q \in Seq(Message), NEW i \in DOMAIN q PROVE q[i] \in Message
    OBVIOUS
  <1> QED
    BY <1>1, <1>2, <1>3, <1>4

\* A bound that is raised stays a bound.
LEMMA UpToMore ==
    ASSUME NEW q \in Seq(Message), NEW n \in Nat, UpTo(q, n) PROVE UpTo(q, n + 1)
  <1> SUFFICES ASSUME NEW i \in DOMAIN q, q[i].role = "user" PROVE q[i].id <= n + 1
    BY DEF UpTo
  <1>1. q[i].id \in Nat /\ q[i].id <= n
    BY UserIds DEF UpTo
  <1> QED
    BY <1>1

\* A new message goes to the end of a queue, or is the prompt of a run.
LEMMA OrderedAdds ==
    ASSUME NEW S \in Seq(UserMessage), NEW F \in Seq(UserMessage), NEW P \in Seq(UserMessage),
           NEW G \in Seq(UserMessage), NEW M \in Seq(Message), NEW n \in Nat, Ordered(S, F, P, G, M, n)
    PROVE  /\ Ordered(Append(S, User(n + 1, "steer")), F, P, G, M, n + 1)
           /\ Ordered(S, Append(F, User(n + 1, "followUp")), P, G, M, n + 1)
           /\ Ordered(S, F, <<User(n + 1, "prompt")>>, <<>>, M, n + 1)
  <1>1. S \in Seq(Message) /\ F \in Seq(Message) /\ P \in Seq(Message) /\ G \in Seq(Message)
    <2>1. UserMessage \subseteq Message
      BY DEF Message
    <2> QED
      BY <2>1
  <1>2. /\ UpTo(S, n + 1) /\ UpTo(F, n + 1) /\ UpTo(P, n + 1) /\ UpTo(G, n + 1) /\ UpTo(M, n + 1)
    BY <1>1, UpToMore DEF Ordered
  <1>3. PICK s : s = User(n + 1, "steer")
    OBVIOUS
  <1>4. PICK f : f = User(n + 1, "followUp")
    OBVIOUS
  <1>5. PICK u : u = User(n + 1, "prompt")
    OBVIOUS
  <1>6. /\ s.id = n + 1 /\ s.via = "steer" /\ f.id = n + 1 /\ f.via = "followUp"
        /\ u.id = n + 1 /\ u.via = "prompt" /\ u.role = "user"
    BY <1>3, <1>4, <1>5 DEF User
  <1>7. /\ \A i \in DOMAIN S : S[i].id \in Nat
        /\ \A i \in DOMAIN F : F[i].id \in Nat
    BY UserIds
  <1>8. /\ \A i \in DOMAIN P : P[i].role = "user" => P[i].id \in Nat
        /\ \A i \in DOMAIN G : G[i].role = "user" => G[i].id \in Nat
        /\ \A i \in DOMAIN M : M[i].role = "user" => M[i].id \in Nat
    BY UserIds
  <1>9. Ordered(Append(S, s), F, P, G, M, n + 1)
    <2>1. /\ InOrder(Append(S, s)) /\ UpTo(Append(S, s), n + 1) /\ OfDoor(Append(S, s), "steer")
          /\ Before(M, Append(S, s)) /\ Before(P, Append(S, s)) /\ Before(G, Append(S, s))
      BY <1>6, <1>7, <1>8, QueueOrder DEF Ordered
    <2> QED
      BY <1>2, <2>1 DEF Ordered
  <1>10. Ordered(S, Append(F, f), P, G, M, n + 1)
    <2>1. /\ InOrder(Append(F, f)) /\ UpTo(Append(F, f), n + 1) /\ OfDoor(Append(F, f), "followUp")
          /\ Before(M, Append(F, f)) /\ Before(P, Append(F, f)) /\ Before(G, Append(F, f))
      BY <1>6, <1>7, <1>8, QueueOrder DEF Ordered
    <2> QED
      BY <1>2, <2>1 DEF Ordered
  <1>11. Ordered(S, F, <<u>>, <<>>, M, n + 1)
    <2>1. PICK q : q = <<u>>
      OBVIOUS
    <2>2. DOMAIN q = {1} /\ q[1] = u
      BY <2>1
    <2>3. InOrder(q) /\ UpTo(q, n + 1) /\ OfDoor(q, "prompt")
      BY <1>6, <2>2 DEF InOrder, UpTo, OfDoor
    <2>4. Before(q, S) /\ Before(q, F)
      BY <2>3, DoorsApart DEF Ordered
    <2>5. Before(M, q)
      <3> SUFFICES ASSUME NEW i \in DOMAIN M, M[i].role = "user" PROVE M[i].id < n + 1
        BY <1>6, <2>2 DEF Before
      <3>1. M[i].id \in Nat /\ M[i].id <= n
        BY <1>8 DEF Ordered, UpTo
      <3> QED
        BY <3>1
    <2> QED
      BY <1>2, <2>1, <2>3, <2>4, <2>5, EmptyOrder DEF Ordered
  <1> QED
    BY <1>3, <1>4, <1>5, <1>9, <1>10, <1>11

\* How messages go through the hands of the loop.
SaysOther == messages' = messages \/ \E m : m.role # "user" /\ messages' = Append(messages, m)
SaysPrompt == loop.prompts # <<>> /\ loop.pending = <<>> /\ messages' = Append(messages, Head(loop.prompts))
SaysPending == loop.pending # <<>> /\ loop.prompts = <<>> /\ messages' = Append(messages, Head(loop.pending))
SameQueues == UNCHANGED <<steeringQueue, followUpQueue>>
Flow ==
    /\ UNCHANGED <<issued, cleared>> /\ throws' \in {throws, throws + 1}
    /\ \/ SameQueues /\ SameHands /\ SaysOther
       \/ SameQueues /\ SaysPrompt /\ loop'.prompts = Tail(loop.prompts) /\ loop'.pending = loop.pending
       \/ SameQueues /\ SaysPending /\ loop'.pending = Tail(loop.pending) /\ loop'.prompts = loop.prompts
       \/ /\ SameQueues /\ (SaysOther \/ SaysPrompt \/ SaysPending)
          /\ loop'.prompts = <<>> /\ loop'.pending = <<>> /\ throws' = throws + 1
       \/ /\ messages' = messages /\ loop.prompts = <<>> /\ loop.pending = <<>> /\ loop'.prompts = <<>>
          /\ \E mode :
               \/ /\ loop'.pending = Drained(steeringQueue, mode)
                  /\ steeringQueue' = AfterDrain(steeringQueue, mode) /\ UNCHANGED followUpQueue
               \/ /\ loop'.pending = Drained(followUpQueue, mode)
                  /\ followUpQueue' = AfterDrain(followUpQueue, mode) /\ UNCHANGED steeringQueue

\* Every step of the loop moves messages in one of these ways.
LEMMA LoopFlow == ASSUME CoreInv, LoopStep PROVE Flow
  <1>1. Sends /\ LoopKind /\ UNCHANGED <<issued, cleared>>
    BY LoopSends, LoopKinds, LoopFrames
  <1>2. /\ loop.prompts # <<>> => pc \in Starting
        /\ loop.pending # <<>> => pc \in {"turnStart", "injectStart", "injectEnd"}
    BY DEF CoreInv, ControlInv
  <1>3. pc = "promptEnd" => SaysPrompt
    <2>1. pc = "promptEnd" => pc \in Sending
      BY DEF Sending
    <2> QED
      BY <1>1, <1>2, <2>1, Outgoes DEF Sends, SaysPrompt
  <1>4. pc = "injectEnd" => SaysPending
    <2>1. pc = "injectEnd" => pc \in Sending
      BY DEF Sending
    <2> QED
      BY <1>1, <1>2, <2>1, Outgoes DEF Sends, SaysPending
  <1>5. pc \notin {"promptEnd", "injectEnd"} => SaysOther
    <2>1. CASE pc \in Sending \ {"promptEnd", "injectEnd"}
      <3>1. Outgoing.role # "user"
        BY <2>1, Outgoes DEF Sending
      <3> QED
        BY <1>1, <2>1, <3>1 DEF Sends, SaysOther
    <2>2. CASE pc \notin Sending
      BY <1>1, <2>2 DEF Sends, SaysOther
    <2> QED
      BY <2>1, <2>2
  <1>6. CASE Stays \/ PartialCame \/ AnswerCame \/ AnswerSent \/ \E n : BatchEnded(n)
    <2>1. /\ SameQueues /\ SameHands /\ throws' = throws /\ pc \notin {"promptEnd", "injectEnd"}
      BY <1>6 DEF Stays, PartialCame, AnswerCame, AnswerSent, BatchEnded, GoesOn, SameQueues, Clean
    <2> QED
      BY <1>1, <1>5, <2>1 DEF Flow
  <1>7. CASE Fails
    <2>1. SameQueues /\ SameHands /\ throws' \in {throws, throws + 1} /\ pc \notin {"promptEnd", "injectEnd"}
      BY <1>7 DEF Fails, SameQueues, SameHands
    <2> QED
      BY <1>1, <1>5, <2>1 DEF Flow
  <1>8. CASE Finishes
    <2>1. SameQueues /\ throws' = throws /\ pc = "finish" /\ loop' = NoLoop
      BY <1>8 DEF Finishes, GoesOn, SameQueues
    <2>2. SameHands
      BY <1>2, <2>1 DEF SameHands, NoLoop
    <2> QED
      BY <1>1, <1>5, <2>1, <2>2 DEF Flow
  <1>9. CASE PromptSent
    BY <1>1, <1>3, <1>9 DEF PromptSent, GoesOn, SameQueues, Flow
  <1>10. CASE InjectSent
    BY <1>1, <1>4, <1>10 DEF InjectSent, GoesOn, SameQueues, Flow
  <1>11. CASE Thrown
    BY <1>1, <1>3, <1>4, <1>5, <1>11 DEF Thrown, SameQueues, Flow
  <1>12. CASE Takes
    <2>1. pc \in {"pollSteering", "pollFollowUp"} /\ loop'.prompts = loop.prompts /\ throws' = throws
      BY <1>12 DEF Takes
    <2>2. messages' = messages /\ loop.prompts = <<>> /\ loop.pending = <<>>
      BY <1>1, <1>2, <2>1 DEF Sends, Sending
    <2> QED
      BY <1>1, <1>12, <2>1, <2>2 DEF Takes, Flow
  <1> QED
    BY <1>1, <1>6, <1>7, <1>8, <1>9, <1>10, <1>11, <1>12 DEF LoopKind

\* The sequences that hold messages, and the number of ids given out.
LEMMA Holders ==
    ASSUME CoreInv
    PROVE  /\ steeringQueue \in Seq(UserMessage) /\ followUpQueue \in Seq(UserMessage)
           /\ loop.prompts \in Seq(UserMessage) /\ loop.pending \in Seq(UserMessage)
           /\ messages \in Seq(Message) /\ issued \in Nat /\ throws \in Nat
  BY BoundsAssumption DEF CoreInv, TypeInv, QueueType, AgentType, RunType, LoopType

\* A step of the loop keeps the order.
LEMMA OrderLoop == ASSUME CoreInv, OrderInv, Flow PROVE OrderInv'
  <1> DEFINE S == steeringQueue
             F == followUpQueue
             P == loop.prompts
             G == loop.pending
             M == messages
             n == issued
  <1>1. /\ Ordered(S, F, <<>>, <<>>, M, n)
        /\ \A m : m.role # "user" => Ordered(S, F, P, G, Append(M, m), n)
        /\ P # <<>> /\ G = <<>> => Ordered(S, F, Tail(P), G, Append(M, Head(P)), n)
        /\ G # <<>> /\ P = <<>> => Ordered(S, F, P, Tail(G), Append(M, Head(G)), n)
    BY Holders, OrderedMoves DEF OrderInv
  <1>2. issued' = issued
    BY DEF Flow
  <1>3. CASE SameQueues /\ SameHands /\ SaysOther
    BY <1>1, <1>2, <1>3 DEF SameQueues, SameHands, SaysOther, OrderInv
  <1>4. CASE SameQueues /\ SaysPrompt /\ loop'.prompts = Tail(P) /\ loop'.pending = G
    BY <1>1, <1>2, <1>4 DEF SameQueues, SaysPrompt, OrderInv
  <1>5. CASE SameQueues /\ SaysPending /\ loop'.pending = Tail(G) /\ loop'.prompts = P
    BY <1>1, <1>2, <1>5 DEF SameQueues, SaysPending, OrderInv
  <1>6. CASE SameQueues /\ (SaysOther \/ SaysPrompt \/ SaysPending) /\ loop'.prompts = <<>> /\ loop'.pending = <<>>
    <2>1. UNCHANGED <<S, F>>
      BY <1>6 DEF SameQueues
    <2>2. CASE SaysOther
      <3>1. Ordered(S, F, P, G, messages', n)
        BY <1>1, <2>2 DEF SaysOther, OrderInv
      <3> QED
        BY <1>2, <1>6, <2>1, <3>1, EmptyOrder DEF OrderInv, Ordered
    <2>3. CASE SaysPrompt
      <3>1. Ordered(S, F, Tail(P), G, messages', n)
        BY <1>1, <2>3 DEF SaysPrompt
      <3> QED
        BY <1>2, <1>6, <2>1, <3>1, EmptyOrder DEF OrderInv, Ordered
    <2>4. CASE SaysPending
      <3>1. Ordered(S, F, P, Tail(G), messages', n)
        BY <1>1, <2>4 DEF SaysPending
      <3> QED
        BY <1>2, <1>6, <2>1, <3>1, EmptyOrder DEF OrderInv, Ordered
    <2> QED
      BY <1>6, <2>2, <2>3, <2>4
  <1>7. ASSUME NEW mode, messages' = messages, loop'.prompts = <<>>,
               \/ /\ loop'.pending = Drained(S, mode) /\ steeringQueue' = AfterDrain(S, mode)
                  /\ UNCHANGED followUpQueue
               \/ /\ loop'.pending = Drained(F, mode) /\ followUpQueue' = AfterDrain(F, mode)
                  /\ UNCHANGED steeringQueue
        PROVE  OrderInv'
    <2>1. /\ Ordered(AfterDrain(S, mode), F, <<>>, Drained(S, mode), M, n)
          /\ Ordered(S, AfterDrain(F, mode), <<>>, Drained(F, mode), M, n)
      BY <1>1, Holders, OrderedDrains
    <2> QED
      BY <1>2, <1>7, <2>1 DEF OrderInv
  <1> QED
    BY <1>3, <1>4, <1>5, <1>6, <1>7 DEF Flow

\* So does a caller.
LEMMA OrderCaller == ASSUME CoreInv, OrderInv, CallerKind PROVE OrderInv'
  <1> DEFINE S == steeringQueue
             F == followUpQueue
             P == loop.prompts
             G == loop.pending
             M == messages
             n == issued
  <1>0. Ordered(S, F, <<>>, <<>>, M, n)
    BY Holders, OrderedMoves DEF OrderInv
  <1>1. /\ Ordered(Append(S, User(n + 1, "steer")), F, P, G, M, n + 1)
        /\ Ordered(S, Append(F, User(n + 1, "followUp")), P, G, M, n + 1)
        /\ Ordered(S, F, <<User(n + 1, "prompt")>>, <<>>, M, n + 1)
    BY Holders, OrderedAdds DEF OrderInv
  <1>2. CASE Begins
    <2>1. messages' = messages /\ loop'.pending = <<>>
      BY <1>2 DEF Begins
    <2>2. CASE issued' = n + 1 /\ loop'.prompts = <<User(n + 1, "prompt")>> /\ UNCHANGED <<S, F>>
      BY <1>1, <2>1, <2>2 DEF OrderInv
    <2>3. ASSUME NEW mode, issued' = n,
                 \/ /\ loop'.prompts = Drained(S, mode) /\ steeringQueue' = AfterDrain(S, mode)
                    /\ UNCHANGED followUpQueue
                 \/ /\ loop'.prompts = Drained(F, mode) /\ followUpQueue' = AfterDrain(F, mode)
                    /\ UNCHANGED steeringQueue
          PROVE  OrderInv'
      <3>1. /\ Ordered(AfterDrain(S, mode), F, Drained(S, mode), <<>>, M, n)
            /\ Ordered(S, AfterDrain(F, mode), Drained(F, mode), <<>>, M, n)
        BY <1>0, Holders, OrderedDrains
      <3> QED
        BY <2>1, <2>3, <3>1 DEF OrderInv
    <2>4. CASE issued' = n /\ loop'.prompts = <<>> /\ UNCHANGED <<S, F>>
      BY <1>0, <2>1, <2>4 DEF OrderInv
    <2> QED
      BY <1>2, <2>2, <2>3, <2>4 DEF Begins
  <1>3. CASE Queues
    BY <1>1, <1>3 DEF Queues, OrderInv, agentState
  <1>4. CASE Aborts
    BY <1>4 DEF Aborts, OrderInv
  <1>5. CASE reset
    <2>1. messages' = <<>> /\ steeringQueue' = <<>> /\ followUpQueue' = <<>> /\ UNCHANGED <<loop, issued>>
      BY <1>5 DEF reset
    <2> QED
      BY <2>1, EmptyOrder DEF OrderInv, Ordered
  <1>6. ASSUME NEW s \in BOOLEAN, NEW f \in BOOLEAN, clearQueues(s, f) PROVE OrderInv'
    <2>1. /\ steeringQueue' \in {<<>>, S} /\ followUpQueue' \in {<<>>, F} /\ UNCHANGED <<messages, loop, issued>>
      BY <1>6 DEF clearQueues, agentState
    <2> QED
      BY <2>1, EmptyOrder DEF OrderInv, Ordered
  <1> QED
    BY <1>2, <1>3, <1>4, <1>5, <1>6 DEF CallerKind

\* Messages of one door reach the transcript in the order they came.
THEOREM DeliveryCorrect == Spec => []DeliveryOrder
  <1>1. Init => OrderInv
    BY EmptyOrder DEF Init, OrderInv, Ordered, NoLoop
  <1>2. CoreInv /\ OrderInv /\ [Next]_vars => OrderInv'
    BY OrderLoop, LoopFlow, OrderCaller, CallerKinds DEF Next
  <1>3. OrderInv => DeliveryOrder
    BY DEF OrderInv, Ordered, InOrder, DeliveryOrder
  <1> QED
    BY <1>1, <1>2, <1>3, CoreCorrect, PTL DEF Spec

-----------------------------------------------------------------------------
(* Conservation *)

\* Where a message is in a sequence.
At(id, q) == {i \in DOMAIN q : q[i].role = "user" /\ q[i].id = id}
Is(id, m) == m.role = "user" /\ m.id = id

\* How often a message occurs is a number, and it is there when that is not zero.
LEMMA CountsAre ==
    ASSUME NEW id, NEW q \in Seq(Message)
    PROVE  /\ IsFiniteSet(At(id, q)) /\ Occurrences(id, q) = Cardinality(At(id, q))
           /\ Occurrences(id, q) \in Nat
           /\ Occurrences(id, q) = 0 <=> \A i \in DOMAIN q : ~ Is(id, q[i])
  <1>1. DOMAIN q = 1..Len(q) /\ Len(q) \in Nat
    OBVIOUS
  <1>2. IsFiniteSet(1..Len(q))
    BY <1>1, FS_Interval
  <1>3. IsFiniteSet(At(id, q))
    BY <1>1, <1>2, FS_Subset DEF At
  <1>4. Occurrences(id, q) = Cardinality(At(id, q))
    BY DEF Occurrences, At
  <1>5. Cardinality(At(id, q)) \in Nat
    BY <1>3, FS_CardinalityType
  <1>6. Cardinality(At(id, q)) = 0 <=> At(id, q) = {}
    BY <1>3, FS_EmptySet
  <1>7. At(id, q) = {} <=> \A i \in DOMAIN q : ~ Is(id, q[i])
    BY DEF At, Is
  <1> QED
    BY <1>3, <1>4, <1>5, <1>6, <1>7

\* Nothing occurs in an empty sequence.
LEMMA CountEmpty == ASSUME NEW id PROVE Occurrences(id, <<>>) = 0
  <1>1. At(id, <<>>) = {}
    BY DEF At
  <1> QED
    BY <1>1, FS_EmptySet DEF Occurrences, At

\* A message added at the end.
LEMMA CountAppend ==
    ASSUME NEW id, NEW q \in Seq(Message), NEW m
    PROVE  Occurrences(id, Append(q, m)) = Occurrences(id, q) + (IF Is(id, m) THEN 1 ELSE 0)
  <1>1. PICK A : A = Append(q, m)
    OBVIOUS
  <1>2. /\ DOMAIN q = 1..Len(q) /\ Len(q) \in Nat /\ DOMAIN A = 1..(Len(q) + 1)
        /\ \A i \in 1..Len(q) : A[i] = q[i]
        /\ A[Len(q) + 1] = m
    BY <1>1
  <1>3. /\ Len(q) + 1 \notin DOMAIN q /\ DOMAIN A = DOMAIN q \cup {Len(q) + 1}
        /\ \A i \in DOMAIN q : A[i] = q[i]
    BY <1>2
  <1>4. PICK k : k = Len(q) + 1
    OBVIOUS
  <1>5. CASE Is(id, m)
    <2>1. At(id, A) = At(id, q) \cup {k} /\ k \notin At(id, q)
      BY <1>2, <1>3, <1>4, <1>5 DEF At, Is
    <2>2. IsFiniteSet(At(id, q)) /\ Occurrences(id, q) = Cardinality(At(id, q)) /\ Occurrences(id, q) \in Nat
      BY CountsAre
    <2>3. Cardinality(At(id, q) \cup {k}) = Cardinality(At(id, q)) + 1
      BY <2>1, <2>2, FS_AddElement
    <2>4. Occurrences(id, A) = Cardinality(At(id, A))
      BY DEF Occurrences, At
    <2> QED
      BY <1>1, <1>5, <2>1, <2>2, <2>3, <2>4
  <1>6. CASE ~ Is(id, m)
    <2>1. At(id, A) = At(id, q)
      BY <1>2, <1>3, <1>4, <1>6 DEF At, Is
    <2>2. Occurrences(id, A) = Cardinality(At(id, A))
      BY DEF Occurrences, At
    <2> QED
      BY <1>1, <1>6, <2>1, <2>2, CountsAre
  <1> QED
    BY <1>5, <1>6

\* A message taken from the front.
LEMMA CountTail ==
    ASSUME NEW id, NEW q \in Seq(Message), q # <<>>
    PROVE  Occurrences(id, q) = Occurrences(id, Tail(q)) + (IF Is(id, Head(q)) THEN 1 ELSE 0)
  <1>1. PICK h : h = Head(q)
    OBVIOUS
  <1>2. PICK T : T = Tail(q)
    OBVIOUS
  <1>3. /\ DOMAIN q = 1..Len(q) /\ Len(q) \in Nat /\ Len(q) >= 1 /\ h = q[1]
        /\ T \in Seq(Message) /\ DOMAIN T = 1..(Len(q) - 1)
        /\ \A i \in 1..(Len(q) - 1) : T[i] = q[i + 1]
    BY <1>1, <1>2, EmptySeq
  <1> DEFINE B == At(id, q) \ {1}
  <1>4. /\ \A i \in At(id, T) : i \in Int /\ i + 1 \in B
        /\ \A j \in B : j \in Int /\ j - 1 \in At(id, T) /\ (j - 1) + 1 = j
    BY <1>3 DEF At
  <1> DEFINE f == [i \in At(id, T) |-> i + 1]
  <1>5. f \in Bijection(At(id, T), B)
    <2>1. f \in [At(id, T) -> B]
      BY <1>4
    <2>2. \A a, b \in At(id, T) : f[a] = f[b] => a = b
      BY <1>4
    <2>3. \A j \in B : \E i \in At(id, T) : f[i] = j
      BY <1>4
    <2> QED
      BY <2>1, <2>2, <2>3 DEF Bijection, Injection, Surjection, IsInjective
  <1>6. IsFiniteSet(B) /\ Cardinality(B) = Cardinality(At(id, T))
    <2>1. ExistsBijection(At(id, T), B)
      BY <1>5 DEF ExistsBijection
    <2>2. IsFiniteSet(At(id, T))
      BY <1>3, CountsAre
    <2> QED
      BY <2>1, <2>2, FS_Bijection
  <1> HIDE DEF B
  <1>7. Occurrences(id, q) = Cardinality(At(id, q)) /\ Occurrences(id, T) = Cardinality(At(id, T))
        /\ Occurrences(id, T) \in Nat
    BY <1>3, CountsAre
  <1>8. CASE Is(id, h)
    <2>1. At(id, q) = B \cup {1} /\ 1 \notin B
      BY <1>3, <1>8 DEF At, Is, B
    <2> QED
      BY <1>1, <1>2, <1>6, <1>7, <1>8, <2>1, FS_AddElement
  <1>9. CASE ~ Is(id, h)
    <2>1. At(id, q) = B
      BY <1>3, <1>9 DEF At, Is, B
    <2> QED
      BY <1>1, <1>2, <1>6, <1>7, <1>9, <2>1
  <1> QED
    BY <1>8, <1>9

\* A sequence of one message.
LEMMA CountOne == ASSUME NEW id, NEW h PROVE Occurrences(id, <<h>>) = IF Is(id, h) THEN 1 ELSE 0
  <1>1. PICK z : z = <<>>
    OBVIOUS
  <1>2. z \in Seq(Message)
    BY <1>1
  <1>3. Occurrences(id, Append(z, h)) = Occurrences(id, z) + (IF Is(id, h) THEN 1 ELSE 0)
    BY <1>2, CountAppend
  <1>4. Occurrences(id, z) = 0
    BY <1>1, CountEmpty
  <1>5. Append(z, h) = <<h>>
    BY <1>1
  <1>6. Occurrences(id, Append(z, h)) = IF Is(id, h) THEN 1 ELSE 0
    BY <1>3, <1>4
  <1> QED
    BY <1>5, <1>6, Zenon

\* A drain neither loses nor doubles a message.
LEMMA CountDrain ==
    ASSUME NEW id, NEW q \in Seq(UserMessage), NEW mode
    PROVE  Occurrences(id, Drained(q, mode)) + Occurrences(id, AfterDrain(q, mode)) = Occurrences(id, q)
  <1>1. q \in Seq(Message)
    BY MakesMessages
  <1>2. Occurrences(id, q) \in Nat
    BY <1>1, CountsAre
  <1>3. CASE mode = "all" \/ q = <<>>
    BY <1>2, <1>3, CountEmpty DEF Drained, AfterDrain
  <1>4. CASE ~ (mode = "all" \/ q = <<>>)
    <2>1. Drained(q, mode) = <<Head(q)>> /\ AfterDrain(q, mode) = Tail(q)
      BY <1>4 DEF Drained, AfterDrain
    <2>2. Tail(q) \in Seq(Message)
      BY <1>1, <1>4
    <2>3. Occurrences(id, <<Head(q)>>) = IF Is(id, Head(q)) THEN 1 ELSE 0
      BY CountOne
    <2>4. Occurrences(id, Tail(q)) \in Nat
      BY <2>2, CountsAre
    <2> QED
      BY <1>1, <1>4, <2>1, <2>3, <2>4, CountTail
  <1> QED
    BY <1>3, <1>4

\* How many places hold a message: the queues S and F, the hands P and G, the
\* transcript M, and C, what callers cleared.
Places(id, S, F, P, G, M, C) ==
    Occurrences(id, S) + Occurrences(id, F) + Occurrences(id, G) + Occurrences(id, P) + Occurrences(id, M)
    + (IF id \in C THEN 1 ELSE 0)
PlacesNow(id) == Places(id, steeringQueue, followUpQueue, loop.prompts, loop.pending, messages, cleared)

ConserveInv ==
    /\ cleared \subseteq 1..issued
    /\ \A id \in 1..issued : PlacesNow(id) <= 1 /\ (throws = 0 => PlacesNow(id) = 1)

\* What the steps that move messages make of that number.
LEMMA PlacesMoves ==
    ASSUME NEW S \in Seq(UserMessage), NEW F \in Seq(UserMessage), NEW P \in Seq(UserMessage),
           NEW G \in Seq(UserMessage), NEW M \in Seq(Message), NEW C, NEW id
    PROVE  /\ Places(id, S, F, P, G, M, C) \in Nat
           /\ Places(id, S, F, <<>>, <<>>, M, C) <= Places(id, S, F, P, G, M, C)
           /\ \A m : m.role # "user" => Places(id, S, F, P, G, Append(M, m), C) = Places(id, S, F, P, G, M, C)
           /\ P # <<>> => Places(id, S, F, Tail(P), G, Append(M, Head(P)), C) = Places(id, S, F, P, G, M, C)
           /\ G # <<>> => Places(id, S, F, P, Tail(G), Append(M, Head(G)), C) = Places(id, S, F, P, G, M, C)
  <1>1. S \in Seq(Message) /\ F \in Seq(Message) /\ P \in Seq(Message) /\ G \in Seq(Message)
    BY MakesMessages
  <1>2. /\ Occurrences(id, S) \in Nat /\ Occurrences(id, F) \in Nat /\ Occurrences(id, P) \in Nat
        /\ Occurrences(id, G) \in Nat /\ Occurrences(id, M) \in Nat /\ Occurrences(id, <<>>) = 0
    BY <1>1, CountsAre, CountEmpty
  <1>3. /\ Places(id, S, F, P, G, M, C) \in Nat
        /\ Places(id, S, F, <<>>, <<>>, M, C) <= Places(id, S, F, P, G, M, C)
    BY <1>2 DEF Places
  <1>4. ASSUME NEW m, m.role # "user"
        PROVE  Places(id, S, F, P, G, Append(M, m), C) = Places(id, S, F, P, G, M, C)
    <2>1. Occurrences(id, Append(M, m)) = Occurrences(id, M) + (IF Is(id, m) THEN 1 ELSE 0)
      BY CountAppend
    <2>2. Occurrences(id, Append(M, m)) = Occurrences(id, M)
      BY <1>2, <1>4, <2>1 DEF Is
    <2> QED
      BY <2>2 DEF Places
  <1>5. ASSUME P # <<>>
        PROVE  Places(id, S, F, Tail(P), G, Append(M, Head(P)), C) = Places(id, S, F, P, G, M, C)
    <2>1. /\ Occurrences(id, Append(M, Head(P))) = Occurrences(id, M) + (IF Is(id, Head(P)) THEN 1 ELSE 0)
          /\ Occurrences(id, P) = Occurrences(id, Tail(P)) + (IF Is(id, Head(P)) THEN 1 ELSE 0)
      BY <1>1, <1>5, CountAppend, CountTail
    <2>2. Tail(P) \in Seq(Message)
      BY <1>1, <1>5
    <2>3. Occurrences(id, Tail(P)) \in Nat
      BY <2>2, CountsAre
    <2> QED
      BY <1>2, <2>1, <2>3 DEF Places
  <1>6. ASSUME G # <<>>
        PROVE  Places(id, S, F, P, Tail(G), Append(M, Head(G)), C) = Places(id, S, F, P, G, M, C)
    <2>1. /\ Occurrences(id, Append(M, Head(G))) = Occurrences(id, M) + (IF Is(id, Head(G)) THEN 1 ELSE 0)
          /\ Occurrences(id, G) = Occurrences(id, Tail(G)) + (IF Is(id, Head(G)) THEN 1 ELSE 0)
      BY <1>1, <1>6, CountAppend, CountTail
    <2>2. Tail(G) \in Seq(Message)
      BY <1>1, <1>6
    <2>3. Occurrences(id, Tail(G)) \in Nat
      BY <2>2, CountsAre
    <2> QED
      BY <1>2, <2>1, <2>3 DEF Places
  <1> QED
    BY <1>3, <1>4, <1>5, <1>6

\* A drain into empty hands leaves it alone.
LEMMA PlacesDrains ==
    ASSUME NEW S \in Seq(UserMessage), NEW F \in Seq(UserMessage), NEW M \in Seq(Message), NEW C, NEW id, NEW mode
    PROVE  LET p == Places(id, S, F, <<>>, <<>>, M, C) IN
           /\ Places(id, AfterDrain(S, mode), F, <<>>, Drained(S, mode), M, C) = p
           /\ Places(id, AfterDrain(S, mode), F, Drained(S, mode), <<>>, M, C) = p
           /\ Places(id, S, AfterDrain(F, mode), <<>>, Drained(F, mode), M, C) = p
           /\ Places(id, S, AfterDrain(F, mode), Drained(F, mode), <<>>, M, C) = p
  <1>1. UserMessage \subseteq Message
    BY MakesMessages
  <1>2. PICK ds : ds = Drained(S, mode)
    OBVIOUS
  <1>3. PICK rs : rs = AfterDrain(S, mode)
    OBVIOUS
  <1>4. PICK df : df = Drained(F, mode)
    OBVIOUS
  <1>5. PICK af : af = AfterDrain(F, mode)
    OBVIOUS
  <1>6. /\ ds \in Seq(UserMessage) /\ rs \in Seq(UserMessage) /\ df \in Seq(UserMessage) /\ af \in Seq(UserMessage)
    BY <1>2, <1>3, <1>4, <1>5, Drains
  <1>7. /\ Occurrences(id, S) \in Nat /\ Occurrences(id, F) \in Nat /\ Occurrences(id, M) \in Nat
        /\ Occurrences(id, ds) \in Nat /\ Occurrences(id, rs) \in Nat
        /\ Occurrences(id, df) \in Nat /\ Occurrences(id, af) \in Nat /\ Occurrences(id, <<>>) = 0
    <2>1. /\ S \in Seq(Message) /\ F \in Seq(Message) /\ ds \in Seq(Message) /\ rs \in Seq(Message)
          /\ df \in Seq(Message) /\ af \in Seq(Message)
      <3>1. \A q \in Seq(UserMessage) : q \in Seq(Message)
        BY <1>1
      <3> QED
        BY <1>6, <3>1
    <2> QED
      BY <2>1, CountsAre, CountEmpty
  <1>8. /\ Occurrences(id, ds) + Occurrences(id, rs) = Occurrences(id, S)
        /\ Occurrences(id, df) + Occurrences(id, af) = Occurrences(id, F)
    BY <1>2, <1>3, <1>4, <1>5, CountDrain
  <1>9. /\ Places(id, rs, F, <<>>, ds, M, C) = Places(id, S, F, <<>>, <<>>, M, C)
        /\ Places(id, rs, F, ds, <<>>, M, C) = Places(id, S, F, <<>>, <<>>, M, C)
        /\ Places(id, S, af, <<>>, df, M, C) = Places(id, S, F, <<>>, <<>>, M, C)
        /\ Places(id, S, af, df, <<>>, M, C) = Places(id, S, F, <<>>, <<>>, M, C)
    <2>1. PICK c \in Nat : c = IF id \in C THEN 1 ELSE 0
      OBVIOUS
    <2>2. /\ Places(id, rs, F, <<>>, ds, M, C) = Places(id, S, F, <<>>, <<>>, M, C)
          /\ Places(id, rs, F, ds, <<>>, M, C) = Places(id, S, F, <<>>, <<>>, M, C)
      <3>1. PICK s, d, f, m \in Nat :
              /\ s = Occurrences(id, rs) /\ d = Occurrences(id, ds) /\ f = Occurrences(id, F)
              /\ m = Occurrences(id, M)
        BY <1>7
      <3>2. Occurrences(id, S) = d + s /\ Occurrences(id, <<>>) = 0
        BY <1>7, <1>8, <3>1
      <3>3. /\ Places(id, rs, F, <<>>, ds, M, C) = s + f + d + 0 + m + c
            /\ Places(id, rs, F, ds, <<>>, M, C) = s + f + 0 + d + m + c
            /\ Places(id, S, F, <<>>, <<>>, M, C) = (d + s) + f + 0 + 0 + m + c
        BY <2>1, <3>1, <3>2, Zenon DEF Places
      <3> QED
        BY <2>1, <3>1, <3>3
    <2>3. /\ Places(id, S, af, <<>>, df, M, C) = Places(id, S, F, <<>>, <<>>, M, C)
          /\ Places(id, S, af, df, <<>>, M, C) = Places(id, S, F, <<>>, <<>>, M, C)
      BY <1>7, <1>8, <2>1 DEF Places
    <2> QED
      BY <2>2, <2>3
  <1> QED
    BY <1>2, <1>3, <1>4, <1>5, <1>9

\* A step of the loop loses a message only when an exception unwinds it.
LEMMA ConserveLoop == ASSUME CoreInv, CoreInv', ConserveInv, Flow PROVE ConserveInv'
  <1> DEFINE S == steeringQueue
             F == followUpQueue
             P == loop.prompts
             G == loop.pending
             M == messages
             C == cleared
  <1>1. UNCHANGED <<issued, cleared>> /\ throws' \in {throws, throws + 1} /\ throws \in Nat
    BY Holders DEF Flow
  <1> SUFFICES ASSUME NEW id \in 1..issued
               PROVE  PlacesNow(id)' <= 1 /\ (throws' = 0 => PlacesNow(id)' = 1)
    BY <1>1 DEF ConserveInv
  <1>2. PlacesNow(id) <= 1 /\ (throws = 0 => PlacesNow(id) = 1) /\ (throws' = 0 => throws = 0)
    BY <1>1 DEF ConserveInv
  <1>3. PlacesNow(id)' = Places(id, steeringQueue', followUpQueue', loop'.prompts, loop'.pending, messages', C)
    BY <1>1 DEF PlacesNow
  <1>4. /\ PlacesNow(id) = Places(id, S, F, P, G, M, C) /\ PlacesNow(id) \in Nat
        /\ Places(id, S, F, <<>>, <<>>, M, C) <= PlacesNow(id)
        /\ \A m : m.role # "user" => Places(id, S, F, P, G, Append(M, m), C) = PlacesNow(id)
        /\ P # <<>> => Places(id, S, F, Tail(P), G, Append(M, Head(P)), C) = PlacesNow(id)
        /\ G # <<>> => Places(id, S, F, P, Tail(G), Append(M, Head(G)), C) = PlacesNow(id)
    <2>1. S \in Seq(UserMessage) /\ F \in Seq(UserMessage) /\ P \in Seq(UserMessage) /\ G \in Seq(UserMessage)
          /\ M \in Seq(Message)
      BY Holders
    <2>2. PlacesNow(id) = Places(id, S, F, P, G, M, C)
      BY DEF PlacesNow
    <2> HIDE DEF S, F, P, G, M, C
    <2> QED
      BY <2>1, <2>2, PlacesMoves
  <1>5. CASE SameQueues /\ SameHands /\ SaysOther
    <2>1. PlacesNow(id)' = PlacesNow(id)
      BY <1>3, <1>4, <1>5 DEF SameQueues, SameHands, SaysOther
    <2> QED
      BY <1>2, <2>1
  <1>6. CASE SameQueues /\ SaysPrompt /\ loop'.prompts = Tail(P) /\ loop'.pending = G
    <2>1. PlacesNow(id)' = PlacesNow(id)
      BY <1>3, <1>4, <1>6 DEF SameQueues, SaysPrompt
    <2> QED
      BY <1>2, <2>1
  <1>7. CASE SameQueues /\ SaysPending /\ loop'.pending = Tail(G) /\ loop'.prompts = P
    <2>1. PlacesNow(id)' = PlacesNow(id)
      BY <1>3, <1>4, <1>7 DEF SameQueues, SaysPending
    <2> QED
      BY <1>2, <2>1
  <1>8. CASE /\ SameQueues /\ (SaysOther \/ SaysPrompt \/ SaysPending)
             /\ loop'.prompts = <<>> /\ loop'.pending = <<>> /\ throws' = throws + 1
    <2>0. /\ PlacesNow(id)' = Places(id, S, F, <<>>, <<>>, messages', C)
      BY <1>3, <1>8 DEF SameQueues
    <2>1. /\ messages' \in Seq(Message) /\ P \in Seq(UserMessage) /\ G \in Seq(UserMessage)
          /\ S \in Seq(UserMessage) /\ F \in Seq(UserMessage)
          /\ P # <<>> => Tail(P) \in Seq(UserMessage)
          /\ G # <<>> => Tail(G) \in Seq(UserMessage)
      <3>1. messages' \in Seq(Message)
        BY DEF CoreInv, TypeInv, AgentType
      <3> QED
        BY <3>1, Holders, HandsHold
    <2>2. PlacesNow(id)' <= PlacesNow(id) /\ PlacesNow(id)' \in Nat
      <3>1. CASE SaysOther
        <4>1. Places(id, S, F, P, G, messages', C) = PlacesNow(id)
          BY <1>4, <3>1 DEF SaysOther
        <4>2. PICK m, p, g : m = messages' /\ p = P /\ g = G
          OBVIOUS
        <4>3. /\ Places(id, S, F, <<>>, <<>>, m, C) <= Places(id, S, F, p, g, m, C)
              /\ Places(id, S, F, <<>>, <<>>, m, C) \in Nat
          <5>1. <<>> \in Seq(UserMessage) /\ m \in Seq(Message)
                /\ p \in Seq(UserMessage) /\ g \in Seq(UserMessage)
            BY <2>1, <4>1, <4>2
          <5> HIDE DEF S, F, P, G, M, C
          <5> QED
            BY <2>1, <5>1, PlacesMoves
        <4> QED
          BY <2>0, <4>1, <4>2, <4>3
      <3>2. CASE SaysPrompt
        <4>1. Places(id, S, F, Tail(P), G, messages', C) = PlacesNow(id) /\ Tail(P) \in Seq(UserMessage)
          BY <1>4, <2>1, <3>2 DEF SaysPrompt
        <4>2. PICK m, p, g : m = messages' /\ p = Tail(P) /\ g = G
          OBVIOUS
        <4>3. /\ Places(id, S, F, <<>>, <<>>, m, C) <= Places(id, S, F, p, g, m, C)
              /\ Places(id, S, F, <<>>, <<>>, m, C) \in Nat
          <5>1. <<>> \in Seq(UserMessage) /\ m \in Seq(Message)
                /\ p \in Seq(UserMessage) /\ g \in Seq(UserMessage)
            BY <2>1, <4>1, <4>2
          <5> HIDE DEF S, F, P, G, M, C
          <5> QED
            BY <2>1, <5>1, PlacesMoves
        <4> QED
          BY <2>0, <4>1, <4>2, <4>3
      <3>3. CASE SaysPending
        <4>1. Places(id, S, F, P, Tail(G), messages', C) = PlacesNow(id) /\ Tail(G) \in Seq(UserMessage)
          BY <1>4, <2>1, <3>3 DEF SaysPending
        <4>2. PICK m, p, g : m = messages' /\ p = P /\ g = Tail(G)
          OBVIOUS
        <4>3. /\ Places(id, S, F, <<>>, <<>>, m, C) <= Places(id, S, F, p, g, m, C)
              /\ Places(id, S, F, <<>>, <<>>, m, C) \in Nat
          <5>1. <<>> \in Seq(UserMessage) /\ m \in Seq(Message)
                /\ p \in Seq(UserMessage) /\ g \in Seq(UserMessage)
            BY <2>1, <4>1, <4>2
          <5> HIDE DEF S, F, P, G, M, C
          <5> QED
            BY <2>1, <5>1, PlacesMoves
        <4> QED
          BY <2>0, <4>1, <4>2, <4>3
      <3> QED
        BY <1>8, <3>1, <3>2, <3>3
    <2> QED
      BY <1>1, <1>2, <1>4, <1>8, <2>2
  <1>9. ASSUME NEW mode, messages' = messages, P = <<>>, G = <<>>, loop'.prompts = <<>>,
               \/ /\ loop'.pending = Drained(S, mode) /\ steeringQueue' = AfterDrain(S, mode)
                  /\ UNCHANGED followUpQueue
               \/ /\ loop'.pending = Drained(F, mode) /\ followUpQueue' = AfterDrain(F, mode)
                  /\ UNCHANGED steeringQueue
        PROVE  PlacesNow(id)' <= 1 /\ (throws' = 0 => PlacesNow(id)' = 1)
    <2>1. /\ Places(id, AfterDrain(S, mode), F, <<>>, Drained(S, mode), M, C) = Places(id, S, F, <<>>, <<>>, M, C)
          /\ Places(id, S, AfterDrain(F, mode), <<>>, Drained(F, mode), M, C) = Places(id, S, F, <<>>, <<>>, M, C)
      BY Holders, PlacesDrains
    <2>2. PlacesNow(id) = Places(id, S, F, <<>>, <<>>, M, C)
      BY <1>9 DEF PlacesNow
    <2>3. PlacesNow(id)' = PlacesNow(id)
      BY <1>3, <1>9, <2>1, <2>2
    <2> QED
      BY <1>2, <2>3
  <1> QED
    BY <1>5, <1>6, <1>7, <1>8, <1>9 DEF Flow

\* A new message is nowhere yet.
LEMMA NewNowhere ==
    ASSUME CoreInv, OrderInv, ConserveInv
    PROVE  /\ PlacesNow(issued + 1) = 0
           /\ Occurrences(issued + 1, loop.prompts) = 0 /\ Occurrences(issued + 1, loop.pending) = 0
  <1>1. ASSUME NEW q \in Seq(Message), NEW n \in Nat, UpTo(q, n) PROVE Occurrences(n + 1, q) = 0
    <2>1. ASSUME NEW i \in DOMAIN q, Is(n + 1, q[i]) PROVE FALSE
      <3>1. q[i].id \in Nat /\ q[i].id <= n /\ q[i].id = n + 1
        BY <1>1, <2>1, UserIds DEF UpTo, Is
      <3> QED
        BY <3>1
    <2> QED
      BY <2>1, CountsAre
  <1>2. /\ steeringQueue \in Seq(Message) /\ followUpQueue \in Seq(Message) /\ messages \in Seq(Message)
        /\ loop.prompts \in Seq(Message) /\ loop.pending \in Seq(Message) /\ issued \in Nat
    <2>1. \A q \in Seq(UserMessage) : q \in Seq(Message)
      BY MakesMessages
    <2> QED
      BY <2>1, Holders
  <1>3. /\ UpTo(steeringQueue, issued) /\ UpTo(followUpQueue, issued) /\ UpTo(messages, issued)
        /\ UpTo(loop.prompts, issued) /\ UpTo(loop.pending, issued)
    BY DEF OrderInv, Ordered
  <1>4. /\ Occurrences(issued + 1, steeringQueue) = 0 /\ Occurrences(issued + 1, followUpQueue) = 0
        /\ Occurrences(issued + 1, messages) = 0
        /\ Occurrences(issued + 1, loop.prompts) = 0 /\ Occurrences(issued + 1, loop.pending) = 0
    BY <1>1, <1>2, <1>3
  <1>5. issued + 1 \notin cleared
    BY <1>2 DEF ConserveInv
  <1> QED
    BY <1>4, <1>5 DEF PlacesNow, Places

\* The messages of a sequence are those whose ids it has.
LEMMA CountIds ==
    ASSUME NEW id
    PROVE  /\ \A q \in Seq(UserMessage) : Occurrences(id, q) = 0 <=> id \notin Ids(q)
           /\ \A q \in Seq(Message) :
                Occurrences(id, q) = 0 <=> id \notin {q[i].id : i \in {j \in DOMAIN q : q[j].role = "user"}}
  <1>1. ASSUME NEW q \in Seq(UserMessage) PROVE Occurrences(id, q) = 0 <=> id \notin Ids(q)
    <2>1. q \in Seq(Message)
      BY MakesMessages
    <2>2. Occurrences(id, q) = 0 <=> \A i \in DOMAIN q : ~ Is(id, q[i])
      BY <2>1, CountsAre
    <2>3. \A i \in DOMAIN q : q[i].role = "user"
      BY UserIds
    <2> QED
      BY <2>2, <2>3 DEF Is, Ids
  <1>2. ASSUME NEW q \in Seq(Message)
        PROVE  Occurrences(id, q) = 0 <=> id \notin {q[i].id : i \in {j \in DOMAIN q : q[j].role = "user"}}
    <2>1. Occurrences(id, q) = 0 <=> \A i \in DOMAIN q : ~ Is(id, q[i])
      BY CountsAre
    <2> QED
      BY <2>1 DEF Is
  <1> QED
    BY <1>1, <1>2

\* The places one by one.
LEMMA PlacesAre ==
    ASSUME CoreInv, NEW id
    PROVE  /\ Occurrences(id, steeringQueue) \in Nat /\ Occurrences(id, followUpQueue) \in Nat
           /\ Occurrences(id, loop.prompts) \in Nat /\ Occurrences(id, loop.pending) \in Nat
           /\ Occurrences(id, messages) \in Nat
  <1>1. /\ steeringQueue \in Seq(Message) /\ followUpQueue \in Seq(Message) /\ messages \in Seq(Message)
        /\ loop.prompts \in Seq(Message) /\ loop.pending \in Seq(Message)
    <2>1. \A q \in Seq(UserMessage) : q \in Seq(Message)
      BY MakesMessages
    <2> QED
      BY <2>1, Holders
  <1> QED
    BY <1>1, CountsAre

\* A caller loses none.
LEMMA ConserveCaller == ASSUME CoreInv, OrderInv, ConserveInv, CallerKind PROVE ConserveInv'
  <1> DEFINE S == steeringQueue
             F == followUpQueue
             P == loop.prompts
             G == loop.pending
             M == messages
             C == cleared
  <1>0. /\ S \in Seq(UserMessage) /\ F \in Seq(UserMessage) /\ P \in Seq(UserMessage) /\ G \in Seq(UserMessage)
        /\ M \in Seq(Message) /\ issued \in Nat
    BY Holders
  <1>1. \A id \in 1..issued : PlacesNow(id) <= 1 /\ (throws = 0 => PlacesNow(id) = 1)
    BY DEF ConserveInv
  <1>2. /\ pc = "idle" => P = <<>> /\ G = <<>>
        /\ PlacesNow(issued + 1) = 0
    BY NewNowhere DEF CoreInv, ControlInv
  <1>3. ASSUME issued' = issued + 1, UNCHANGED <<throws, cleared>>,
               \A id : PlacesNow(id)' = PlacesNow(id) + (IF id = issued + 1 THEN 1 ELSE 0)
        PROVE  ConserveInv'
    <2>1. cleared' \subseteq 1..issued'
      BY <1>0, <1>3 DEF ConserveInv
    <2>2. ASSUME NEW id \in 1..(issued + 1) PROVE PlacesNow(id)' <= 1 /\ (throws' = 0 => PlacesNow(id)' = 1)
      <3>1. CASE id = issued + 1
        <4>1. PlacesNow(id)' = 0 + 1
          BY <1>2, <1>3, <3>1
        <4> QED
          BY <4>1
      <3>2. CASE id # issued + 1
        <4>1. id \in 1..issued /\ PlacesNow(id)' = PlacesNow(id) + 0
          BY <1>0, <1>3, <3>2
        <4>2. PlacesNow(id) \in Nat
          BY <1>0, PlacesMoves DEF PlacesNow
        <4> QED
          BY <1>1, <1>3, <4>1, <4>2
      <3> QED
        BY <3>1, <3>2
    <2> QED
      BY <1>3, <2>1, <2>2 DEF ConserveInv
  <1>4. ASSUME issued' = issued, UNCHANGED <<throws, cleared>>, \A id \in 1..issued : PlacesNow(id)' = PlacesNow(id)
        PROVE  ConserveInv'
    BY <1>4 DEF ConserveInv
  <1>5. CASE Begins
    <2>1. /\ P = <<>> /\ G = <<>> /\ messages' = messages /\ loop'.pending = <<>> /\ UNCHANGED <<throws, cleared>>
      BY <1>2, <1>5 DEF Begins
    <2>2. CASE issued' = issued + 1 /\ loop'.prompts = <<User(issued + 1, "prompt")>> /\ UNCHANGED <<S, F>>
      <3>1. ASSUME NEW id PROVE PlacesNow(id)' = PlacesNow(id) + (IF id = issued + 1 THEN 1 ELSE 0)
        <4>1. PICK s, f, p, g, m \in Nat :
                /\ s = Occurrences(id, S) /\ f = Occurrences(id, F) /\ p = Occurrences(id, P)
                /\ g = Occurrences(id, G) /\ m = Occurrences(id, M)
          BY PlacesAre
        <4>2. PICK c, k \in Nat : c = (IF id \in C THEN 1 ELSE 0) /\ k = (IF id = issued + 1 THEN 1 ELSE 0)
          OBVIOUS
        <4>3. Occurrences(id, loop'.prompts) = k /\ p = 0
          <5>1. PICK u : u = User(issued + 1, "prompt") /\ loop'.prompts = <<u>>
            BY <2>2
          <5>2. Is(id, u) <=> id = issued + 1
            BY <5>1 DEF User, Is
          <5>3. Occurrences(id, <<u>>) = k
            BY <4>2, <5>2, CountOne
          <5>4. Occurrences(id, <<>>) = 0
            BY CountEmpty
          <5> QED
            BY <2>1, <4>1, <5>1, <5>3, <5>4, Zenon
        <4>4. PlacesNow(id)' = s + f + g + k + m + c /\ PlacesNow(id) = s + f + g + p + m + c
          <5>1. loop'.pending = G /\ messages' = M /\ cleared' = C /\ steeringQueue' = S /\ followUpQueue' = F
            BY <2>1, <2>2
          <5> QED
            BY <4>1, <4>2, <4>3, <5>1, Zenon DEF PlacesNow, Places
        <4>5. PlacesNow(id)' = PlacesNow(id) + k
          BY <4>1, <4>2, <4>3, <4>4
        <4> QED
          BY <4>2, <4>5
      <3> QED
        BY <1>3, <2>1, <2>2, <3>1
    <2>3. ASSUME NEW mode, issued' = issued,
                 \/ /\ loop'.prompts = Drained(S, mode) /\ steeringQueue' = AfterDrain(S, mode)
                    /\ UNCHANGED followUpQueue
                 \/ /\ loop'.prompts = Drained(F, mode) /\ followUpQueue' = AfterDrain(F, mode)
                    /\ UNCHANGED steeringQueue
          PROVE  ConserveInv'
      <3>1. ASSUME NEW id PROVE PlacesNow(id)' = PlacesNow(id)
        <4>1. /\ Places(id, AfterDrain(S, mode), F, Drained(S, mode), <<>>, M, C) = Places(id, S, F, <<>>, <<>>, M, C)
              /\ Places(id, S, AfterDrain(F, mode), Drained(F, mode), <<>>, M, C) = Places(id, S, F, <<>>, <<>>, M, C)
          <5> HIDE DEF S, F, P, G, M, C
          <5> QED
            BY <1>0, PlacesDrains
        <4>2. PlacesNow(id) = Places(id, S, F, <<>>, <<>>, M, C)
          BY <2>1 DEF PlacesNow
        <4>3. PlacesNow(id)' = Places(id, steeringQueue', followUpQueue', loop'.prompts, <<>>, M, C)
          BY <2>1 DEF PlacesNow
        <4> QED
          BY <2>3, <4>1, <4>2, <4>3
      <3> QED
        BY <1>4, <2>1, <2>3, <3>1
    <2>4. CASE issued' = issued /\ loop'.prompts = <<>> /\ UNCHANGED <<S, F>>
      <3>1. ASSUME NEW id PROVE PlacesNow(id)' = PlacesNow(id)
        BY <2>1, <2>4 DEF PlacesNow
      <3> QED
        BY <1>4, <2>1, <2>4, <3>1
    <2> QED
      BY <1>5, <2>2, <2>3, <2>4 DEF Begins
  <1>6. CASE Queues
    <2>1. /\ issued' = issued + 1 /\ UNCHANGED <<throws, cleared, messages, loop>>
          /\ \/ steeringQueue' = Append(S, User(issued + 1, "steer")) /\ UNCHANGED followUpQueue
             \/ followUpQueue' = Append(F, User(issued + 1, "followUp")) /\ UNCHANGED steeringQueue
      BY <1>6 DEF Queues, agentState, history
    <2>2. ASSUME NEW id PROVE PlacesNow(id)' = PlacesNow(id) + (IF id = issued + 1 THEN 1 ELSE 0)
      <3>1. PICK s, f, p, g, m \in Nat :
              /\ s = Occurrences(id, S) /\ f = Occurrences(id, F) /\ p = Occurrences(id, P)
              /\ g = Occurrences(id, G) /\ m = Occurrences(id, M)
        BY PlacesAre
      <3>2. PICK c, k \in Nat : c = (IF id \in C THEN 1 ELSE 0) /\ k = (IF id = issued + 1 THEN 1 ELSE 0)
        OBVIOUS
      <3>3. PlacesNow(id) = s + f + g + p + m + c
        BY <3>1, <3>2, Zenon DEF PlacesNow, Places
      <3>4. CASE steeringQueue' = Append(S, User(issued + 1, "steer")) /\ UNCHANGED followUpQueue
        <4>3. Occurrences(id, steeringQueue') = s + k
          <5>1. PICK u : u = User(issued + 1, "steer") /\ steeringQueue' = Append(S, u)
            BY <3>4
          <5>2. Is(id, u) <=> id = issued + 1
            BY <5>1 DEF User, Is
          <5>3. S \in Seq(Message)
            BY <1>0, MakesMessages
          <5>4. Occurrences(id, Append(S, u)) = Occurrences(id, S) + (IF Is(id, u) THEN 1 ELSE 0)
            BY <5>3, CountAppend
          <5> QED
            BY <3>1, <3>2, <5>1, <5>2, <5>4
        <4>4. PlacesNow(id)' = (s + k) + f + g + p + m + c
          <5>1. loop' = loop /\ messages' = M /\ cleared' = C /\ followUpQueue' = F
            BY <2>1, <3>4
          <5> QED
            BY <3>1, <3>2, <4>3, <5>1, Zenon DEF PlacesNow, Places
        <4> QED
          BY <3>1, <3>2, <3>3, <4>4
      <3>5. CASE followUpQueue' = Append(F, User(issued + 1, "followUp")) /\ UNCHANGED steeringQueue
        <4>3. Occurrences(id, followUpQueue') = f + k
          <5>1. PICK u : u = User(issued + 1, "followUp") /\ followUpQueue' = Append(F, u)
            BY <3>5
          <5>2. Is(id, u) <=> id = issued + 1
            BY <5>1 DEF User, Is
          <5>3. F \in Seq(Message)
            BY <1>0, MakesMessages
          <5>4. Occurrences(id, Append(F, u)) = Occurrences(id, F) + (IF Is(id, u) THEN 1 ELSE 0)
            BY <5>3, CountAppend
          <5> QED
            BY <3>1, <3>2, <5>1, <5>2, <5>4
        <4>4. PlacesNow(id)' = s + (f + k) + g + p + m + c
          <5>1. loop' = loop /\ messages' = M /\ cleared' = C /\ steeringQueue' = S
            BY <2>1, <3>5
          <5> QED
            BY <3>1, <3>2, <4>3, <5>1, Zenon DEF PlacesNow, Places
        <4> QED
          BY <3>1, <3>2, <3>3, <4>4
      <3> QED
        BY <2>1, <3>4, <3>5
    <2> QED
      BY <1>3, <2>1, <2>2
  <1>7. CASE Aborts
    <2>1. ASSUME NEW id PROVE PlacesNow(id)' = PlacesNow(id)
      BY <1>7 DEF Aborts, PlacesNow
    <2> QED
      BY <1>4, <1>7, <2>1 DEF Aborts
  <1>8. /\ Ids(S) \subseteq 1..issued /\ Ids(F) \subseteq 1..issued
        /\ {M[i].id : i \in {j \in DOMAIN M : M[j].role = "user"}} \subseteq 1..issued
    <2>1. ASSUME NEW q \in Seq(Message), UpTo(q, issued), NEW i \in DOMAIN q, q[i].role = "user"
          PROVE  q[i].id \in 1..issued
      <3>1. q[i] \in Message
        BY <2>1
      <3>2. q[i] \in UserMessage
        BY <2>1, <3>1, MakesMessages DEF Message
      <3>3. q[i].id \in 1..MaxMsgs /\ q[i].id <= issued
        BY <2>1, <3>2, MakesMessages DEF UpTo
      <3> QED
        BY <1>0, <3>3, BoundsAssumption
    <2>2. UpTo(S, issued) /\ UpTo(F, issued) /\ UpTo(M, issued)
      BY DEF OrderInv, Ordered
    <2>3. \A q \in Seq(UserMessage) : q \in Seq(Message) /\ \A i \in DOMAIN q : q[i].role = "user"
      <3>1. \A q \in Seq(UserMessage) : q \in Seq(Message)
        BY MakesMessages
      <3> QED
        BY <3>1, UserIds
    <2>4. S \in Seq(Message) /\ F \in Seq(Message)
      BY <1>0, <2>3
    <2> QED
      BY <1>0, <2>1, <2>2, <2>3, <2>4 DEF Ids
  <1>9. ASSUME issued' = issued, UNCHANGED throws, cleared' \subseteq 1..issued,
               \A id \in 1..issued : PlacesNow(id)' = PlacesNow(id)
        PROVE  ConserveInv'
    BY <1>9 DEF ConserveInv
  <1>10. CASE reset
    <2>1. /\ ~ activeRun /\ messages' = <<>> /\ steeringQueue' = <<>> /\ followUpQueue' = <<>>
          /\ cleared' = C \cup Ids(S) \cup Ids(F) \cup {M[i].id : i \in {j \in DOMAIN M : M[j].role = "user"}}
          /\ UNCHANGED <<loop, issued, throws>>
      BY <1>10 DEF reset
    <2>2. cleared' \subseteq 1..issued
      BY <1>8, <2>1 DEF ConserveInv
    <2>3. ASSUME NEW id \in 1..issued PROVE PlacesNow(id)' = PlacesNow(id)
      <3>1. PICK s, f, p, g, m \in Nat :
              /\ s = Occurrences(id, S) /\ f = Occurrences(id, F) /\ p = Occurrences(id, P)
              /\ g = Occurrences(id, G) /\ m = Occurrences(id, M)
        BY PlacesAre
      <3>2. PICK c \in Nat : c = (IF id \in C THEN 1 ELSE 0)
        OBVIOUS
      <3>3. PlacesNow(id) = s + f + g + p + m + c /\ PlacesNow(id) <= 1
        BY <1>1, <3>1, <3>2, Zenon DEF PlacesNow, Places
      <3>4. Occurrences(id, <<>>) = 0
        BY CountEmpty
      <3>5. PICK U : U = {M[i].id : i \in {j \in DOMAIN M : M[j].role = "user"}}
        OBVIOUS
      <3>6. (s = 0 <=> id \notin Ids(S)) /\ (f = 0 <=> id \notin Ids(F)) /\ (m = 0 <=> id \notin U)
        BY <1>0, <3>1, <3>5, CountIds
      <3>7. PICK d \in Nat : d = IF id \in cleared' THEN 1 ELSE 0
        OBVIOUS
      <3>8. d = IF s # 0 \/ f # 0 \/ m # 0 \/ c = 1 THEN 1 ELSE 0
        BY <2>1, <3>2, <3>5, <3>6, <3>7
      <3>9. PlacesNow(id)' = 0 + 0 + g + p + 0 + d
        BY <2>1, <3>1, <3>4, <3>7, Zenon DEF PlacesNow, Places
      <3>10. c \in {0, 1}
        BY <3>2
      <3> QED
        BY <3>3, <3>8, <3>9, <3>10
    <2> QED
      BY <1>9, <2>1, <2>2, <2>3
  <1>11. ASSUME NEW s \in BOOLEAN, NEW f \in BOOLEAN, clearQueues(s, f) PROVE ConserveInv'
    <2>1. /\ steeringQueue' = IF s THEN <<>> ELSE S
          /\ followUpQueue' = IF f THEN <<>> ELSE F
          /\ cleared' = (C \cup (IF s THEN Ids(S) ELSE {})) \cup (IF f THEN Ids(F) ELSE {})
          /\ UNCHANGED <<messages, loop, issued, throws>>
      BY <1>11 DEF clearQueues, agentState
    <2>2. cleared' \subseteq 1..issued
      BY <1>8, <2>1 DEF ConserveInv
    <2>3. ASSUME NEW id \in 1..issued PROVE PlacesNow(id)' = PlacesNow(id)
      <3>1. PICK a, b, p, g, m \in Nat :
              /\ a = Occurrences(id, S) /\ b = Occurrences(id, F) /\ p = Occurrences(id, P)
              /\ g = Occurrences(id, G) /\ m = Occurrences(id, M)
        BY PlacesAre
      <3>2. PICK c \in Nat : c = (IF id \in C THEN 1 ELSE 0)
        OBVIOUS
      <3>3. PlacesNow(id) = a + b + g + p + m + c /\ PlacesNow(id) <= 1
        BY <1>1, <3>1, <3>2, Zenon DEF PlacesNow, Places
      <3>4. Occurrences(id, <<>>) = 0
        BY CountEmpty
      <3>5. (a = 0 <=> id \notin Ids(S)) /\ (b = 0 <=> id \notin Ids(F))
        BY <1>0, <3>1, CountIds
      <3>6. PICK d \in Nat : d = IF id \in cleared' THEN 1 ELSE 0
        OBVIOUS
      <3>7. d = IF (s /\ a # 0) \/ (f /\ b # 0) \/ c = 1 THEN 1 ELSE 0
        BY <2>1, <3>2, <3>5, <3>6
      <3>8. PICK x, y \in Nat : x = (IF s THEN 0 ELSE a) /\ y = (IF f THEN 0 ELSE b)
        OBVIOUS
      <3>9. Occurrences(id, steeringQueue') = x /\ Occurrences(id, followUpQueue') = y
        BY <2>1, <3>1, <3>4, <3>8, Zenon
      <3>10. PlacesNow(id)' = x + y + g + p + m + d
        BY <2>1, <3>1, <3>6, <3>9, Zenon DEF PlacesNow, Places
      <3>11. c \in {0, 1}
        BY <3>2
      <3> QED
        BY <3>3, <3>7, <3>8, <3>10, <3>11
    <2> QED
      BY <1>9, <2>1, <2>2, <2>3
  <1> QED
    BY <1>5, <1>6, <1>7, <1>10, <1>11 DEF CallerKind

\* A message is never in two places, and none is lost before an exception.
THEOREM ConservedCorrect == Spec => []MessagesConserved
  <1>1. Init => OrderInv /\ ConserveInv
    BY EmptyOrder DEF Init, OrderInv, Ordered, NoLoop, ConserveInv
  <1>2. CoreInv /\ OrderInv /\ ConserveInv /\ [Next]_vars => OrderInv' /\ ConserveInv'
    BY CoreStep, OrderLoop, LoopFlow, OrderCaller, ConserveLoop, ConserveCaller, CallerKinds DEF Next
  <1>3. ConserveInv => MessagesConserved
    BY DEF ConserveInv, PlacesNow, Places, MessagesConserved
  <1> QED
    BY <1>1, <1>2, <1>3, CoreCorrect, PTL DEF Spec

-----------------------------------------------------------------------------
(* The context of the loop *)

\* A sequence that ends with another one, and its last element.
EndsWith(c, n) == \E pre \in Seq(Message) : c = pre \o n
LastIs(c, m) == Len(c) \in Nat \ {0} /\ c[Len(c)] = m

\* The context is the transcript with what is about to be said, or without
\* what was said since the answer.
ContextInv ==
    /\ pc \in Starting => loop.context = messages \o loop.prompts
    /\ pc \in Clean => loop.context = messages
    /\ pc = "streaming" => \E m : loop.context = Append(messages, m)
    /\ pc = "answerEnd" => loop.context = Append(messages, loop.message)
    /\ pc \in Batch => messages = loop.context \o Results(Given) /\ LastIs(loop.context, loop.message)
    /\ pc \in Starting \cup Clean \cup Batch => EndsWith(loop.context, loop.newMessages)
    /\ pc \in {"streaming", "answerEnd"} => EndsWith(messages, loop.newMessages)

\* The first of the prompts goes from the front of one to the end of the other.
LEMMA ShiftHead ==
    ASSUME NEW M \in Seq(Message), NEW P \in Seq(Message), P # <<>>
    PROVE  M \o P = Append(M, Head(P)) \o Tail(P)
  <1>1. /\ Head(P) \in Message /\ Tail(P) \in Seq(Message) /\ Len(Tail(P)) = Len(P) - 1
        /\ \A i \in 1..Len(Tail(P)) : Tail(P)[i] = P[i + 1]
        /\ Len(P) \in Nat \ {0} /\ Len(M) \in Nat /\ Head(P) = P[1]
    BY HeadTailProperties, EmptySeq
  <1>2. PICK A, T : A = Append(M, Head(P)) /\ T = Tail(P)
    OBVIOUS
  <1>3. /\ A \in Seq(Message) /\ T \in Seq(Message) /\ Len(A) = Len(M) + 1 /\ Len(T) = Len(P) - 1
        /\ \A i \in 1..Len(M) : A[i] = M[i]
        /\ A[Len(M) + 1] = P[1]
        /\ \A i \in 1..(Len(P) - 1) : T[i] = P[i + 1]
    BY <1>1, <1>2
  <1>4. /\ M \o P \in Seq(Message) /\ Len(M \o P) = Len(M) + Len(P)
        /\ A \o T \in Seq(Message) /\ Len(A \o T) = Len(M) + Len(P)
        /\ \A i \in 1..(Len(M) + Len(P)) : (M \o P)[i] = IF i <= Len(M) THEN M[i] ELSE P[i - Len(M)]
        /\ \A i \in 1..(Len(M) + Len(P)) : (A \o T)[i] = IF i <= Len(M) + 1 THEN A[i] ELSE T[i - (Len(M) + 1)]
    <2>1. /\ M \o P \in Seq(Message) /\ Len(M \o P) = Len(M) + Len(P)
          /\ \A i \in 1..(Len(M) + Len(P)) : (M \o P)[i] = IF i <= Len(M) THEN M[i] ELSE P[i - Len(M)]
      BY ConcatProperties
    <2>2. /\ A \o T \in Seq(Message) /\ Len(A \o T) = Len(A) + Len(T)
          /\ \A i \in 1..(Len(A) + Len(T)) : (A \o T)[i] = IF i <= Len(A) THEN A[i] ELSE T[i - Len(A)]
      BY <1>3, ConcatProperties
    <2>3. Len(A) + Len(T) = Len(M) + Len(P)
      BY <1>1, <1>3
    <2> QED
      BY <1>3, <2>1, <2>2, <2>3
  <1>5. ASSUME NEW i \in 1..(Len(M) + Len(P)) PROVE (M \o P)[i] = (A \o T)[i]
    <2>1. CASE i <= Len(M)
      BY <1>1, <1>3, <1>4, <2>1
    <2>2. CASE i = Len(M) + 1
      BY <1>1, <1>3, <1>4, <2>2
    <2>3. CASE i > Len(M) + 1
      <3>1. i - (Len(M) + 1) \in 1..(Len(P) - 1) /\ (i - (Len(M) + 1)) + 1 = i - Len(M)
        BY <1>1, <2>3
      <3>2. T[i - (Len(M) + 1)] = P[i - Len(M)]
        BY <1>3, <3>1
      <3>3. (M \o P)[i] = P[i - Len(M)] /\ (A \o T)[i] = T[i - (Len(M) + 1)]
        <4>1. ~ (i <= Len(M)) /\ ~ (i <= Len(M) + 1)
          BY <1>1, <2>3
        <4> QED
          BY <1>4, <4>1
      <3> QED
        BY <3>2, <3>3
    <2>4. i <= Len(M) \/ i = Len(M) + 1 \/ i > Len(M) + 1
      BY <1>1
    <2> QED
      BY <2>1, <2>2, <2>3, <2>4
  <1>6. M \o P = A \o T
    BY <1>4, <1>5, SeqEqual
  <1> QED
    BY <1>2, <1>6

\* What ends with a sequence still does when both grow alike.
LEMMA EndsWithGrows ==
    ASSUME NEW c \in Seq(Message), NEW n \in Seq(Message), EndsWith(c, n)
    PROVE  /\ \A m \in Message : EndsWith(Append(c, m), Append(n, m))
           /\ \A r \in Seq(Message) : EndsWith(c \o r, n \o r)
           /\ n = SubSeq(c, Len(c) - Len(n) + 1, Len(c))
  <1>1. PICK pre \in Seq(Message) : c = pre \o n
    BY DEF EndsWith
  <1>2. ASSUME NEW r \in Seq(Message) PROVE EndsWith(c \o r, n \o r)
    <2>1. (pre \o n) \o r = pre \o (n \o r)
      BY ConcatAssociative
    <2> QED
      BY <1>1, <2>1 DEF EndsWith
  <1>3. ASSUME NEW m \in Message PROVE EndsWith(Append(c, m), Append(n, m))
    <2>1. <<m>> \in Seq(Message)
      OBVIOUS
    <2>2. Append(c, m) = c \o <<m>> /\ Append(n, m) = n \o <<m>>
      OBVIOUS
    <2>3. EndsWith(c \o <<m>>, n \o <<m>>)
      BY <1>2, <2>1
    <2> QED
      BY <2>2, <2>3, Zenon
  <1>4. /\ Len(pre) \in Nat /\ Len(n) \in Nat /\ Len(c) = Len(pre) + Len(n)
        /\ \A i \in 1..(Len(pre) + Len(n)) : c[i] = IF i <= Len(pre) THEN pre[i] ELSE n[i - Len(pre)]
    BY <1>1, ConcatProperties
  <1>5. PICK k : k = Len(pre) + 1
    OBVIOUS
  <1>6. Len(c) - Len(n) + 1 = k /\ k \in Int /\ Len(c) \in Int
    BY <1>4, <1>5
  <1>7. n = SubSeq(c, k, Len(c))
    <2>1. CASE n = <<>>
      <3>1. Len(c) < k
        BY <1>4, <1>5, <2>1
      <3> QED
        BY <1>6, <2>1, <3>1, SubSeqEmpty
    <2>2. CASE n # <<>>
      <3>1. Len(n) \in Nat \ {0}
        BY <2>2, EmptySeq
      <3>2. PICK e : e = Len(pre) + Len(n)
        OBVIOUS
      <3>3. k \in Len(pre) + 1..Len(pre) + Len(n) /\ e \in Len(pre) + 1..Len(pre) + Len(n)
        BY <1>4, <1>5, <3>1, <3>2
      <3>4. SubSeq(pre \o n, k, e) = SubSeq(n, k - Len(pre), e - Len(pre))
        BY <3>3, SubSeqOfConcat2
      <3>5. k - Len(pre) = 1 /\ e - Len(pre) = Len(n) /\ Len(c) = e
        BY <1>4, <1>5, <3>2
      <3>6. SubSeq(n, 1, Len(n)) = n
        BY SubSeqFull
      <3> QED
        BY <1>1, <3>4, <3>5, <3>6, Zenon
    <2> QED
      BY <2>1, <2>2
  <1> QED
    BY <1>2, <1>3, <1>6, <1>7

\* The final answer in place of the partial one.
LEMMA ReplaceLast ==
    ASSUME NEW M \in Seq(Message), NEW x \in Message, NEW y \in Message
    PROVE  [Append(M, x) EXCEPT ![Len(Append(M, x))] = y] = Append(M, y)
  <1>1. PICK A, B : A = Append(M, x) /\ B = Append(M, y)
    OBVIOUS
  <1>2. /\ A \in Seq(Message) /\ B \in Seq(Message) /\ Len(A) = Len(M) + 1 /\ Len(B) = Len(M) + 1 /\ Len(M) \in Nat
        /\ \A i \in 1..Len(M) : A[i] = M[i] /\ B[i] = M[i]
        /\ A[Len(M) + 1] = x /\ B[Len(M) + 1] = y
    BY <1>1
  <1>3. Len(A) \in 1..Len(A)
    BY <1>2
  <1>4. PICK E : E = [A EXCEPT ![Len(A)] = y]
    OBVIOUS
  <1>5. /\ E \in Seq(Message) /\ Len(E) = Len(A)
        /\ \A j \in 1..Len(A) : E[j] = IF j = Len(A) THEN y ELSE A[j]
    BY <1>2, <1>3, <1>4, ExceptSeq
  <1>6. ASSUME NEW j \in 1..Len(E) PROVE E[j] = B[j]
    <2>1. CASE j = Len(M) + 1
      BY <1>2, <1>5, <2>1
    <2>2. CASE j # Len(M) + 1
      <3>1. j \in 1..Len(M)
        BY <1>2, <1>5, <2>2
      <3> QED
        BY <1>2, <1>5, <2>2, <3>1
    <2> QED
      BY <2>1, <2>2
  <1>7. E = B
    BY <1>2, <1>5, <1>6, SeqEqual
  <1> QED
    BY <1>1, <1>4, <1>7, Zenon

\* The first n results of a batch.
ResultsOf(t, n) == [j \in 1..n |-> ToolResult(t, j)]

\* They come one by one.
LEMMA ResultsGrow ==
    ASSUME NEW c \in Seq(Message), NEW t, NEW n \in Nat, ResultsOf(t, n + 1) \in Seq(Message)
    PROVE  Append(c \o ResultsOf(t, n), ToolResult(t, n + 1)) = c \o ResultsOf(t, n + 1)
  <1>0. PICK r, s : r = ResultsOf(t, n) /\ s = ResultsOf(t, n + 1)
    OBVIOUS
  <1>rs. /\ r = [j \in 1..n |-> ToolResult(t, j)] /\ s = [j \in 1..(n + 1) |-> ToolResult(t, j)]
        /\ s \in Seq(Message)
    BY <1>0 DEF ResultsOf
  <1>1. PICK u : u = ToolResult(t, n + 1)
    OBVIOUS
  <1>2. DOMAIN s = 1..(n + 1) /\ \A j \in 1..(n + 1) : s[j] \in Message
    <2>1. DOMAIN s = 1..(n + 1)
      BY <1>rs
    <2>2. DOMAIN s = 1..Len(s)
      BY <1>rs
    <2> QED
      BY <1>rs, <2>1, <2>2, ElementOfSeq
  <1>3. \A j \in 1..n : j \in 1..(n + 1) /\ s[j] = ToolResult(t, j) /\ r[j] = ToolResult(t, j)
    BY <1>rs
  <1>4. u \in Message
    <2>1. n + 1 \in 1..(n + 1) /\ s[n + 1] = ToolResult(t, n + 1)
      BY <1>rs
    <2> QED
      BY <1>1, <1>2, <2>1
  <1>5. r \in Seq(Message) /\ Len(r) = n
    <2>1. DOMAIN r = 1..n /\ \A j \in 1..n : r[j] \in Message
      BY <1>2, <1>3, <1>rs
    <2>2. r = [j \in 1..n |-> r[j]]
      BY <1>rs, <2>1
    <2> QED
      BY <2>1, <2>2
  <1>6. s = Append(r, u)
    <2>1. Append(r, u) \in Seq(Message) /\ Len(Append(r, u)) = n + 1 /\ Append(r, u)[n + 1] = u
          /\ \A j \in 1..n : Append(r, u)[j] = r[j]
      BY <1>4, <1>5
    <2>2. Len(s) = n + 1
      BY <1>2, <1>rs
    <2>3. ASSUME NEW j \in 1..(n + 1) PROVE s[j] = Append(r, u)[j]
      <3>1. CASE j = n + 1
        BY <1>1, <1>rs, <2>1, <3>1
      <3>2. CASE j # n + 1
        <4>1. j \in 1..n
          BY <3>2
        <4> QED
          BY <1>3, <2>1, <4>1
      <3> QED
        BY <3>1, <3>2
    <2> QED
      BY <1>rs, <2>1, <2>2, <2>3, SeqEqual
  <1>7. Append(c \o r, u) = c \o Append(r, u)
    <2>1. <<u>> \in Seq(Message) /\ c \o r \in Seq(Message)
      BY <1>4, <1>5
    <2>2. Append(c \o r, u) = (c \o r) \o <<u>> /\ Append(r, u) = r \o <<u>>
      BY <1>5, <2>1
    <2>3. (c \o r) \o <<u>> = c \o (r \o <<u>>)
      BY <1>5, <2>1, ConcatAssociative
    <2> QED
      BY <2>2, <2>3, Zenon
  <1> QED
    BY <1>0, <1>1, <1>6, <1>7, Zenon

\* The sequences of messages that the loop keeps.
LEMMA Keeps ==
    ASSUME CoreInv
    PROVE  /\ loop.context \in Seq(Message) /\ loop.newMessages \in Seq(Message) /\ messages \in Seq(Message)
           /\ loop.prompts \in Seq(Message) /\ loop.pending \in Seq(Message)
  <1>1. \A q \in Seq(UserMessage) : q \in Seq(Message)
    BY MakesMessages
  <1> QED
    BY <1>1, Holders DEF CoreInv, TypeInv, LoopType

\* A step of the loop in a batch.
LEMMA ContextBatch ==
    ASSUME CoreInv, ContextInv, Sends, pc \in Batch
    PROVE  /\ messages' = loop.context \o Results(IF pc = "resultEnd" THEN Given + 1 ELSE Given)
           /\ Given \in Nat /\ (pc = "resultEnd" => Given + 1 = loop.next)
  <1>1. loop.next \in 1..Len(loop.calls) /\ Len(loop.calls) \in Nat /\ loop.context \in Seq(Message)
        /\ loop.calls \in Seq(Call)
    BY AtCall, Keeps
  <1>2. Given \in Nat /\ (pc = "resultEnd" => Given + 1 = loop.next)
    BY <1>1 DEF Given
  <1>3. messages = loop.context \o Results(Given)
    BY DEF ContextInv
  <1>4. CASE pc # "resultEnd"
    <2>1. messages' = messages
      BY <1>4 DEF Sends, Sending
    <2> QED
      BY <1>2, <1>3, <1>4, <2>1
  <1>5. CASE pc = "resultEnd"
    <2>1. messages' = Append(messages, ToolResult(loop.message.id, loop.next))
      BY <1>5 DEF Sends, Sending, Outgoing
    <2>2. PICK n \in Nat : n = Given
      BY <1>2
    <2>3. PICK t : t = loop.message.id
      OBVIOUS
    <2>4. Results(n) = ResultsOf(t, n) /\ Results(n + 1) = ResultsOf(t, n + 1)
      BY <2>3 DEF Results, ResultsOf
    <2>5. PICK s : s = ResultsOf(t, n + 1)
      OBVIOUS
    <2>6. s \in Seq(Message)
      <3>1. \A j \in 1..(n + 1) : ToolResult(t, j) \in Message
        <4>1. \A j \in 1..(n + 1) : j \in 1..Len(loop.calls)
          BY <1>1, <1>2, <1>5, <2>2
        <4> QED
          BY <2>3, <4>1, AtCall
      <3>2. \A j \in 1..(n + 1) : s[j] \in Message
        BY <2>5, <3>1 DEF ResultsOf
      <3>3. s = [j \in 1..(n + 1) |-> s[j]]
        BY <2>5 DEF ResultsOf
      <3> QED
        BY <2>2, <3>2, <3>3
    <2>7. Append(loop.context \o ResultsOf(t, n), ToolResult(t, n + 1)) = loop.context \o ResultsOf(t, n + 1)
      BY <1>1, <2>5, <2>6, ResultsGrow
    <2> QED
      BY <1>2, <1>3, <1>5, <2>1, <2>2, <2>3, <2>4, <2>7
  <1> QED
    BY <1>2, <1>4, <1>5

\* A step of the loop keeps its context in line.
LEMMA ContextLoop == ASSUME CoreInv, CoreInv', ContextInv, LoopStep PROVE ContextInv'
  <1>1. Sends /\ LoopKind
    BY LoopSends, LoopKinds
  <1>2. /\ loop.context \in Seq(Message) /\ loop.newMessages \in Seq(Message) /\ messages \in Seq(Message)
        /\ loop.prompts \in Seq(Message) /\ loop.pending \in Seq(Message)
    BY Keeps
  <1>3. pc \notin Sending => messages' = messages
    BY <1>1 DEF Sends
  <1>4. CASE Stays
    <2>1. /\ loop'.prompts = loop.prompts /\ loop'.context = loop.context /\ loop'.newMessages = loop.newMessages
          /\ loop'.message = loop.message
      BY <1>4 DEF Stays, SameHands, SameContext
    <2>2. CASE pc \in {"agentStart", "firstTurnStart", "promptStart"} /\ pc' \in Starting
      BY <1>3, <2>1, <2>2 DEF ContextInv, Sending, Clean
    <2>3. CASE pc = "firstTurnStart" /\ pc' = "pollSteering" /\ loop.prompts = <<>>
      <3>1. messages \o <<>> = messages
        BY <1>2, ConcatEmptySeq
      <3>2. loop.context = messages /\ messages' = messages
        BY <1>3, <2>3, <3>1 DEF ContextInv, Sending
      <3> QED
        BY <2>1, <2>3, <3>2 DEF ContextInv, Clean
    <2>4. CASE pc \in Clean \ {"injectEnd"} /\ pc' \in Clean
      <3>1. pc \notin Sending /\ pc' \notin Starting \cup Batch \cup {"streaming", "answerEnd"}
        BY <2>4 DEF Sending, Clean
      <3> QED
        BY <1>3, <2>1, <2>4, <3>1 DEF ContextInv
    <2>5. CASE pc' = "finish"
      BY <2>5 DEF ContextInv, Clean
    <2>6. CASE pc \in Batch /\ pc' \in Batch /\ Given' = IF pc = "resultEnd" THEN Given + 1 ELSE Given
      <3>1. messages' = loop.context \o Results(Given')
        BY <1>1, <2>6, ContextBatch
      <3>2. Results(Given)' = Results(Given')
        BY <2>1 DEF Results
      <3>3. messages' = loop'.context \o Results(Given)'
        BY <2>1, <3>1, <3>2
      <3>4. LastIs(loop.context, loop.message) /\ EndsWith(loop.context, loop.newMessages)
        BY <2>6 DEF ContextInv
      <3>5. LastIs(loop'.context, loop'.message) /\ EndsWith(loop'.context, loop'.newMessages)
        BY <2>1, <3>4
      <3>6. pc' \notin Starting \cup Clean \cup {"streaming", "answerEnd"}
        BY <2>6 DEF Clean
      <3> QED
        BY <3>3, <3>5, <3>6 DEF ContextInv
    <2> QED
      BY <1>4, <2>2, <2>3, <2>4, <2>5, <2>6 DEF Stays
  <1>5. CASE Takes
    <2>1. /\ pc \in Clean /\ pc \notin Sending /\ pc' \in Clean /\ loop'.context = loop.context
          /\ loop'.newMessages = loop.newMessages
      BY <1>5 DEF Takes, SameContext, Clean, Sending
    <2>2. pc' \notin Starting \cup Batch \cup {"streaming", "answerEnd"}
      BY <2>1 DEF Clean
    <2> QED
      BY <1>3, <2>1, <2>2 DEF ContextInv
  <1>6. CASE PromptSent
    <2>1. /\ pc = "promptEnd" /\ pc' = PromptLabel(Tail(loop.prompts)) /\ loop'.prompts = Tail(loop.prompts)
          /\ loop'.context = loop.context /\ loop'.newMessages = loop.newMessages
      BY <1>6 DEF PromptSent, SameContext
    <2>2. pc \in Sending
      BY <2>1 DEF Sending
    <2>3. loop.prompts # <<>> /\ messages' = Append(messages, Head(loop.prompts))
      BY <1>1, <2>1, <2>2, Outgoes DEF Sends
    <2>4. loop'.context = messages' \o loop'.prompts
      <3>1. loop.context = messages \o loop.prompts
        BY <2>1 DEF ContextInv
      <3>2. messages \o loop.prompts = Append(messages, Head(loop.prompts)) \o Tail(loop.prompts)
        BY <1>2, <2>3, ShiftHead
      <3> QED
        BY <2>1, <2>3, <3>1, <3>2
    <2>5. EndsWith(loop'.context, loop'.newMessages)
      BY <2>1 DEF ContextInv
    <2>6. CASE pc' = "promptStart"
      BY <2>4, <2>5, <2>6 DEF ContextInv, Clean
    <2>7. CASE pc' = "pollSteering" /\ loop'.prompts = <<>>
      <3>1. messages' \in Seq(Message)
        BY DEF CoreInv, TypeInv, AgentType
      <3>2. messages' \o <<>> = messages'
        BY <3>1, ConcatEmptySeq
      <3>3. loop'.context = messages'
        BY <2>4, <2>7, <3>2
      <3> QED
        BY <2>5, <2>7, <3>3 DEF ContextInv, Clean
    <2> QED
      BY <2>1, <2>6, <2>7 DEF PromptLabel
  <1>7. CASE InjectSent
    <2>1. /\ pc = "injectEnd" /\ pc' \in {"stream", "injectStart"}
          /\ loop'.context = Append(loop.context, Head(loop.pending))
          /\ loop'.newMessages = Append(loop.newMessages, Head(loop.pending))
      BY <1>7 DEF InjectSent
    <2>2. pc \in Sending /\ pc \in Clean
      BY <2>1 DEF Sending, Clean
    <2>3. loop.pending # <<>> /\ messages' = Append(messages, Head(loop.pending))
      BY <1>1, <2>1, <2>2, Outgoes DEF Sends
    <2>4. Head(loop.pending) \in Message
      BY <2>3, HandsHold
    <2>5. loop.context = messages /\ EndsWith(loop.context, loop.newMessages)
      BY <2>2 DEF ContextInv
    <2>6. EndsWith(loop'.context, loop'.newMessages)
      BY <1>2, <2>1, <2>4, <2>5, EndsWithGrows
    <2> QED
      BY <2>1, <2>3, <2>5, <2>6 DEF ContextInv, Clean
  <1>8. CASE PartialCame
    <2>1. /\ pc = "stream" /\ pc' = "streaming" /\ loop'.newMessages = loop.newMessages
          /\ \E m : loop'.context = Append(loop.context, m)
      BY <1>8 DEF PartialCame
    <2>2. pc \in Clean /\ pc \notin Sending
      BY <2>1 DEF Clean, Sending
    <2>3. loop.context = messages /\ messages' = messages /\ EndsWith(messages, loop.newMessages)
      BY <1>3, <2>2 DEF ContextInv
    <2> QED
      BY <2>1, <2>3 DEF ContextInv, Clean
  <1>9. CASE AnswerCame
    <2>1. /\ pc \in {"stream", "streaming"} /\ pc' = "answerEnd" /\ loop'.newMessages = loop.newMessages
          /\ loop'.context = IF pc = "stream" THEN Append(loop.context, loop'.message)
                             ELSE [loop.context EXCEPT ![Len(loop.context)] = loop'.message]
      BY <1>9 DEF AnswerCame
    <2>2. pc \notin Sending /\ messages' = messages
      BY <1>3, <2>1 DEF Sending
    <2>3. loop'.message \in Message
      BY <2>1, MakesMessages DEF CoreInv, ControlInv
    <2>4. loop'.context = Append(messages, loop'.message) /\ EndsWith(messages, loop.newMessages)
      <3>1. CASE pc = "stream"
        BY <2>1, <3>1 DEF ContextInv, Clean
      <3>2. CASE pc = "streaming"
        <4>1. PICK m : loop.context = Append(messages, m)
          BY <3>2 DEF ContextInv
        <4>2. m \in Message
          <5>1. Append(messages, m)[Len(messages) + 1] = m /\ Len(messages) + 1 \in 1..Len(Append(messages, m))
            BY <1>2
          <5>2. Append(messages, m) \in Seq(Message)
            BY <1>2, <4>1
          <5> QED
            BY <5>1, <5>2, ElementOfSeq
        <4>3. PICK y \in Message : y = loop'.message
          BY <2>3
        <4>4. [Append(messages, m) EXCEPT ![Len(Append(messages, m))] = y] = Append(messages, y)
          BY <1>2, <4>2, ReplaceLast
        <4> QED
          BY <2>1, <3>2, <4>1, <4>3, <4>4 DEF ContextInv
      <3> QED
        BY <2>1, <3>1, <3>2
    <2> QED
      BY <2>1, <2>2, <2>4 DEF ContextInv, Clean
  <1>10. CASE AnswerSent
    <2>1. /\ pc = "answerEnd" /\ loop'.message = loop.message /\ loop'.context = loop.context
          /\ loop'.newMessages = Append(loop.newMessages, loop.message)
          /\ (pc' = "toolStart" /\ Given' = 0) \/ pc' = "turnEnd"
      BY <1>10 DEF AnswerSent
    <2>2. messages' = Append(messages, loop.message) /\ loop.message \in Message
      BY <1>1, <2>1, Outgoes, MakesMessages DEF Sends, Sending
    <2>3. loop.context = Append(messages, loop.message) /\ EndsWith(messages, loop.newMessages)
      BY <2>1 DEF ContextInv
    <2>4. loop'.context = messages' /\ EndsWith(loop'.context, loop'.newMessages)
      BY <1>2, <2>1, <2>2, <2>3, EndsWithGrows
    <2>5. CASE pc' = "turnEnd"
      BY <2>4, <2>5 DEF ContextInv, Clean
    <2>6. CASE pc' = "toolStart" /\ Given' = 0
      <3>1. Results(Given)' = <<>>
        BY <2>6 DEF Results
      <3>2. messages' \o <<>> = messages'
        BY Keeps, ConcatEmptySeq
      <3>3. LastIs(loop'.context, loop'.message)
        BY <1>2, <2>1, <2>2, <2>3 DEF LastIs
      <3> QED
        BY <2>4, <2>6, <3>1, <3>2, <3>3 DEF ContextInv, Clean
    <2> QED
      BY <2>1, <2>5, <2>6
  <1>11. ASSUME NEW n, BatchEnded(n) PROVE ContextInv'
    <2>1. /\ pc \in Batch /\ pc' = "turnEnd" /\ n = (IF pc = "resultEnd" THEN Given + 1 ELSE Given)
          /\ loop'.context = loop.context \o Results(n) /\ loop'.newMessages = loop.newMessages \o Results(n)
          /\ Results(n) \in Seq(Message)
      BY <1>11 DEF BatchEnded
    <2>2. messages' = loop'.context
      BY <1>1, <2>1, ContextBatch
    <2>3. EndsWith(loop.context, loop.newMessages)
      BY <2>1 DEF ContextInv
    <2>4. PICK r \in Seq(Message) : r = Results(n)
      BY <2>1
    <2>5. EndsWith(loop.context \o r, loop.newMessages \o r)
      BY <1>2, <2>3, EndsWithGrows
    <2> QED
      BY <2>1, <2>2, <2>4, <2>5 DEF ContextInv, Clean
  <1>12. CASE Thrown \/ Fails \/ Finishes
    <2>1. pc' \in Failing \cup {"finish", "idle"}
      BY <1>12 DEF Thrown, Fails, Finishes
    <2>2. pc' \notin Starting \cup Clean \cup Batch \cup {"streaming", "answerEnd"}
      BY <2>1 DEF Clean
    <2> QED
      BY <2>2 DEF ContextInv
  <1> QED
    BY <1>1, <1>4, <1>5, <1>6, <1>7, <1>8, <1>9, <1>10, <1>11, <1>12 DEF LoopKind

\* Callers leave it alone, or start with the transcript and the prompts.
LEMMA ContextCaller == ASSUME CoreInv, CoreInv', ContextInv, CallerKind PROVE ContextInv'
  <1>1. CASE Begins
    <2>1. /\ pc' = "agentStart" /\ messages' = messages /\ loop'.context = messages \o loop'.prompts
          /\ loop'.newMessages = loop'.prompts
      BY <1>1 DEF Begins
    <2>2. messages \in Seq(Message)
      BY Keeps
    <2>3. EndsWith(loop'.context, loop'.newMessages)
      BY <2>1, <2>2 DEF EndsWith
    <2> QED
      BY <2>1, <2>3 DEF ContextInv, Clean
  <1>2. CASE Queues \/ Aborts \/ \E s, f \in BOOLEAN : clearQueues(s, f)
    <2>1. UNCHANGED <<messages, pc, loop>>
      BY <1>2 DEF Queues, Aborts, clearQueues, agentState
    <2> QED
      BY <2>1 DEF ContextInv, Results, Given
  <1>3. CASE reset
    <2>1. UNCHANGED <<pc, loop>> /\ pc = "idle"
      BY <1>3 DEF reset, CoreInv, TypeInv, RunType
    <2> QED
      BY <2>1 DEF ContextInv, Clean
  <1> QED
    BY <1>1, <1>2, <1>3 DEF CallerKind

\* Every step keeps it.
LEMMA ContextStep == ASSUME CoreInv, ContextInv, [Next]_vars PROVE ContextInv'
  BY CoreStep, ContextLoop, ContextCaller, CallerKinds DEF Next

\* What the provider is sent is the transcript.
THEOREM ContextCorrect == Spec => []ContextIsTranscript
  <1>1. Init => ContextInv
    BY DEF Init, ContextInv, Clean
  <1>2. CoreInv /\ ContextInv /\ [Next]_vars => ContextInv'
    BY ContextStep
  <1>3. CoreInv /\ ContextInv => ContextIsTranscript
    <2> SUFFICES ASSUME CoreInv, ContextInv, pc \in {"stream", "afterTurn", "pollFollowUp", "agentEnd"}
                 PROVE  /\ loop.context = messages
                        /\ loop.newMessages = SubSeq(messages, Len(messages) - Len(loop.newMessages) + 1, Len(messages))
      BY DEF ContextIsTranscript
    <2>1. loop.context = messages /\ EndsWith(loop.context, loop.newMessages)
      BY DEF ContextInv, Clean
    <2> QED
      BY <2>1, Keeps, EndsWithGrows
  <1> QED
    BY <1>1, <1>2, <1>3, CoreCorrect, PTL DEF Spec

-----------------------------------------------------------------------------
(* Tool results *)

\* A result follows the result before it, or the answer with its call.
Follows(M, q) ==
    M[q].role = "toolResult" =>
        /\ q > 1
        /\ IF M[q].call > 1 THEN M[q - 1] = ToolResult(M[q].id, M[q].call - 1)
           ELSE IsAssistant(M[q - 1]) /\ M[q - 1].id = M[q].id /\ M[q - 1].stopReason \notin FailedStops
\* An answer that asks for results, in a run that was not interrupted, and the
\* last of the results it asks for.
Asks(a, I) == IsAssistant(a) /\ a.stopReason \notin FailedStops /\ a.calls > 0 /\ a.run \notin I
Complete(M, p) == p + M[p].calls <= Len(M) /\ M[p + M[p].calls] = ToolResult(M[p].id, M[p].calls)

\* Results follow their calls, and only the answer of the batch that the loop
\* is in still waits for some.
ResultsInv ==
    /\ \A q \in DOMAIN messages : Follows(messages, q)
    /\ \A p \in DOMAIN messages : Asks(messages[p], interrupted) =>
         Complete(messages, p) \/ (pc \in Batch /\ p = Len(loop.context))

\* Both are about what is already there.
LEMMA FollowsGrows ==
    ASSUME NEW M \in Seq(Message), NEW m, NEW p \in DOMAIN M
    PROVE  /\ Follows(M, p) => Follows(Append(M, m), p)
           /\ IsAssistant(M[p]) /\ Complete(M, p) => Complete(Append(M, m), p)
  <1>1. PICK A : A = Append(M, m)
    OBVIOUS
  <1>2. /\ DOMAIN M = 1..Len(M) /\ Len(M) \in Nat /\ Len(A) = Len(M) + 1
        /\ \A i \in 1..Len(M) : A[i] = M[i]
    BY <1>1
  <1>3. p \in 1..Len(M) /\ A[p] = M[p]
    BY <1>2
  <1>4. p > 1 => A[p - 1] = M[p - 1]
    BY <1>2, <1>3
  <1>5. Follows(M, p) => Follows(A, p)
    BY <1>3, <1>4 DEF Follows
  <1>6. ASSUME IsAssistant(M[p]), Complete(M, p) PROVE Complete(A, p)
    <2>1. M[p] \in Message /\ M[p].role = "assistant"
      BY <1>6, ElementOfSeq, <1>3 DEF IsAssistant
    <2>2. M[p] \in AssistantMessage
      BY <2>1, MakesMessages DEF Message
    <2>3. M[p].calls \in Nat
      BY <2>2, MakesMessages, BoundsAssumption
    <2>4. PICK k \in Nat : k = p + M[p].calls
      BY <1>3, <2>3
    <2>5. k \in 1..Len(M)
      BY <1>2, <1>3, <1>6, <2>3, <2>4 DEF Complete
    <2> QED
      BY <1>2, <1>3, <1>6, <2>4, <2>5 DEF Complete
  <1> QED
    BY <1>1, <1>5, <1>6

\* The end of a transcript that ends with the results of a batch.
LEMMA EndOfBatch ==
    ASSUME NEW c \in Seq(Message), NEW t, NEW n \in Nat, Len(c) >= 1, ResultsOf(t, n) \in Seq(Message)
    PROVE  /\ Len(c \o ResultsOf(t, n)) = Len(c) + n /\ (c \o ResultsOf(t, n))[Len(c)] = c[Len(c)]
           /\ n >= 1 => (c \o ResultsOf(t, n))[Len(c) + n] = ToolResult(t, n)
  <1>1. PICK r : r = ResultsOf(t, n)
    OBVIOUS
  <1>2. r \in Seq(Message) /\ DOMAIN r = 1..n /\ \A i \in 1..n : r[i] = ToolResult(t, i)
    BY <1>1 DEF ResultsOf
  <1>3. Len(r) = n
    BY <1>2
  <1>0. PICK M : M = c \o r
    OBVIOUS
  <1>4. /\ Len(M) = Len(c) + Len(r)
        /\ \A i \in 1..(Len(c) + Len(r)) : M[i] = IF i <= Len(c) THEN c[i] ELSE r[i - Len(c)]
    BY <1>0, <1>2, ConcatProperties
  <1>5. Len(c) \in Nat
    OBVIOUS
  <1>6. Len(c) \in 1..(Len(c) + n) /\ M[Len(c)] = c[Len(c)]
    BY <1>3, <1>4, <1>5
  <1>7. ASSUME n >= 1 PROVE M[Len(c) + n] = ToolResult(t, n)
    <2>1. /\ Len(c) + n \in 1..(Len(c) + n) /\ ~ (Len(c) + n <= Len(c)) /\ (Len(c) + n) - Len(c) = n /\ n \in 1..n
      BY <1>5, <1>7
    <2>2. M[Len(c) + n] = r[(Len(c) + n) - Len(c)]
      BY <1>3, <1>4, <2>1
    <2> QED
      BY <1>2, <2>1, <2>2
  <1> QED
    BY <1>0, <1>1, <1>3, <1>4, <1>6, <1>7

\* What the transcript ends with in a batch.
LEMMA BatchTranscript ==
    ASSUME CoreInv, ContextInv, pc \in Batch
    PROVE  /\ Given \in Nat /\ Len(messages) = Len(loop.context) + Given
           /\ Len(loop.context) \in 1..Len(messages) /\ messages[Len(loop.context)] = loop.message
           /\ Given >= 1 => messages[Len(messages)] = ToolResult(loop.message.id, Given)
  <1>1. /\ loop.next \in 1..Len(loop.calls) /\ Len(loop.calls) \in Nat /\ loop.context \in Seq(Message)
        /\ loop.calls \in Seq(Call)
    BY AtCall, Keeps
  <1>2. Given \in Nat /\ Given <= Len(loop.calls)
    BY <1>1 DEF Given
  <1>3. messages = loop.context \o Results(Given) /\ LastIs(loop.context, loop.message)
    BY DEF ContextInv
  <1>4. PICK n \in Nat : n = Given
    BY <1>2
  <1>5. PICK t, a : t = loop.message.id /\ a = loop.message
    OBVIOUS
  <1>6. Results(n) = ResultsOf(t, n)
    BY <1>5 DEF Results, ResultsOf
  <1>7. ResultsOf(t, n) \in Seq(Message)
    <2>1. PICK s : s = ResultsOf(t, n)
      OBVIOUS
    <2>2. \A j \in 1..n : ToolResult(t, j) \in Message
      <3>1. \A j \in 1..n : j \in 1..Len(loop.calls)
        BY <1>1, <1>2, <1>4
      <3> QED
        BY <1>5, <3>1, AtCall
    <2>3. s = [j \in 1..n |-> s[j]] /\ \A j \in 1..n : s[j] \in Message
      BY <2>1, <2>2 DEF ResultsOf
    <2> QED
      BY <2>1, <2>3
  <1>8. PICK M, c : M = messages /\ c = loop.context /\ c \in Seq(Message)
    BY <1>1
  <1>9. M = c \o ResultsOf(t, n) /\ LastIs(c, a)
    BY <1>3, <1>4, <1>5, <1>6, <1>8
  <1>10. Len(c) \in Nat /\ Len(c) >= 1 /\ c[Len(c)] = a
    BY <1>8, <1>9 DEF LastIs
  <1>11. /\ Len(M) = Len(c) + n /\ M[Len(c)] = c[Len(c)]
         /\ n >= 1 => M[Len(c) + n] = ToolResult(t, n)
    <2>1. /\ Len(c \o ResultsOf(t, n)) = Len(c) + n /\ (c \o ResultsOf(t, n))[Len(c)] = c[Len(c)]
          /\ n >= 1 => (c \o ResultsOf(t, n))[Len(c) + n] = ToolResult(t, n)
      BY <1>7, <1>8, <1>10, EndOfBatch
    <2> QED
      BY <1>9, <2>1
  <1>12. Len(c) \in 1..Len(M)
    BY <1>10, <1>11
  <1> QED
    BY <1>4, <1>5, <1>8, <1>10, <1>11, <1>12

\* A result that goes out follows the one before.
LEMMA ResultFollows ==
    ASSUME CoreInv, ContextInv, Sends
    PROVE  pc = "resultEnd" => Follows(messages', Len(messages) + 1)
  <1> SUFFICES ASSUME pc = "resultEnd" PROVE Follows(messages', Len(messages) + 1)
    OBVIOUS
  <1>1. pc \in Batch /\ pc \in Sending
    BY DEF Sending
  <1>2. /\ Given \in Nat /\ Given + 1 = loop.next
    BY <1>1, ContextBatch
  <1>3. /\ Len(messages) = Len(loop.context) + Given
        /\ Len(loop.context) \in 1..Len(messages) /\ messages[Len(loop.context)] = loop.message
        /\ Given >= 1 => messages[Len(messages)] = ToolResult(loop.message.id, Given)
    BY <1>1, BatchTranscript
  <1>4. /\ messages'[Len(messages) + 1] = ToolResult(loop.message.id, loop.next)
        /\ \A p \in 1..Len(messages) : messages'[p] = messages[p]
        /\ Len(messages) \in Nat
    BY <1>1, Grown, Outgoes
  <1>5. /\ loop.message \in AssistantMessage /\ loop.message.stopReason \in {"stop", "length"}
    BY <1>1 DEF CoreInv, ControlInv, CallsInv
  <1>6. IsAssistant(loop.message) /\ loop.message.stopReason \notin FailedStops
    BY <1>5, MakesMessages DEF IsAssistant, FailedStops
  <1>7. PICK u : u = ToolResult(loop.message.id, loop.next)
    OBVIOUS
  <1>8. u.id = loop.message.id /\ u.call = loop.next
    BY <1>7 DEF ToolResult
  <1>9. Len(messages) \in 1..Len(messages) /\ Len(messages) >= 1 /\ (Len(messages) + 1) - 1 = Len(messages)
    BY <1>3, <1>4
  <1>10. CASE loop.next > 1
    <2>1. Given >= 1 /\ Given = loop.next - 1
      BY <1>2, <1>10
    <2>2. messages'[Len(messages)] = ToolResult(loop.message.id, loop.next - 1)
      BY <1>3, <1>4, <1>9, <2>1
    <2> QED
      BY <1>4, <1>7, <1>8, <1>9, <1>10, <2>2 DEF Follows
  <1>11. CASE ~ (loop.next > 1)
    <2>1. Given = 0
      BY <1>2, <1>11
    <2>2. messages'[Len(messages)] = loop.message
      BY <1>3, <1>4, <1>9, <2>1
    <2> QED
      BY <1>4, <1>6, <1>7, <1>8, <1>9, <1>11, <2>2 DEF Follows
  <1> QED
    BY <1>10, <1>11

\* A batch that ended in a run that goes on has all its results.
LEMMA EndedComplete ==
    ASSUME CoreInv, ContextInv, Sends, NEW n, BatchEnded(n), run \notin interrupted
    PROVE  Complete(messages', Len(loop.context))
  <1>1. /\ pc \in Batch /\ n = (IF pc = "resultEnd" THEN Given + 1 ELSE Given) /\ n >= 1
        /\ n = loop.message.calls \/ aborted
        /\ Results(n) \in Seq(Message)
    BY DEF BatchEnded
  <1>2. messages' = loop.context \o Results(n) /\ Given \in Nat
    BY <1>1, ContextBatch
  <1>3. n \in Nat /\ n = loop.message.calls
    <2>1. ~ aborted
      BY DEF CoreInv, ControlInv
    <2> QED
      BY <1>1, <1>2, <2>1
  <1>4. LastIs(loop.context, loop.message)
    BY <1>1 DEF ContextInv
  <1>5. PICK c, t, a : c = loop.context /\ t = loop.message.id /\ a = loop.message
    OBVIOUS
  <1>6. c \in Seq(Message) /\ Len(c) >= 1 /\ Len(c) \in Nat /\ c[Len(c)] = a
    BY <1>4, <1>5, Keeps DEF LastIs
  <1>7. Results(n) = ResultsOf(t, n)
    BY <1>5 DEF Results, ResultsOf
  <1>8. ResultsOf(t, n) \in Seq(Message) /\ messages' = c \o ResultsOf(t, n)
    BY <1>1, <1>2, <1>5, <1>7
  <1>9. /\ Len(c \o ResultsOf(t, n)) = Len(c) + n /\ (c \o ResultsOf(t, n))[Len(c)] = c[Len(c)]
        /\ n >= 1 => (c \o ResultsOf(t, n))[Len(c) + n] = ToolResult(t, n)
    BY <1>3, <1>6, <1>8, EndOfBatch
  <1>10. PICK M, k : M = messages' /\ k = Len(c)
    OBVIOUS
  <1>11. Len(M) = k + n /\ M[k] = a /\ M[k + n] = ToolResult(t, n) /\ k \in Nat
    BY <1>1, <1>6, <1>8, <1>9, <1>10
  <1>12. Complete(M, k)
    <2>1. M[k].calls = n /\ M[k].id = t
      BY <1>3, <1>5, <1>11
    <2>2. k + n <= Len(M)
      BY <1>3, <1>11
    <2> QED
      BY <1>11, <2>1, <2>2 DEF Complete
  <1> QED
    BY <1>5, <1>10, <1>12

\* A step of the loop keeps results behind their calls.
LEMMA ResultsLoop == ASSUME CoreInv, ContextInv, ResultsInv, LoopStep PROVE ResultsInv'
  <1>1. Sends /\ LoopKind
    BY LoopSends, LoopKinds
  <1>2. /\ messages \in Seq(Message) /\ Len(messages) \in Nat /\ DOMAIN messages = 1..Len(messages)
        /\ pc \notin Sending => messages' = messages
        /\ pc \in Sending => messages' = Append(messages, Outgoing)
        /\ \A p \in DOMAIN messages' :
             \/ p \in DOMAIN messages /\ messages'[p] = messages[p]
             \/ p = Len(messages) + 1 /\ pc \in Sending /\ messages'[p] = Outgoing
    BY <1>1, Grown
  <1>3. ASSUME NEW p \in DOMAIN messages
        PROVE  /\ Follows(messages, p) => Follows(messages', p)
               /\ IsAssistant(messages[p]) /\ Complete(messages, p) => Complete(messages', p)
    <2>1. PICK m : m = Outgoing
      OBVIOUS
    <2>2. /\ Follows(messages, p) => Follows(Append(messages, m), p)
          /\ IsAssistant(messages[p]) /\ Complete(messages, p) => Complete(Append(messages, m), p)
      BY <1>2, FollowsGrows
    <2>3. CASE pc \in Sending
      <3>1. messages' = Append(messages, m)
        BY <1>2, <2>1, <2>3
      <3> QED
        BY <2>2, <3>1
    <2>4. CASE pc \notin Sending
      <3>1. messages' = messages
        BY <1>2, <2>4
      <3> QED
        BY <3>1
    <2> QED
      BY <2>3, <2>4
  <1>4. ASSUME NEW q \in DOMAIN messages' PROVE Follows(messages', q)
    <2>1. CASE q \in DOMAIN messages
      BY <1>3, <2>1 DEF ResultsInv
    <2>2. CASE q = Len(messages) + 1 /\ pc \in Sending /\ messages'[q] = Outgoing
      <3>1. CASE pc = "resultEnd"
        BY <1>1, <2>2, <3>1, ResultFollows
      <3>2. CASE pc # "resultEnd"
        <4>1. Outgoing.role # "toolResult"
          BY <2>2, <3>2, Outgoes DEF Sending
        <4> QED
          BY <2>2, <4>1 DEF Follows
      <3> QED
        BY <3>1, <3>2
    <2> QED
      BY <1>2, <2>1, <2>2
  <1>5. interrupted \subseteq interrupted'
    BY <1>1 DEF LoopKind, Stays, Takes, PromptSent, InjectSent, PartialCame, AnswerCame, AnswerSent, BatchEnded,
                Thrown, Fails, Finishes, GoesOn
  <1>6. ASSUME NEW p \in DOMAIN messages', Asks(messages'[p], interrupted')
        PROVE  Complete(messages', p) \/ (pc' \in Batch /\ p = Len(loop'.context))
    <2>1. Asks(messages'[p], interrupted) /\ IsAssistant(messages'[p]) /\ messages'[p].run \notin interrupted'
      BY <1>5, <1>6 DEF Asks
    <2>2. CASE p \in DOMAIN messages /\ messages'[p] = messages[p]
      <3>1. Complete(messages, p) \/ (pc \in Batch /\ p = Len(loop.context))
        BY <2>1, <2>2 DEF ResultsInv
      <3>2. CASE Complete(messages, p)
        BY <1>3, <2>1, <2>2, <3>2
      <3>3. CASE pc \in Batch /\ p = Len(loop.context)
        <4>1. messages[p] = loop.message /\ loop.message.run = run
          BY <3>3, BatchTranscript DEF CoreInv, ControlInv
        <4>2. run \notin interrupted' /\ run \notin interrupted
          BY <1>5, <2>1, <2>2, <4>1
        <4>3. CASE Stays
          <5>1. loop'.context = loop.context
            BY <4>3 DEF Stays, SameContext
          <5>2. pc' \in Batch
            BY <3>3, <4>3 DEF Stays, Clean
          <5> QED
            BY <3>3, <5>1, <5>2
        <4>4. ASSUME NEW n, BatchEnded(n) PROVE Complete(messages', p)
          BY <1>1, <3>3, <4>2, <4>4, EndedComplete
        <4>5. CASE Thrown
          BY <4>2, <4>5 DEF Thrown
        <4>6. ~ (Takes \/ PromptSent \/ InjectSent \/ PartialCame \/ AnswerCame \/ AnswerSent \/ Fails \/ Finishes)
          BY <3>3 DEF Takes, PromptSent, InjectSent, PartialCame, AnswerCame, AnswerSent, Fails, Finishes
        <4> QED
          BY <1>1, <4>3, <4>4, <4>5, <4>6 DEF LoopKind
      <3> QED
        BY <3>1, <3>2, <3>3
    <2>3. CASE p = Len(messages) + 1 /\ pc \in Sending /\ messages'[p] = Outgoing
      <3>1. Outgoing.role = "assistant" /\ Outgoing.stopReason \notin FailedStops /\ Outgoing.calls > 0
            /\ Outgoing.run \notin interrupted'
        BY <2>1, <2>3 DEF Asks, IsAssistant
      <3>2. pc = "answerEnd"
        BY <2>3, <3>1, Outgoes DEF Sending
      <3>3. /\ Outgoing = loop.message /\ loop.message.run = run /\ loop.message \in AssistantMessage
        BY <2>3, <3>2, Outgoes
      <3>4. loop.context = Append(messages, loop.message)
        BY <3>2 DEF ContextInv
      <3>5. Len(loop.context) = Len(messages) + 1
        BY <1>2, <3>4
      <3>6. CASE AnswerSent
        <4>1. loop'.context = loop.context /\ pc' = "toolStart"
          <5>1. loop.message.calls \in Nat
            BY <3>3, MakesMessages, BoundsAssumption
          <5> QED
            BY <3>1, <3>3, <3>6, <5>1 DEF AnswerSent
        <4> QED
          BY <2>3, <3>5, <4>1
      <3>7. CASE Thrown
        BY <3>1, <3>3, <3>7 DEF Thrown
      <3>8. ~ (Stays \/ Takes \/ PromptSent \/ InjectSent \/ PartialCame \/ AnswerCame \/ Fails \/ Finishes
               \/ \E n : BatchEnded(n))
        BY <3>2 DEF Stays, Takes, PromptSent, InjectSent, PartialCame, AnswerCame, Fails, Finishes, BatchEnded, Clean
      <3> QED
        BY <1>1, <3>6, <3>7, <3>8 DEF LoopKind
    <2> QED
      BY <1>2, <2>2, <2>3
  <1> QED
    BY <1>4, <1>6 DEF ResultsInv

\* Callers say nothing, and an abort only excuses answers.
LEMMA ResultsCaller == ASSUME CoreInv, ResultsInv, CallerKind PROVE ResultsInv'
  <1>1. CASE Begins
    <2>1. pc \notin Batch /\ UNCHANGED <<messages, interrupted>>
      BY <1>1 DEF Begins
    <2> QED
      BY <2>1 DEF ResultsInv
  <1>2. CASE Queues \/ Aborts \/ \E s, f \in BOOLEAN : clearQueues(s, f)
    <2>1. UNCHANGED <<messages, pc, loop>> /\ interrupted \subseteq interrupted'
      BY <1>2 DEF Queues, Aborts, clearQueues, agentState
    <2>2. \A p \in DOMAIN messages : Asks(messages[p], interrupted') => Asks(messages[p], interrupted)
      BY <2>1 DEF Asks
    <2> QED
      BY <2>1, <2>2 DEF ResultsInv
  <1>3. CASE reset
    <2>1. messages' = <<>>
      BY <1>3 DEF reset
    <2> QED
      BY <2>1 DEF ResultsInv
  <1> QED
    BY <1>1, <1>2, <1>3 DEF CallerKind

\* Every step keeps it.
LEMMA ResultsStep == ASSUME CoreInv, ContextInv, ResultsInv, [Next]_vars PROVE ResultsInv'
  BY ResultsLoop, ResultsCaller, CallerKinds DEF Next

\* Tool results follow the assistant message that asked for them, in source
\* order, and a finished turn of an uninterrupted run has one for every call.
THEOREM ResultsCorrect == Spec => []ToolResultsAnswerCalls
  <1>1. Init => ContextInv /\ ResultsInv
    BY DEF Init, ContextInv, Clean, ResultsInv
  <1>2. CoreInv /\ ContextInv /\ ResultsInv /\ [Next]_vars => ContextInv' /\ ResultsInv'
    BY ContextStep, ResultsStep
  <1>3. CoreInv /\ ContextInv /\ ResultsInv => ToolResultsAnswerCalls
    <2> SUFFICES ASSUME CoreInv, ContextInv, ResultsInv PROVE ToolResultsAnswerCalls
      OBVIOUS
    <2>1. ASSUME NEW p \in DOMAIN messages, Asks(messages[p], interrupted),
                 loop.message = messages[p] => pc \in {"afterTurn", "agentEnd", "finish"}
          PROVE  Complete(messages, p)
      <3>1. ASSUME pc \in Batch, p = Len(loop.context) PROVE FALSE
        BY <2>1, <3>1, BatchTranscript
      <3> QED
        BY <2>1, <3>1 DEF ResultsInv
    <2>2. \A q \in DOMAIN messages : Follows(messages, q)
      BY DEF ResultsInv
    <2> QED
      BY <2>1, <2>2 DEF ToolResultsAnswerCalls, Follows, Asks, Complete
  <1> QED
    BY <1>1, <1>2, <1>3, CoreCorrect, PTL DEF Spec
=============================================================================
