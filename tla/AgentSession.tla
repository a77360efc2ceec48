---------------------------- MODULE AgentSession ----------------------------
(***************************************************************************)
(* AgentSession of packages/coding-agent/src/core/agent-session.ts: the    *)
(* coding agent's session around one Agent (see AgentLoop).  prompt() with *)
(* its preflight, the post-run loop with retries and automatic compaction, *)
(* manual compaction, abort, queued messages and shell results, and the    *)
(* branch that SessionManager keeps beside the agent's live context.       *)
(*                                                                         *)
(* A step is the code between two awaits.  An agent run is reduced to what *)
(* the session sees of it: messages appended to the live context and then, *)
(* once the listeners have been awaited, to the branch.                    *)
(***************************************************************************)
EXTENDS Naturals, Sequences, FiniteSets

CONSTANTS
    Callers,         \* concurrent callers of prompt()
    MaxRetries,      \* settings.retry.maxRetries
    MaxPrompts,      \* bounds: calls of prompt(),
    MaxAnswers,      \*   answers of the model that are not a plain stop,
    MaxCompactions,  \*   summaries that succeed,
    MaxRequests,     \*   other calls: messages queued, shell results,
                     \*   abort(), abortCompaction(), compact(),
    Overlaps         \*   whether to go on once two calls have overlapped

ASSUME BoundsAssumption ==
    /\ MaxRetries \in Nat /\ MaxPrompts \in Nat
    /\ MaxAnswers \in Nat /\ MaxCompactions \in Nat /\ MaxRequests \in Nat
    /\ Overlaps \in BOOLEAN
    /\ IsFiniteSet(Callers) /\ {"manual", "none"} \cap Callers = {}

VARIABLES
    \* SessionManager's branch and agent.state.messages
    entries, live,
    \* the agent: its run, and the messages in its queues
    unsaved, run, queue,
    \* AgentSession
    active, waiters, last, retryAttempt, overflowTried, pendingBash,
    retryCtl, autoCtl, compactCtl,
    \* the calls of prompt() and compact() in progress
    caller, manual,
    \* bounds and history
    used, overlap, streak, badContinue

transcript == <<entries, live, unsaved>>
session  == <<active, waiters, last, retryAttempt, overflowTried, pendingBash>>
controls == <<retryCtl, autoCtl, compactCtl>>
vars == <<transcript, run, queue, session, controls, caller, manual,
          used, overlap, streak, badContinue>>

-----------------------------------------------------------------------------
(* Messages and entries; n tells two of a kind apart. *)

(* stopReason "error" is split by isRetryableError and isContextOverflow.   *)
Errors  == {"transient", "overflow", "fatal"}
Failed  == Errors \cup {"length"}
Answers == Failed \cup {"stop", "toolUse", "aborted"}
Kinds   == Answers \cup {"user", "toolResult", "bash", "compaction", "none"}

None == [kind |-> "none", n |-> 0, keep |-> 0]
Msg(k) == [kind |-> k, n |-> used.messages + 1, keep |-> 0]
IsAnswer(m) == m.kind \in Answers
Last(s) == IF s = <<>> THEN None ELSE s[Len(s)]
Front(s) == SubSeq(s, 1, Len(s) - 1)

LatestCompaction(path) ==
    LET C == {i \in DOMAIN path : path[i].kind = "compaction"}
    IN  IF C = {} THEN 0 ELSE CHOOSE i \in C : \A j \in C : j <= i

(* The index of the first entry that the compaction at index i keeps. *)
Kept(path, i) == CHOOSE j \in DOMAIN path : path[j].n = path[i].keep

buildSessionContext(path) ==
    LET c == LatestCompaction(path)
    IN  IF c = 0 THEN path
        ELSE <<path[c]>> \o SubSeq(path, Kept(path, c), c - 1)
                         \o SubSeq(path, c + 1, Len(path))

(* prepareCompaction: the cuts that leave something to summarize. Which of  *)
(* them the token budget selects is left open.                              *)
CutPoints(path) ==
    LET c == LatestCompaction(path)
        start == IF c = 0 THEN 1 ELSE Kept(path, c)
    IN  IF path = <<>> \/ c = Len(path) THEN {}
        ELSE {i \in start..Len(path) :
                /\ path[i].kind \notin {"compaction", "toolResult"}
                /\ \E j \in start..(i - 1) : path[j].kind # "compaction"}

-----------------------------------------------------------------------------
(* State. *)

NoRun  == [by |-> "none", step |-> "none", aborted |-> FALSE]
Runs == [by : Callers, step : {"user", "respond", "tools", "next", "after", "end"},
         aborted : BOOLEAN]
NoStreak == [failures |-> 0, recoveries |-> 0]
NoCall == [pc |-> "idle", why |-> "pre", msg |-> None, retry |-> FALSE, keep |-> 0]
CallerPCs == {"idle", "input", "auth", "cauth", "csum", "cemit", "start", "sync",
              "running", "post", "backoff", "check", "settle", "settling"}
ManualPCs == {"idle", "wait", "auth", "summarize", "emit"}
Controls == {"none", "set", "aborted"}
Messages == [kind : Kinds, n : Nat, keep : Nat]

TypeOK ==
    /\ entries \in Seq(Messages) /\ live \in Seq(Messages) /\ unsaved \in Messages
    /\ run \in Runs \cup {NoRun} /\ queue \in Nat
    /\ active \in BOOLEAN /\ waiters \subseteq {"abort", "compact"}
    /\ last \in Messages /\ retryAttempt \in 0..MaxRetries
    /\ overflowTried \in BOOLEAN /\ pendingBash \in Seq(Messages)
    /\ retryCtl \in Controls /\ autoCtl \in Controls /\ compactCtl \in Controls
    /\ caller \in [Callers -> [pc : CallerPCs, why : {"pre", "post"}, msg : Messages,
                               retry : BOOLEAN, keep : Nat]]
    /\ manual \in [pc : ManualPCs, keep : Nat]
    /\ overlap \in BOOLEAN /\ badContinue \in BOOLEAN
    /\ streak \in [failures : Nat, recoveries : Nat]

Init ==
    /\ entries = <<>> /\ live = <<>> /\ unsaved = None
    /\ run = NoRun /\ queue = 0
    /\ active = FALSE /\ waiters = {} /\ last = None
    /\ retryAttempt = 0 /\ overflowTried = FALSE /\ pendingBash = <<>>
    /\ retryCtl = "none" /\ autoCtl = "none" /\ compactCtl = "none"
    /\ caller = [c \in Callers |-> NoCall]
    /\ manual = [pc |-> "idle", keep |-> 0]
    /\ used = [messages |-> 0, prompts |-> 0, answers |-> 0, compactions |-> 0, requests |-> 0]
    /\ overlap = FALSE /\ streak = NoStreak /\ badContinue = FALSE

Use(f) == used' = [used EXCEPT ![f] = @ + 1]
At(c, label) == caller[c].pc = label
Goto(c, label) == caller' = [caller EXCEPT ![c].pc = label]

Mutant_FlushUnsaved == /\ live' = live \o pendingBash
                       /\ pendingBash' = <<>>
                       /\ UNCHANGED entries
(* _flushPendingBashMessages, with the entries and the context it starts from. *)
Flush == /\ live' = live \o pendingBash
         /\ entries' = entries \o pendingBash
         /\ pendingBash' = <<>>

-----------------------------------------------------------------------------
(* The agent's run, as its event listener sees it. *)

(* A message enters the live context; its listeners have not run yet. *)
Emit(m, step) ==
    /\ live' = Append(live, m)
    /\ unsaved' = m
    /\ run' = [run EXCEPT !.step = step]
    /\ UNCHANGED <<entries, active, waiters, last, retryAttempt, pendingBash,
                   controls, caller, manual, badContinue>>

(* A new user message resets the overflow guard when it starts. *)
UserMessage(step) ==
    /\ Emit(Msg("user"), step)
    /\ overflowTried' = FALSE /\ streak' = NoStreak
    /\ used' = [used EXCEPT !.messages = @ + 1]

RunPrompt ==
    /\ run.step = "user" /\ unsaved = None
    /\ UserMessage("next") /\ UNCHANGED queue

RunDrain ==
    /\ run.step \in {"next", "after"} /\ unsaved = None /\ queue > 0
    /\ queue' = queue - 1
    /\ UserMessage("respond")

RunRespond(k) ==
    /\ run.step \in {"respond", "next"} /\ unsaved = None
    /\ k # "stop" => used.answers < MaxAnswers
    /\ k = "aborted" => run.aborted
    /\ Emit(Msg(k), CASE k = "toolUse" -> "tools"
                      [] k \in {"stop", "length"} -> "after"
                      [] OTHER -> "end")
    /\ used' = [used EXCEPT !.messages = @ + 1, !.answers = @ + (IF k = "stop" THEN 0 ELSE 1)]
    /\ streak' = IF k \in Failed THEN [streak EXCEPT !.failures = @ + 1] ELSE NoStreak
    /\ UNCHANGED <<queue, overflowTried>>

RunTools ==
    /\ run.step = "tools" /\ unsaved = None
    /\ Emit(Msg("toolResult"), "next")
    /\ used' = [used EXCEPT !.messages = @ + 1]
    /\ UNCHANGED <<queue, overflowTried, streak>>

RunStops ==
    /\ run.step = "after" /\ unsaved = None /\ queue = 0
    /\ run' = [run EXCEPT !.step = "end"]
    /\ UNCHANGED <<transcript, queue, session, controls, caller, manual, used,
                   streak, badContinue>>

RunEnds ==
    /\ run.step = "end" /\ unsaved = None
    /\ Goto(run.by, "post")
    /\ run' = NoRun
    /\ UNCHANGED <<transcript, queue, session, controls, manual, used,
                   streak, badContinue>>

(* An assistant message that ends the overflow recovery it may belong to. *)
Mutant_LengthEndsRecovery(m) == IsAnswer(m) /\ m.kind \notin Errors
EndsRecovery(m) == IsAnswer(m) /\ m.kind \notin Failed

(* _handleAgentEvent on message_end: persist, and note an assistant message. *)
Persist ==
    /\ unsaved # None
    /\ unsaved' = None
    /\ entries' = Append(entries, unsaved)
    /\ last' = IF IsAnswer(unsaved) THEN unsaved ELSE last
    /\ overflowTried' = (overflowTried /\ ~ EndsRecovery(unsaved))
    /\ retryAttempt' = IF IsAnswer(unsaved) /\ unsaved.kind \notin Errors THEN 0 ELSE retryAttempt
    /\ UNCHANGED <<live, run, queue, active, waiters, pendingBash, controls, caller,
                   manual, used, streak, badContinue>>

-----------------------------------------------------------------------------
(* prompt() and its preflight. *)

Prompt(c) ==
    /\ At(c, "idle") /\ used.prompts < MaxPrompts
    /\ compactCtl = "none"
    /\ Use("prompts") /\ Goto(c, "input")
    /\ UNCHANGED <<transcript, run, queue, session, controls, manual, streak, badContinue>>

(* After the input hooks and the streaming check: queue the message, return *)
(* or reject, or flush the shell results and go on.                         *)
Submit(c) ==
    /\ At(c, "input")
    /\ \/ /\ active /\ used.requests < MaxRequests
          /\ queue' = queue + 1 /\ Use("requests")
          /\ Goto(c, "idle")
          /\ UNCHANGED <<entries, live, pendingBash>>
       \/ /\ Goto(c, "idle")              \* rejected, or handled by an extension
          /\ UNCHANGED <<entries, live, pendingBash, queue, used>>
       \/ /\ ~ active
          /\ Flush
          /\ Goto(c, "auth")
          /\ UNCHANGED <<queue, used>>
    /\ UNCHANGED <<unsaved, run, active, waiters, last, retryAttempt, overflowTried,
                   controls, manual, streak, badContinue>>

(* _checkCompaction: what it may decide for an assistant message. Whether   *)
(* compaction is enabled, the model is still the one that answered, a       *)
(* length stop is recoverable and the threshold is reached is left open.    *)
CompactionChoices(m, skipAborted) ==
    LET c == LatestCompaction(entries)
        measured == \E i \in DOMAIN live :
            /\ live[i].kind \in Answers \ Errors
            /\ c = 0 \/ live[i].n > entries[c].n
    IN  CASE m.kind = "aborted" /\ skipAborted -> {"no"}
          [] c # 0 /\ m.n <= entries[c].n -> {"no"}
          [] m.kind = "overflow" -> {"no"} \cup (IF overflowTried THEN {} ELSE {"recover"})
          [] m.kind = "length" ->
               {"no", "threshold"} \cup (IF overflowTried THEN {} ELSE {"recover"})
          [] m.kind \in {"transient", "fatal"} ->
               {"no"} \cup (IF measured THEN {"threshold"} ELSE {})
          [] OTHER -> {"no", "threshold"}

(* Enter _runAutoCompaction, which first awaits the request's credentials.  *)
StartAuto(c, choice, why) ==
    /\ overflowTried' = (overflowTried \/ choice = "recover")
    /\ streak' = IF choice = "recover" THEN [streak EXCEPT !.recoveries = @ + 1] ELSE streak
    /\ caller' = [caller EXCEPT ![c] = [@ EXCEPT !.pc = "cauth", !.why = why,
                                                 !.retry = choice = "recover"]]

(* After the credentials: check whether to compact before sending. *)
Preflight(c) ==
    /\ At(c, "auth")
    /\ LET A == {i \in DOMAIN live : IsAnswer(live[i])}
           m == IF A = {} THEN None ELSE live[CHOOSE i \in A : \A j \in A : j <= i]
       IN  \/ /\ Goto(c, "idle")          \* no credentials: throw
              /\ UNCHANGED <<overflowTried, streak>>
           \/ /\ m = None \/ "no" \in CompactionChoices(m, FALSE)
              /\ Goto(c, "start")
              /\ UNCHANGED <<overflowTried, streak>>
           \/ /\ m # None
              /\ \E choice \in CompactionChoices(m, FALSE) \ {"no"} :
                    StartAuto(c, choice, "pre")
    /\ UNCHANGED <<transcript, run, queue, active, waiters, last, retryAttempt,
                   pendingBash, controls, manual, used, badContinue>>

(* _runAgentPrompt up to the agent, which rejects a second run. *)
Start(c) ==
    /\ At(c, "start")
    /\ active' = TRUE
    /\ Goto(c, "sync")
    /\ UNCHANGED <<transcript, run, queue, waiters, last, retryAttempt, overflowTried,
                   pendingBash, controls, manual, used, streak, badContinue>>

Launch(c) ==
    /\ At(c, "sync")
    /\ IF run = NoRun
       THEN /\ run' = [by |-> c, step |-> "user", aborted |-> FALSE]
            /\ Goto(c, "running")
       ELSE /\ Goto(c, "settle")
            /\ UNCHANGED run
    /\ UNCHANGED <<transcript, queue, session, controls, manual, used, streak, badContinue>>

-----------------------------------------------------------------------------
(* The post-run loop. *)

(* agent.continue() on the context ctx: from a user or tool result, or from *)
(* an assistant message with a queued message; anything else throws.        *)
ContinueRun(c, ctx) ==
    LET fromQueue == IsAnswer(Last(ctx)) /\ queue > 0
        ok == run = NoRun /\ ctx # <<>> /\ (IsAnswer(Last(ctx)) => queue > 0)
    IN  /\ run' = IF ok THEN [by |-> c, step |-> IF fromQueue THEN "user" ELSE "next",
                              aborted |-> FALSE]
                        ELSE run
        /\ queue' = IF ok /\ fromQueue THEN queue - 1 ELSE queue
        /\ badContinue' = (badContinue \/ (run = NoRun /\ ~ ok))
        /\ Goto(c, IF ok THEN "running" ELSE "settle")

(* _handlePostAgentRun returns: continue for what is queued, or settle. *)
Finish(c) ==
    IF queue > 0 THEN ContinueRun(c, live)
    ELSE Goto(c, "settle") /\ UNCHANGED <<run, queue, badContinue>>

Mutant_OneRetryMore(m) == m.kind = "transient" /\ retryAttempt <= MaxRetries
WillRetry(m) == m.kind = "transient" /\ retryAttempt < MaxRetries

(* _prepareRetry for a transient error, else on to the compaction check. *)
PostRun(c) ==
    LET m == last IN
    /\ At(c, "post")
    /\ last' = None
    /\ \/ /\ m = None
          /\ Goto(c, "settle")
          /\ UNCHANGED <<live, retryAttempt, retryCtl>>
       \/ /\ WillRetry(m)
          /\ retryAttempt' = retryAttempt + 1
          /\ live' = IF IsAnswer(Last(live)) THEN Front(live) ELSE live
          /\ retryCtl' = "set"
          /\ caller' = [caller EXCEPT ![c] = [@ EXCEPT !.pc = "backoff", !.msg = m]]
       \/ /\ m # None /\ ~ WillRetry(m)
          /\ retryAttempt' = IF m.kind \in Errors THEN 0 ELSE retryAttempt
          /\ caller' = [caller EXCEPT ![c] = [@ EXCEPT !.pc = "check", !.msg = m]]
          /\ UNCHANGED <<live, retryCtl>>
    /\ UNCHANGED <<entries, unsaved, run, queue, active, waiters, overflowTried,
                   pendingBash, autoCtl, compactCtl, manual, used, streak, badContinue>>

(* The backoff timer fires, or the sleep was aborted. *)
BackoffOver(c) ==
    /\ At(c, "backoff")
    /\ retryCtl' = "none"
    /\ IF retryCtl = "aborted"
       THEN /\ retryAttempt' = 0 /\ streak' = NoStreak
            /\ Goto(c, "check")
            /\ UNCHANGED <<run, queue, badContinue>>
       ELSE /\ ContinueRun(c, live)
            /\ UNCHANGED <<retryAttempt, streak>>
    /\ UNCHANGED <<transcript, active, waiters, last, overflowTried, pendingBash,
                   autoCtl, compactCtl, manual, used>>

CheckCompaction(c) ==
    LET m == caller[c].msg IN
    /\ At(c, "check")
    /\ \/ /\ "no" \in CompactionChoices(m, TRUE)
          /\ Finish(c) /\ UNCHANGED <<overflowTried, streak>>
       \/ \E choice \in CompactionChoices(m, TRUE) \ {"no"} :
             /\ StartAuto(c, choice, "post")
             /\ UNCHANGED <<run, queue, badContinue>>
    /\ UNCHANGED <<transcript, active, waiters, last, retryAttempt, pendingBash,
                   controls, manual, used>>

(* The end of every run: flush the shell results, then _emitAgentSettled.   *)
Settle(c) ==
    /\ At(c, "settle")
    /\ Flush
    /\ active' = FALSE
    /\ Goto(c, "settling")
    /\ UNCHANGED <<unsaved, run, queue, waiters, last, retryAttempt, overflowTried,
                   controls, manual, used, streak, badContinue>>

(* _resolveIdleWaitIfIdle. *)
Mutant_NotResolved == waiters
StillWaiting == IF active THEN waiters ELSE {}

Settled(c) ==
    /\ At(c, "settling")
    /\ waiters' = StillWaiting
    /\ caller' = [caller EXCEPT ![c] = NoCall]
    /\ UNCHANGED <<transcript, run, queue, active, last, retryAttempt, overflowTried,
                   pendingBash, controls, manual, used, streak, badContinue>>

-----------------------------------------------------------------------------
(* Automatic compaction: _runAutoCompaction. *)

Compaction(keep) == [kind |-> "compaction", n |-> used.messages + 1, keep |-> keep]

(* appendCompaction, and the live context rebuilt from the branch. *)
Commit(keep) ==
    /\ used.compactions < MaxCompactions
    /\ entries' = Append(entries, Compaction(keep))
    /\ live' = buildSessionContext(entries')
    /\ used' = [used EXCEPT !.messages = @ + 1, !.compactions = @ + 1]

(* Return without compacting: go on with the prompt, or with the queue. *)
AutoFails(c) ==
    IF caller[c].why = "pre"
    THEN Goto(c, "start") /\ UNCHANGED <<run, queue, badContinue>>
    ELSE Finish(c)

AutoPrepare(c) ==
    /\ At(c, "cauth")
    /\ \/ /\ autoCtl' = "none"        \* nothing to compact, or the request fails
          /\ AutoFails(c)
       \/ \E i \in CutPoints(entries) :
             /\ autoCtl' = "set"
             /\ caller' = [caller EXCEPT ![c] = [@ EXCEPT !.pc = "csum",
                                                          !.keep = entries[i].n]]
             /\ UNCHANGED <<run, queue, badContinue>>
    /\ UNCHANGED <<transcript, session, retryCtl, compactCtl, manual, used, streak>>

(* The summary fails, is cancelled, or finds its controller aborted or gone. *)
AutoSummaryFails(c) ==
    /\ At(c, "csum")
    /\ autoCtl' = "none"
    /\ AutoFails(c)
    /\ UNCHANGED <<transcript, session, retryCtl, compactCtl, manual, used, streak>>

AutoCommit(c) ==
    /\ At(c, "csum") /\ autoCtl = "set"
    /\ Commit(caller[c].keep)
    /\ Goto(c, "cemit")
    /\ UNCHANGED <<unsaved, run, queue, session, controls, manual, streak, badContinue>>

(* After session_compact: drop the failed response and retry, or continue. *)
AutoDone(c) ==
    LET failed == caller[c].retry /\ Last(live).kind \in Failed
        ctx == IF failed THEN Front(live) ELSE live
    IN
    /\ At(c, "cemit")
    /\ autoCtl' = "none"
    /\ live' = ctx
    /\ IF caller[c].why = "pre"
       THEN Goto(c, "start") /\ UNCHANGED <<run, queue, badContinue>>
       ELSE IF caller[c].retry \/ queue > 0 THEN ContinueRun(c, ctx)
       ELSE Goto(c, "settle") /\ UNCHANGED <<run, queue, badContinue>>
    /\ UNCHANGED <<entries, unsaved, session, retryCtl, compactCtl, manual, used, streak>>

-----------------------------------------------------------------------------
(* abort(), compact(), abortCompaction(), and what arrives meanwhile. *)

AbortRun ==
    /\ retryCtl' = IF retryCtl = "set" THEN "aborted" ELSE retryCtl
    /\ run' = IF run = NoRun THEN run ELSE [run EXCEPT !.aborted = TRUE]

Abort ==
    /\ used.requests < MaxRequests /\ "abort" \notin waiters
    /\ Use("requests")
    /\ AbortRun
    /\ waiters' = IF active THEN waiters \cup {"abort"} ELSE waiters
    /\ UNCHANGED <<transcript, queue, active, last, retryAttempt, overflowTried, pendingBash,
                   autoCtl, compactCtl, caller, manual, streak, badContinue>>

Compact ==
    /\ manual.pc = "idle" /\ used.requests < MaxRequests
    /\ Use("requests")
    /\ AbortRun
    /\ waiters' = IF active THEN waiters \cup {"compact"} ELSE waiters
    /\ manual' = [manual EXCEPT !.pc = "wait"]
    /\ UNCHANGED <<transcript, queue, active, last, retryAttempt, overflowTried, pendingBash,
                   autoCtl, compactCtl, caller, streak, badContinue>>

CompactBegin ==
    /\ manual.pc = "wait" /\ "compact" \notin waiters
    /\ compactCtl' = "set"
    /\ manual' = [manual EXCEPT !.pc = "auth"]
    /\ UNCHANGED <<transcript, run, queue, session, retryCtl, autoCtl, caller, used,
                   streak, badContinue>>

CompactPrepare ==
    /\ manual.pc = "auth"
    /\ \E i \in CutPoints(entries) : manual' = [pc |-> "summarize", keep |-> entries[i].n]
    /\ UNCHANGED <<transcript, run, queue, session, controls, caller, used,
                   streak, badContinue>>

(* Nothing to compact, a failed or cancelled summary, or the end of compact(). *)
CompactEnds ==
    /\ manual.pc \in {"auth", "summarize", "emit"}
    /\ compactCtl' = "none"
    /\ manual' = [pc |-> "idle", keep |-> 0]
    /\ UNCHANGED <<transcript, run, queue, session, retryCtl, autoCtl, caller, used,
                   streak, badContinue>>

CompactCommit ==
    /\ manual.pc = "summarize" /\ compactCtl = "set"
    /\ Commit(manual.keep)
    /\ manual' = [manual EXCEPT !.pc = "emit"]
    /\ UNCHANGED <<unsaved, run, queue, session, controls, caller, streak, badContinue>>

AbortCompaction ==
    /\ used.requests < MaxRequests /\ "set" \in {autoCtl, compactCtl}
    /\ Use("requests")
    /\ autoCtl' = IF autoCtl = "set" THEN "aborted" ELSE autoCtl
    /\ compactCtl' = IF compactCtl = "set" THEN "aborted" ELSE compactCtl
    /\ UNCHANGED <<transcript, run, queue, session, retryCtl, caller, manual,
                   streak, badContinue>>

(* steer() and followUp(), streaming or not, and clearQueue(). *)
Queue ==
    /\ used.requests < MaxRequests
    /\ Use("requests") /\ queue' = queue + 1
    /\ UNCHANGED <<transcript, run, session, controls, caller, manual, streak, badContinue>>

ClearQueue ==
    /\ queue > 0 /\ queue' = 0
    /\ UNCHANGED <<transcript, run, session, controls, caller, manual, used, streak,
                   badContinue>>

(* recordBashResult: at once when idle, deferred while streaming. *)
Mutant_BashAtOnce == FALSE
DefersBash == active
RecordBash ==
    /\ used.requests < MaxRequests
    /\ used' = [used EXCEPT !.messages = @ + 1, !.requests = @ + 1]
    /\ IF DefersBash
       THEN /\ pendingBash' = Append(pendingBash, Msg("bash"))
            /\ UNCHANGED <<live, entries>>
       ELSE /\ live' = Append(live, Msg("bash"))
            /\ entries' = Append(entries, Msg("bash"))
            /\ UNCHANGED pendingBash
    /\ UNCHANGED <<unsaved, run, queue, active, waiters, last, retryAttempt, overflowTried,
                   controls, caller, manual, streak, badContinue>>

-----------------------------------------------------------------------------
(* The specification. *)

(* Calls past their own check that nothing else is under way. *)
Busy == {c \in Callers : caller[c].pc \notin {"idle", "input"}}
        \cup (IF manual.pc \in {"idle", "wait"} THEN {} ELSE {"manual"})

AgentStep == \/ RunPrompt \/ RunDrain \/ RunTools \/ RunStops \/ RunEnds \/ Persist
             \/ \E k \in Answers : RunRespond(k)
CallerStep(c) ==
    \/ Submit(c) \/ Preflight(c) \/ Start(c) \/ Launch(c) \/ PostRun(c)
    \/ BackoffOver(c) \/ CheckCompaction(c) \/ Settle(c) \/ Settled(c)
    \/ AutoPrepare(c) \/ AutoSummaryFails(c) \/ AutoCommit(c) \/ AutoDone(c)
CompactStep == CompactBegin \/ CompactPrepare \/ CompactEnds \/ CompactCommit
Request == \/ \E c \in Callers : Prompt(c)
           \/ Abort \/ Compact \/ AbortCompaction \/ Queue \/ ClearQueue \/ RecordBash

(* History: whether two such calls were ever in progress together. *)
Observe == overlap' = (overlap \/ Cardinality(Busy') > 1)

Next ==
    /\ overlap => Overlaps
    /\ \/ AgentStep
       \/ \E c \in Callers : CallerStep(c)
       \/ CompactStep
       \/ Request
    /\ Observe

Spec == Init /\ [][Next]_vars

-----------------------------------------------------------------------------
(* Properties. *)

(* A run gives up: since the last success, abort or user message, at most  *)
(* one compact-and-retry attempt was made (_checkCompaction), and the model *)
(* failed at most MaxRetries + 1 times before it and as often after it      *)
(* (_prepareRetry), in whatever order transient errors, overflows and       *)
(* truncated answers come.                                                  *)
RetriesAreBounded ==
    ~ overlap =>
        /\ streak.recoveries <= 1
        /\ streak.failures <= (streak.recoveries + 1) * (MaxRetries + 1)

(* The messages that are no failed response, each once and in one order. *)
Lasting(s) == {i \in DOMAIN s : s[i].kind \notin Failed}
SameLasting(s, t) ==
    LET I == Lasting(s)
        J == Lasting(t)
    IN  /\ \A i \in I : \E j \in J : s[i] = t[j]
        /\ \A j \in J : \E i \in I : s[i] = t[j]
        /\ \A i \in I, j \in J : s[i] = t[j] =>
              \A k \in I, l \in J : s[k] = t[l] => (i < k <=> j < l)
Branch == buildSessionContext(entries) \o (IF unsaved = None THEN <<>> ELSE <<unsaved>>)

(* Leaving aside responses that failed, the agent's live context is what a  *)
(* reload of the branch would build (buildSessionContext), except for the   *)
(* message whose listeners still run: retries, compactions and deferred     *)
(* shell results neither lose nor repeat a message. Calls that overlap      *)
(* (two prompts, or a prompt and compact(), both past their own check that  *)
(* nothing else is under way) are excepted.                                 *)
LiveIsSessionContext == ~ overlap => SameLasting(live, Branch)

(* A shell result never comes between a tool call and its result            *)
(* (recordBashResult), and no compaction cut keeps a result without its     *)
(* call (findValidCutPoints), in the live context or in the branch.         *)
ToolResultsFollowCalls ==
    ~ overlap => \A s \in {live, buildSessionContext(entries)} : \A i \in DOMAIN s :
        /\ s[i].kind = "toolUse" /\ i < Len(s) => s[i + 1].kind = "toolResult"
        /\ s[i].kind = "toolResult" => i > 1 /\ s[i - 1].kind = "toolUse"

(* Overflow recovery removes the failed message and retries the turn:       *)
(* agent.continue() is never called from an assistant message with nothing  *)
(* queued, which throws.                                                    *)
ContinueIsValid == ~ overlap => ~ badContinue

(* While the session counts as running, or abort() or compact() wait for it *)
(* to settle, some call of prompt() is on its way to _emitAgentSettled, and *)
(* one that awaits the agent is the one whose run the agent executes: every *)
(* path through the post-run loop, thrown errors included, settles. And the *)
(* agent never runs while isIdle tells callers that it does not.            *)
SomeoneSettles ==
    /\ \A c \in Callers : At(c, "running") <=> run.by = c
    /\ active \/ waiters # {} => \E c \in Callers :
          \/ caller[c].pc \in {"sync", "running", "post", "backoff", "check",
                               "settle", "settling"}
          \/ caller[c].pc \in {"cauth", "csum", "cemit"} /\ caller[c].why = "post"
    /\ ~ overlap /\ run # NoRun => active

=============================================================================
