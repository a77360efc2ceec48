------------------------- MODULE AgentSessionProofs -------------------------
(***************************************************************************)
(* Proofs about AgentSession: what runs is settled, a run gives up, and    *)
(* the agent's live context follows the session's branch.                  *)
(***************************************************************************)
EXTENDS AgentSession, FiniteSetTheorems, WellFoundedInduction, TLAPS

-----------------------------------------------------------------------------
(* The inductive invariant *)

\* The counters, and the numbers that were given out.
UsedType == [messages : Nat, prompts : Nat, answers : Nat, compactions : Nat, requests : Nat]
NumberInv ==
    /\ used \in UsedType
    /\ \A i \in DOMAIN entries : entries[i].n <= used.messages
    /\ \A i \in DOMAIN pendingBash : pendingBash[i].n <= used.messages
    /\ unsaved.n <= used.messages

\* A summary under way keeps an entry that exists.
IsKept(n) == \E j \in DOMAIN entries : entries[j].n = n
KeepInv ==
    /\ \A c \in Callers : caller[c].pc = "csum" => IsKept(caller[c].keep)
    /\ manual.pc = "summarize" => IsKept(manual.keep)

\* So did every compaction of the branch; nothing else is one.
SummaryInv ==
    /\ \A i \in DOMAIN entries : entries[i].kind = "compaction" => IsKept(entries[i].keep)
    /\ unsaved.kind # "compaction"
    /\ \A i \in DOMAIN pendingBash : pendingBash[i].kind # "compaction"

\* The agent's run is that of the caller who awaits it.
TurnInv ==
    /\ \A c \in Callers : At(c, "running") <=> run.by = c
    /\ run = NoRun => unsaved = None

\* A caller on its way to _emitAgentSettled, and one that has reached it.
Driving(c) ==
    \/ caller[c].pc \in {"sync", "running", "post", "backoff", "check", "settle"}
    \/ caller[c].pc \in {"cauth", "csum", "cemit"} /\ caller[c].why = "post"
ActiveInv ==
    /\ active => \E c \in Callers : Driving(c)
    /\ waiters # {} => \E c \in Callers : Driving(c) \/ At(c, "settling")

\* Without an overlap one call at a time is under way, and the session is
\* active while it drives the agent.
AloneInv ==
    ~ overlap => /\ \A x, y \in Busy : x = y
                 /\ \A c \in Callers : Driving(c) => active

BaseInv == TypeOK /\ NumberInv /\ KeepInv /\ SummaryInv /\ TurnInv /\ ActiveInv /\ AloneInv

\* The failures that came before the recovery, and those that are left to the
\* retries after it.
Before == IF streak.recoveries = 0 THEN 0 ELSE MaxRetries + 1
Ready == streak.failures <= Before + retryAttempt
Fresh == streak.failures = 0
Answered(s) == IsAnswer(Last(s))

Bounded ==
    /\ streak.recoveries <= 1 /\ streak.failures <= Before + MaxRetries + 1
    /\ streak.recoveries # 0 => overflowTried

\* A failure that has not been looked at is one more than the retries made.
ErrorInv ==
    /\ {last.kind, unsaved.kind} \cap Errors # {} => streak.failures <= Before + retryAttempt + 1
    /\ unsaved.kind \in Answers \ Failed => streak = NoStreak

\* The agent asks the model for an answer only while a failure is left.
RunInv ==
    /\ run.step \in {"respond", "next"} => Ready /\ ~ IsAnswer(unsaved)
    /\ run.step = "tools" => Fresh
    /\ run.step \in {"after", "end"} =>
         /\ Answered(live)
         /\ IF unsaved = None THEN Answered(entries) ELSE IsAnswer(unsaved)

\* So does the post-run loop, or a new user message comes first.
PostInv(c) ==
    /\ caller[c].pc = "post" => Answered(live) /\ Answered(entries)
    /\ caller[c].pc = "backoff" => Ready
    /\ caller[c].pc = "check" => Fresh \/ (Answered(live) /\ Answered(entries))
    /\ caller[c].pc \in {"cauth", "csum", "cemit"} /\ caller[c].why = "post" =>
         IF caller[c].retry THEN Ready
         ELSE Fresh \/ (Answered(live) /\ (caller[c].pc # "cemit" => Answered(entries)))

RetryInv == ~ overlap => Bounded /\ ErrorInv /\ RunInv /\ \A c \in Callers : PostInv(c)

IInv == BaseInv /\ RetryInv

-----------------------------------------------------------------------------
(* Messages and contexts *)

\* The message that stands for none.
LEMMA NoneIs == None \in Messages /\ ~ IsAnswer(None) /\ None.kind \notin Errors /\ None.n = 0
  BY DEF None, Messages, Kinds, IsAnswer, Answers, Failed, Errors

\* The end of a context that grew by a message.
LEMMA LastAppend ==
    ASSUME NEW s \in Seq(Messages), NEW m \in Messages
    PROVE  /\ Append(s, m) \in Seq(Messages) /\ Last(Append(s, m)) = m
           /\ \A i \in DOMAIN s : i \in DOMAIN Append(s, m) /\ Append(s, m)[i] = s[i]
           /\ \A i \in DOMAIN Append(s, m) : i \in DOMAIN s \/ Append(s, m)[i] = m
  <1>1. /\ Append(s, m) \in Seq(Messages) /\ Len(Append(s, m)) = Len(s) + 1 /\ Len(s) \in Nat
        /\ Append(s, m)[Len(s) + 1] = m /\ \A i \in 1..Len(s) : Append(s, m)[i] = s[i]
    OBVIOUS
  <1>2. DOMAIN s = 1..Len(s) /\ DOMAIN Append(s, m) = 1..(Len(s) + 1) /\ Append(s, m) # <<>>
    BY <1>1
  <1>3. Last(Append(s, m)) = m
    BY <1>1, <1>2 DEF Last
  <1>4. \A i \in 1..(Len(s) + 1) : i \in 1..Len(s) \/ i = Len(s) + 1
    BY <1>1
  <1>5. \A i \in 1..Len(s) : i \in 1..(Len(s) + 1)
    BY <1>1
  <1> QED
    BY <1>1, <1>2, <1>3, <1>4, <1>5

\* The end of a context.
LEMMA LastIs ==
    ASSUME NEW s \in Seq(Messages)
    PROVE  /\ Last(s) \in Messages
           /\ s # <<>> => Front(s) \in Seq(Messages)
           /\ Last(s) # None => s # <<>>
  <1>1. s # <<>> => Len(s) \in Nat \ {0} /\ s[Len(s)] \in Messages
    OBVIOUS
  <1>2. ASSUME s # <<>> PROVE Front(s) \in Seq(Messages)
    <2>1. Len(s) - 1 \in 0..Len(s) /\ \A i \in 1..(Len(s) - 1) : i \in 1..Len(s)
      BY <1>1, <1>2
    <2> QED
      BY <2>1 DEF Front
  <1> QED
    BY <1>1, <1>2, NoneIs DEF Last

\* The elements of two contexts.
LEMMA ConcatIs ==
    ASSUME NEW s \in Seq(Messages), NEW t \in Seq(Messages)
    PROVE  /\ s \o t \in Seq(Messages) /\ Len(s \o t) = Len(s) + Len(t) /\ Len(s) \in Nat /\ Len(t) \in Nat
           /\ \A i \in 1..(Len(s) + Len(t)) : (s \o t)[i] = IF i <= Len(s) THEN s[i] ELSE t[i - Len(s)]
  OBVIOUS

\* Two contexts.
LEMMA Concat ==
    ASSUME NEW s \in Seq(Messages), NEW t \in Seq(Messages)
    PROVE  /\ s \o t \in Seq(Messages)
           /\ \A i \in DOMAIN s : i \in DOMAIN (s \o t) /\ (s \o t)[i] = s[i]
           /\ \A i \in DOMAIN (s \o t) :
                (i \in DOMAIN s /\ (s \o t)[i] = s[i]) \/ \E k \in DOMAIN t : (s \o t)[i] = t[k]
  <1>1. PICK u : u = s \o t
    OBVIOUS
  <1>2. /\ u \in Seq(Messages) /\ Len(u) = Len(s) + Len(t) /\ Len(s) \in Nat /\ Len(t) \in Nat
        /\ \A i \in 1..(Len(s) + Len(t)) : u[i] = IF i <= Len(s) THEN s[i] ELSE t[i - Len(s)]
    BY <1>1
  <1>3. DOMAIN s = 1..Len(s) /\ DOMAIN t = 1..Len(t) /\ DOMAIN u = 1..(Len(s) + Len(t))
    BY <1>2
  <1>4. ASSUME NEW i \in 1..Len(s) PROVE i \in 1..(Len(s) + Len(t)) /\ u[i] = s[i]
    BY <1>2
  <1>5. ASSUME NEW i \in 1..(Len(s) + Len(t)), ~ (i <= Len(s)) PROVE i - Len(s) \in 1..Len(t) /\ u[i] = t[i - Len(s)]
    BY <1>2, <1>5
  <1>6. ASSUME NEW i \in 1..(Len(s) + Len(t)), i <= Len(s) PROVE i \in 1..Len(s) /\ u[i] = s[i]
    BY <1>2, <1>6
  <1> QED
    BY <1>1, <1>2, <1>3, <1>4, <1>5, <1>6

\* The context of a branch that a compaction ends: the summary, and what it
\* keeps up to the last entry before it.
LEMMA BuildIs ==
    ASSUME NEW s \in Seq(Messages), NEW m \in Messages, m.kind = "compaction",
           \E j \in DOMAIN s : s[j].n = m.keep, m.keep # m.n
    PROVE  /\ buildSessionContext(Append(s, m)) \in Seq(Messages)
           /\ Last(buildSessionContext(Append(s, m))) = Last(s)
  <1>1. PICK path, c : path = Append(s, m) /\ c = Len(s) + 1
    OBVIOUS
  <1>2. /\ path \in Seq(Messages) /\ Len(path) = c /\ c \in Nat \ {0} /\ path[c] = m
        /\ Len(s) \in Nat /\ \A i \in 1..Len(s) : path[i] = s[i]
    BY <1>1
  <1>3. DOMAIN path = 1..c /\ DOMAIN s = 1..Len(s) /\ \A i \in 1..c : i <= c
    BY <1>2
  <1>4. LatestCompaction(path) = c
    <2>1. PICK C : C = {i \in DOMAIN path : path[i].kind = "compaction"}
      OBVIOUS
    <2>2. c \in C /\ (\A j \in C : j <= c) /\ C \subseteq 1..c
      BY <1>2, <1>3, <2>1
    <2>3. \A i \in C : (\A j \in C : j <= i) => i = c
      BY <1>2, <2>2
    <2>4. (CHOOSE i \in C : \A j \in C : j <= i) = c
      BY <2>2, <2>3
    <2> QED
      BY <2>1, <2>2, <2>4 DEF LatestCompaction
  <1>5. PICK k : k = Kept(path, c)
    OBVIOUS
  <1>6. k \in 1..Len(s)
    <2>1. \E j \in DOMAIN path : path[j].n = path[c].keep
      BY <1>1, <1>2, <1>3
    <2>2. k \in DOMAIN path /\ path[k].n = path[c].keep
      BY <1>5, <2>1 DEF Kept
    <2>3. k # c
      BY <1>2, <2>2
    <2> QED
      BY <1>1, <1>2, <1>3, <2>2, <2>3
  <1>7. buildSessionContext(path) = <<path[c]>> \o SubSeq(path, k, c - 1) \o SubSeq(path, c + 1, Len(path))
    BY <1>2, <1>4, <1>5 DEF buildSessionContext
  <1>8. PICK a, b, e : a = <<path[c]>> /\ b = SubSeq(path, k, c - 1) /\ e = SubSeq(path, c + 1, Len(path))
    OBVIOUS
  <1>9. a \in Seq(Messages) /\ Len(a) = 1
    BY <1>2, <1>8
  <1>10. b \in Seq(Messages) /\ Len(b) = c - k /\ b[c - k] = path[c - 1]
    <2>1. k \in Nat /\ 1 <= k /\ k <= c - 1 /\ c - 1 \in Nat /\ c - 1 <= Len(path)
      BY <1>1, <1>2, <1>6
    <2> QED
      BY <1>2, <1>8, <2>1
  <1>11. e = <<>>
    BY <1>2, <1>8
  <1>12. (a \o b) \o e \in Seq(Messages) /\ (a \o b) \o e = a \o b
    BY <1>9, <1>10, <1>11
  <1>13. Len(a \o b) = 1 + (c - k) /\ (a \o b)[1 + (c - k)] = b[c - k] /\ a \o b \in Seq(Messages)
    <2>1. PICK n : n = c - k
      OBVIOUS
    <2>2. n \in Nat \ {0} /\ Len(b) = n
      BY <1>1, <1>2, <1>6, <1>10, <2>1
    <2>3. Len(a \o b) = 1 + n /\ (a \o b)[1 + n] = b[n]
      <3>1. 1 + n \in 1..(Len(a) + Len(b)) /\ ~ (1 + n <= Len(a)) /\ (1 + n) - Len(a) = n
        BY <1>9, <2>2
      <3>2. PICK u : u = a \o b
        OBVIOUS
      <3>3. /\ Len(u) = Len(a) + Len(b)
            /\ \A i \in 1..(Len(a) + Len(b)) : u[i] = IF i <= Len(a) THEN a[i] ELSE b[i - Len(a)]
        BY <1>9, <1>10, <3>2, ConcatIs
      <3>4. u[1 + n] = b[n]
        BY <3>1, <3>3
      <3> QED
        BY <1>9, <2>2, <3>2, <3>3, <3>4
    <2> QED
      BY <1>9, <1>10, <2>1, <2>3
  <1>14. Last(a \o b) = path[c - 1]
    BY <1>1, <1>2, <1>6, <1>10, <1>13 DEF Last
  <1>15. path[c - 1] = Last(s)
    BY <1>1, <1>2, <1>6 DEF Last
  <1> QED
    BY <1>1, <1>7, <1>8, <1>12, <1>13, <1>14, <1>15

-----------------------------------------------------------------------------
(* Steps and callers *)

CallType == [pc : CallerPCs, why : {"pre", "post"}, msg : Messages, retry : BOOLEAN, keep : Nat]
Moves(c) == caller' \in [Callers -> CallType] /\ \A d \in Callers \ {c} : caller'[d] = caller[d]

\* Two members of a set that has not two.
LEMMA NotTwo == ASSUME NEW S, IsFiniteSet(S), ~ (Cardinality(S) > 1), NEW x \in S, NEW y \in S PROVE x = y
  <1> SUFFICES ASSUME x # y PROVE FALSE
    OBVIOUS
  <1>1. IsFiniteSet({x}) /\ Cardinality({x}) = 1
    BY FS_Singleton
  <1>2. IsFiniteSet({x} \cup {y}) /\ Cardinality({x} \cup {y}) = 2
    <2>1. PICK T : T = {x}
      OBVIOUS
    <2>2. y \notin T /\ IsFiniteSet(T) /\ Cardinality(T) = 1
      BY <1>1, <2>1
    <2>3. IsFiniteSet(T \cup {y}) /\ Cardinality(T \cup {y}) = Cardinality(T) + 1
      BY <2>2, FS_AddElement
    <2> QED
      BY <2>1, <2>2, <2>3
  <1>3. Cardinality({x} \cup {y}) <= Cardinality(S) /\ Cardinality(S) \in Nat
    BY <1>2, FS_Subset, FS_CardinalityType
  <1> QED
    BY <1>2, <1>3

\* What Observe notes.
LEMMA ObserveIs ==
    ASSUME TypeOK, Observe
    PROVE  overlap' \in BOOLEAN /\ (~ overlap' => ~ overlap /\ \A x, y \in Busy' : x = y)
  <1>1. overlap' = (overlap \/ Cardinality(Busy') > 1)
    BY DEF Observe
  <1>2. IsFiniteSet(Busy')
    <2>1. IsFiniteSet(Callers \cup {"manual"})
      BY BoundsAssumption, FS_AddElement
    <2>2. Busy' \subseteq Callers \cup {"manual"}
      BY DEF Busy
    <2> QED
      BY <2>1, <2>2, FS_Subset
  <1> QED
    BY <1>1, <1>2, NotTwo

\* Who is busy.
LEMMA BusyIs ==
    /\ \A c \in Callers : caller[c].pc \notin {"idle", "input"} => c \in Busy
    /\ manual.pc \notin {"idle", "wait"} => "manual" \in Busy
    /\ "manual" \notin Callers /\ "none" \notin Callers
  BY BoundsAssumption DEF Busy

\* A step that leaves the callers where they are.
LEMMA CallersStay ==
    ASSUME BaseInv, Observe, UNCHANGED <<caller, active>>, run'.by = run.by, run' = NoRun => unsaved' = None,
           waiters' # {} => waiters # {} \/ active
    PROVE  TurnInv' /\ ActiveInv' /\ AloneInv'
  <1>0. TypeOK /\ TurnInv /\ ActiveInv /\ AloneInv
    BY DEF BaseInv
  <1>1. TurnInv'
    BY <1>0 DEF TurnInv, At
  <1>2. ActiveInv'
    BY <1>0 DEF ActiveInv, Driving, At
  <1>3. AloneInv'
    BY <1>0, ObserveIs DEF AloneInv, Driving
  <1> QED
    BY <1>1, <1>2, <1>3

\* A step of one caller that neither starts to drive the agent nor stops.
LEMMA CallerGoes ==
    ASSUME BaseInv, Observe, NEW c \in Callers, Moves(c), UNCHANGED <<active, waiters>>,
           Driving(c) <=> Driving(c)', caller[c].pc # "settling",
           caller'[c].pc = "running" <=> run'.by = c,
           \A d \in Callers \ {c} : run'.by = d <=> run.by = d,
           run' = NoRun => unsaved' = None
    PROVE  TurnInv' /\ ActiveInv' /\ AloneInv'
  <1>0. TypeOK /\ TurnInv /\ ActiveInv /\ AloneInv
    BY DEF BaseInv
  <1>1. \A d \in Callers \ {c} : caller'[d] = caller[d]
    BY DEF Moves
  <1>2. TurnInv'
    BY <1>0, <1>1 DEF TurnInv, At
  <1>3. \A d \in Callers : Driving(d) <=> Driving(d)'
    BY <1>1 DEF Driving
  <1>4. \A d \in Callers : At(d, "settling") => At(d, "settling")'
    BY <1>1 DEF At
  <1>5. ActiveInv'
    BY <1>0, <1>3, <1>4 DEF ActiveInv
  <1>6. AloneInv'
    BY <1>0, <1>3, ObserveIs DEF AloneInv
  <1> QED
    BY <1>2, <1>5, <1>6

\* The entries grow, and what is kept of them stays.
Grows == \A j \in DOMAIN entries : j \in DOMAIN entries' /\ entries'[j] = entries[j]
LEMMA KeepStays ==
    ASSUME KeepInv, Grows,
           \A c \in Callers : caller'[c].pc = "csum" =>
              (caller[c].pc = "csum" /\ caller'[c].keep = caller[c].keep) \/ IsKept(caller'[c].keep),
           manual'.pc = "summarize" =>
              (manual.pc = "summarize" /\ manual'.keep = manual.keep) \/ IsKept(manual'.keep)
    PROVE  KeepInv'
  <1>1. ASSUME NEW n, IsKept(n) PROVE \E j \in DOMAIN entries' : entries'[j].n = n
    BY <1>1 DEF Grows, IsKept
  <1>2. \A c \in Callers : caller'[c].pc = "csum" => \E j \in DOMAIN entries' : entries'[j].n = caller'[c].keep
    BY <1>1 DEF KeepInv
  <1>3. manual'.pc = "summarize" => \E j \in DOMAIN entries' : entries'[j].n = manual'.keep
    BY <1>1 DEF KeepInv
  <1> QED
    BY <1>2, <1>3 DEF KeepInv, IsKept

\* So do the compactions.
LEMMA SummariesStay ==
    ASSUME SummaryInv, Grows,
           \A i \in DOMAIN entries' : \/ i \in DOMAIN entries \/ entries'[i].kind # "compaction"
                                      \/ IsKept(entries'[i].keep),
           unsaved'.kind # "compaction", \A i \in DOMAIN pendingBash' : pendingBash'[i].kind # "compaction"
    PROVE  SummaryInv'
  <1>1. ASSUME NEW n, IsKept(n) PROVE \E j \in DOMAIN entries' : entries'[j].n = n
    BY <1>1 DEF Grows, IsKept
  <1>2. ASSUME NEW i \in DOMAIN entries', entries'[i].kind = "compaction" PROVE IsKept(entries'[i].keep)
    BY <1>2 DEF SummaryInv, Grows
  <1>3. \A i \in DOMAIN entries' : entries'[i].kind = "compaction" => \E j \in DOMAIN entries' : entries'[j].n = entries'[i].keep
    BY <1>1, <1>2
  <1> QED
    BY <1>3 DEF SummaryInv, IsKept

\* A new message.
LEMMA MsgIs ==
    ASSUME NumberInv, NEW k \in Kinds
    PROVE  Msg(k) \in Messages /\ Msg(k).kind = k /\ Msg(k).n = used.messages + 1 /\ used.messages \in Nat
  BY DEF Msg, Messages, NumberInv, UsedType

-----------------------------------------------------------------------------
(* The agent's run *)

RunSteps == {"user", "respond", "tools", "next", "after", "end"}
StreakType == [failures : Nat, recoveries : Nat]

\* A run that moves on is the same caller's.
LEMMA RunIs ==
    ASSUME TypeOK, run.step \in RunSteps, NEW step \in RunSteps, run' = [run EXCEPT !.step = step]
    PROVE  run \in Runs /\ run' \in Runs /\ run'.by = run.by /\ run'.step = step /\ run' # NoRun
  <1>1. run # NoRun
    BY DEF NoRun, RunSteps
  <1>2. run \in Runs
    BY <1>1 DEF TypeOK
  <1>3. run' \in Runs /\ run'.by = run.by /\ run'.step = step
    BY <1>2 DEF Runs, RunSteps
  <1>4. run'.step # NoRun.step
    BY <1>3 DEF NoRun, RunSteps
  <1> QED
    BY <1>2, <1>3, <1>4

\* A message of the run enters the live context.
LEMMA EmitBase ==
    ASSUME BaseInv, Observe, NEW k \in Kinds \ {"compaction"}, NEW step \in RunSteps, run.step \in RunSteps, Emit(Msg(k), step),
           used' \in UsedType, used'.messages = used.messages + 1,
           queue' \in Nat, overflowTried' \in BOOLEAN, streak' \in StreakType
    PROVE  BaseInv'
  <1>0. TypeOK /\ NumberInv /\ KeepInv /\ SummaryInv
    BY DEF BaseInv
  <1>1. PICK m : m = Msg(k)
    OBVIOUS
  <1>2. m \in Messages /\ m.kind # "compaction" /\ m.n = used.messages + 1 /\ used.messages \in Nat
    BY <1>0, <1>1, MsgIs
  <1>3. /\ live' = Append(live, m) /\ unsaved' = m /\ run' = [run EXCEPT !.step = step]
        /\ UNCHANGED <<entries, active, waiters, last, retryAttempt, pendingBash, retryCtl, autoCtl, compactCtl,
                       caller, manual, badContinue>>
    BY <1>1 DEF Emit, controls
  <1>4. run' \in Runs /\ run'.by = run.by /\ run' # NoRun
    BY <1>0, <1>3, RunIs
  <1>5. live' \in Seq(Messages)
    BY <1>0, <1>2, <1>3 DEF TypeOK
  <1>6. overlap' \in BOOLEAN
    BY <1>0, ObserveIs
  <1>7. TypeOK'
    BY <1>0, <1>2, <1>3, <1>4, <1>5, <1>6 DEF TypeOK, StreakType
  <1>8. NumberInv'
    <2>1. \A i \in DOMAIN entries : entries[i].n <= used.messages + 1
      <3>1. \A i \in DOMAIN entries : entries[i] \in Messages
        BY <1>0 DEF TypeOK
      <3> QED
        BY <1>0, <1>2, <3>1 DEF NumberInv, Messages
    <2>2. \A i \in DOMAIN pendingBash : pendingBash[i].n <= used.messages + 1
      <3>1. \A i \in DOMAIN pendingBash : pendingBash[i] \in Messages
        BY <1>0 DEF TypeOK
      <3> QED
        BY <1>0, <1>2, <3>1 DEF NumberInv, Messages
    <2> QED
      BY <1>2, <1>3, <2>1, <2>2 DEF NumberInv
  <1>9. KeepInv'
    BY <1>0, <1>3, KeepStays DEF Grows
  <1>10. TurnInv' /\ ActiveInv' /\ AloneInv'
    BY <1>3, <1>4, CallersStay
  <1>11. SummaryInv'
    BY <1>0, <1>2, <1>3, SummariesStay DEF Grows, SummaryInv
  <1> QED
    BY <1>7, <1>8, <1>9, <1>10, <1>11 DEF BaseInv

\* The steps of the run.
LEMMA RunBase == ASSUME BaseInv, Observe, AgentStep PROVE BaseInv'
  <1>0. TypeOK /\ NumberInv /\ KeepInv /\ SummaryInv /\ TurnInv
    BY DEF BaseInv
  <1>1. NoStreak \in StreakType /\ streak \in StreakType /\ used \in UsedType /\ queue \in Nat /\ overflowTried \in BOOLEAN
    BY <1>0 DEF NoStreak, StreakType, TypeOK, NumberInv
  <1>2. ASSUME NEW step \in RunSteps, run.step \in RunSteps, UserMessage(step), queue' \in Nat PROVE BaseInv'
    <2>1. /\ Emit(Msg("user"), step) /\ overflowTried' = FALSE /\ streak' = NoStreak
          /\ used' = [used EXCEPT !.messages = @ + 1]
      BY <1>2 DEF UserMessage
    <2>2. used' \in UsedType /\ used'.messages = used.messages + 1
      BY <1>1, <2>1 DEF UsedType
    <2>3. overflowTried' \in BOOLEAN /\ streak' \in StreakType /\ "user" \in Kinds \ {"compaction"}
      BY <1>1, <2>1 DEF Kinds
    <2> QED
      BY <1>2, <2>1, <2>2, <2>3, EmitBase
  <1>3. CASE RunPrompt
    <2>1. run.step \in RunSteps /\ "next" \in RunSteps /\ UserMessage("next") /\ queue' \in Nat
      BY <1>1, <1>3 DEF RunPrompt, RunSteps
    <2> QED
      BY <1>2, <2>1
  <1>4. CASE RunDrain
    <2>1. run.step \in RunSteps /\ "respond" \in RunSteps /\ UserMessage("respond") /\ queue' = queue - 1 /\ queue > 0
      BY <1>4 DEF RunDrain, RunSteps
    <2>2. queue' \in Nat
      BY <1>1, <2>1
    <2> QED
      BY <1>2, <2>1, <2>2
  <1>5. ASSUME NEW k \in Answers, RunRespond(k) PROVE BaseInv'
    <2>1. PICK step \in RunSteps : Emit(Msg(k), step)
      BY <1>5 DEF RunRespond, RunSteps
    <2>2. /\ run.step \in RunSteps /\ UNCHANGED <<queue, overflowTried>>
          /\ used' = [used EXCEPT !.messages = @ + 1, !.answers = @ + (IF k = "stop" THEN 0 ELSE 1)]
          /\ streak' = IF k \in Failed THEN [streak EXCEPT !.failures = @ + 1] ELSE NoStreak
      BY <1>5 DEF RunRespond, RunSteps
    <2>3. used' \in UsedType /\ used'.messages = used.messages + 1
      <3>1. PICK d : d = (IF k = "stop" THEN 0 ELSE 1)
        OBVIOUS
      <3>2. used.answers + d \in Nat
        BY <1>1, <3>1 DEF UsedType
      <3>3. used' = [used EXCEPT !.messages = @ + 1, !.answers = @ + d]
        BY <2>2, <3>1
      <3>4. used.messages + 1 \in Nat
        BY <1>1 DEF UsedType
      <3>5. \A a, b \in Nat : LET u == [used EXCEPT !.messages = a, !.answers = b]
                              IN  u \in UsedType /\ u.messages = a
        BY <1>1 DEF UsedType
      <3>6. used' = [used EXCEPT !.messages = used.messages + 1, !.answers = used.answers + d]
        BY <3>3
      <3> QED
        BY <3>2, <3>4, <3>5, <3>6
    <2>4. streak' \in StreakType
      BY <1>1, <2>2 DEF StreakType
    <2>5. k \in Kinds \ {"compaction"}
      BY DEF Kinds, Answers, Failed, Errors
    <2> QED
      BY <1>1, <2>1, <2>2, <2>3, <2>4, <2>5, EmitBase
  <1>6. CASE RunTools
    <2>1. /\ run.step \in RunSteps /\ Emit(Msg("toolResult"), "next") /\ UNCHANGED <<queue, overflowTried, streak>>
          /\ used' = [used EXCEPT !.messages = @ + 1]
      BY <1>6 DEF RunTools, RunSteps
    <2>2. used' \in UsedType /\ used'.messages = used.messages + 1
      BY <1>1, <2>1 DEF UsedType
    <2>3. "toolResult" \in Kinds \ {"compaction"} /\ "next" \in RunSteps
      BY DEF Kinds, RunSteps
    <2> QED
      BY <1>1, <2>1, <2>2, <2>3, EmitBase
  <1>7. CASE RunStops
    <2>1. /\ run.step \in RunSteps /\ "end" \in RunSteps /\ run' = [run EXCEPT !.step = "end"]
          /\ UNCHANGED <<entries, live, unsaved, queue, active, waiters, last, retryAttempt, overflowTried,
                         pendingBash, retryCtl, autoCtl, compactCtl, caller, manual, used, streak, badContinue>>
      BY <1>7 DEF RunStops, RunSteps, transcript, session, controls
    <2>2. run' \in Runs /\ run'.by = run.by /\ run' # NoRun
      BY <1>0, <2>1, RunIs
    <2>3. overlap' \in BOOLEAN
      BY <1>0, ObserveIs
    <2>4. TypeOK'
      BY <1>0, <2>1, <2>2, <2>3 DEF TypeOK
    <2>5. NumberInv'
      BY <1>0, <2>1 DEF NumberInv
    <2>6. KeepInv'
      BY <1>0, <2>1, KeepStays DEF Grows
    <2>7. TurnInv' /\ ActiveInv' /\ AloneInv'
      BY <2>1, <2>2, CallersStay
    <2>8. SummaryInv'
      BY <1>0, <2>1, SummariesStay DEF Grows, SummaryInv
    <2> QED
      BY <2>4, <2>5, <2>6, <2>7, <2>8 DEF BaseInv
  <1>8. CASE RunEnds
    <2>1. /\ run.step = "end" /\ unsaved = None /\ Goto(run.by, "post") /\ run' = NoRun
          /\ UNCHANGED <<entries, live, unsaved, queue, active, waiters, last, retryAttempt, overflowTried,
                         pendingBash, retryCtl, autoCtl, compactCtl, manual, used, streak, badContinue>>
      BY <1>8 DEF RunEnds, transcript, session, controls
    <2>2. run # NoRun
      BY <2>1 DEF NoRun
    <2>3. run \in Runs /\ run.by \in Callers
      BY <1>0, <2>2 DEF TypeOK, Runs
    <2>4. PICK c \in Callers : c = run.by
      BY <2>3
    <2>5. caller \in [Callers -> CallType]
      BY <1>0 DEF TypeOK, CallType
    <2>6. /\ Moves(c) /\ caller'[c].pc = "post" /\ caller'[c].keep = caller[c].keep
      BY <2>1, <2>4, <2>5 DEF Goto, Moves, CallType, CallerPCs
    <2>7. caller[c].pc = "running"
      BY <1>0, <2>4 DEF TurnInv, At
    <2>8. overlap' \in BOOLEAN
      BY <1>0, ObserveIs
    <2>9. TypeOK'
      BY <1>0, <2>1, <2>6, <2>8 DEF TypeOK, Moves, CallType
    <2>10. NumberInv'
      BY <1>0, <2>1 DEF NumberInv
    <2>11. KeepInv'
      BY <1>0, <2>1, <2>6, KeepStays DEF Grows, Moves
    <2>12. TurnInv' /\ ActiveInv' /\ AloneInv'
      <3>1. run'.by = "none" /\ "none" \notin Callers
        BY <2>1, BoundsAssumption DEF NoRun
      <3>2. Driving(c) /\ Driving(c)'
        BY <2>6, <2>7 DEF Driving
      <3> QED
        BY <2>1, <2>4, <2>6, <2>7, <3>1, <3>2, CallerGoes
    <2>13. SummaryInv'
      BY <1>0, <2>1, SummariesStay DEF Grows, SummaryInv
    <2> QED
      BY <2>9, <2>10, <2>11, <2>12, <2>13 DEF BaseInv
  <1>9. CASE Persist
    <2>1. /\ unsaved # None /\ unsaved' = None /\ entries' = Append(entries, unsaved)
          /\ last' \in {unsaved, last} /\ overflowTried' = (overflowTried /\ ~ EndsRecovery(unsaved))
          /\ retryAttempt' \in {0, retryAttempt}
          /\ UNCHANGED <<live, run, queue, active, waiters, pendingBash, retryCtl, autoCtl, compactCtl, caller,
                         manual, used, streak, badContinue>>
      BY <1>9 DEF Persist, controls
    <2>2. entries \in Seq(Messages) /\ unsaved \in Messages
      BY <1>0 DEF TypeOK
    <2>3. /\ entries' \in Seq(Messages) /\ Grows
          /\ \A i \in DOMAIN entries' : i \in DOMAIN entries \/ entries'[i] = unsaved
      BY <2>1, <2>2, LastAppend DEF Grows
    <2>4. overflowTried' \in BOOLEAN
      BY <2>1
    <2>5. retryAttempt' \in 0..MaxRetries /\ last' \in Messages
      BY <1>0, <2>1, <2>2, BoundsAssumption DEF TypeOK
    <2>6. overlap' \in BOOLEAN
      BY <1>0, ObserveIs
    <2>7. TypeOK'
      BY <1>0, <2>1, <2>3, <2>4, <2>5, <2>6, NoneIs DEF TypeOK
    <2>8. NumberInv'
      <3>1. 0 <= used.messages
        BY <1>1 DEF UsedType
      <3> QED
        BY <1>0, <2>1, <2>3, <3>1, NoneIs DEF NumberInv, Grows
    <2>9. KeepInv'
      BY <1>0, <2>1, <2>3, KeepStays
    <2>10. TurnInv' /\ ActiveInv' /\ AloneInv'
      BY <2>1, CallersStay
    <2>11. SummaryInv'
      BY <1>0, <2>1, <2>3, SummariesStay DEF SummaryInv, None
    <2> QED
      BY <2>7, <2>8, <2>9, <2>10, <2>11 DEF BaseInv
  <1> QED
    BY <1>3, <1>4, <1>5, <1>6, <1>7, <1>8, <1>9 DEF AgentStep

-----------------------------------------------------------------------------
(* The calls of prompt() *)

\* The state beside the transcript, the calls and the counters.
RestType ==
    /\ run \in Runs \cup {NoRun} /\ queue \in Nat
    /\ active \in BOOLEAN /\ waiters \subseteq {"abort", "compact"}
    /\ last \in Messages /\ retryAttempt \in 0..MaxRetries /\ overflowTried \in BOOLEAN
    /\ retryCtl \in Controls /\ autoCtl \in Controls /\ compactCtl \in Controls
    /\ badContinue \in BOOLEAN /\ streak \in StreakType

\* What a step of c does to the run: the run is c's when c awaits it.
Turns(c) ==
    /\ caller'[c].pc = "running" <=> run'.by = c
    /\ \A d \in Callers \ {c} : run'.by = d <=> run.by = d
    /\ run' = NoRun => run = NoRun

\* A caller who goes on.
LEMMA GotoIs ==
    ASSUME TypeOK, NEW c \in Callers, NEW label \in CallerPCs, Goto(c, label)
    PROVE  /\ Moves(c) /\ caller'[c].pc = label /\ caller'[c].why = caller[c].why
           /\ caller'[c].retry = caller[c].retry /\ caller'[c].keep = caller[c].keep
           /\ caller'[c].msg = caller[c].msg
  <1>1. caller \in [Callers -> CallType]
    BY DEF TypeOK, CallType
  <1> QED
    BY <1>1 DEF Goto, Moves, CallType

\* A caller who leaves the run alone.
LEMMA RunStays ==
    ASSUME TurnInv, NEW c \in Callers, caller[c].pc # "running", caller'[c].pc # "running", run' = run
    PROVE  Turns(c)
  BY DEF TurnInv, Turns, At

\* agent.continue(), which throws or gives c a run.
LEMMA ContinueIs ==
    ASSUME TypeOK, TurnInv, NEW c \in Callers, caller[c].pc # "running", NEW ctx, ContinueRun(c, ctx)
    PROVE  /\ Moves(c) /\ Turns(c) /\ caller'[c].pc \in {"running", "settle"}
           /\ run' \in Runs \cup {NoRun} /\ queue' \in Nat /\ badContinue' \in BOOLEAN
  <1> DEFINE ok == run = NoRun /\ ctx # <<>> /\ (IsAnswer(Last(ctx)) => queue > 0)
             fromQueue == IsAnswer(Last(ctx)) /\ queue > 0
             next == IF fromQueue THEN "user" ELSE "next"
  <1>1. (ok => run = NoRun) /\ (fromQueue => queue > 0) /\ next \in {"user", "next"}
    OBVIOUS
  <1>2. /\ run' = IF ok THEN [by |-> c, step |-> next, aborted |-> FALSE] ELSE run
        /\ queue' = IF ok /\ fromQueue THEN queue - 1 ELSE queue
        /\ badContinue' = (badContinue \/ (run = NoRun /\ ~ ok))
        /\ Goto(c, IF ok THEN "running" ELSE "settle")
    BY DEF ContinueRun
  <1> HIDE DEF ok, fromQueue, next
  <1>3. queue \in Nat /\ queue' \in Nat
    BY <1>1, <1>2 DEF TypeOK
  <1>4. badContinue' \in BOOLEAN
    BY <1>2
  <1>5. CASE ok
    <2>1. Goto(c, "running") /\ "running" \in CallerPCs /\ run' = [by |-> c, step |-> next, aborted |-> FALSE] /\ next \in RunSteps
      BY <1>1, <1>2, <1>5 DEF CallerPCs, RunSteps
    <2>2. Moves(c) /\ caller'[c].pc = "running"
      BY <2>1, GotoIs
    <2>3. run' \in Runs /\ run'.by = c
      BY <2>1 DEF Runs, RunSteps
    <2>4. run = NoRun /\ run.by = "none" /\ "none" \notin Callers /\ NoRun.by = "none"
      BY <1>1, <1>5, BoundsAssumption DEF NoRun
    <2>5. run' # NoRun
      BY <2>3, <2>4
    <2> QED
      BY <1>3, <1>4, <2>2, <2>3, <2>4, <2>5 DEF Turns
  <1>6. CASE ~ ok
    <2>1. Goto(c, "settle") /\ "settle" \in CallerPCs /\ run' = run
      BY <1>2, <1>6 DEF CallerPCs
    <2>2. Moves(c) /\ caller'[c].pc = "settle"
      BY <2>1, GotoIs
    <2>3. Turns(c)
      BY <2>1, <2>2, RunStays
    <2>4. run' \in Runs \cup {NoRun}
      BY <2>1 DEF TypeOK
    <2> QED
      BY <1>3, <1>4, <2>2, <2>3, <2>4
  <1> QED
    BY <1>5, <1>6

\* The post-run loop goes on with the queue, or ends.
LEMMA FinishIs ==
    ASSUME TypeOK, TurnInv, NEW c \in Callers, caller[c].pc # "running", Finish(c)
    PROVE  /\ Moves(c) /\ Turns(c) /\ caller'[c].pc \in {"running", "settle"}
           /\ run' \in Runs \cup {NoRun} /\ queue' \in Nat /\ badContinue' \in BOOLEAN
  <1>1. CASE queue > 0
    <2>1. ContinueRun(c, live)
      BY <1>1 DEF Finish
    <2> QED
      BY <2>1, ContinueIs
  <1>2. CASE ~ (queue > 0)
    <2>1. Goto(c, "settle") /\ UNCHANGED <<run, queue, badContinue>> /\ "settle" \in CallerPCs
      BY <1>2 DEF Finish, CallerPCs
    <2>2. Moves(c) /\ caller'[c].pc = "settle"
      BY <2>1, GotoIs
    <2>3. Turns(c)
      BY <2>1, <2>2, RunStays
    <2> QED
      BY <2>1, <2>2, <2>3 DEF TypeOK
  <1> QED
    BY <1>1, <1>2

\* A step of c that writes neither the branch nor the calls of the others.
LEMMA QuietBase ==
    ASSUME BaseInv, Observe, NEW c \in Callers, Moves(c), RestType', live' \in Seq(Messages),
           UNCHANGED <<entries, pendingBash, unsaved, manual>>,
           used' \in UsedType, used'.messages = used.messages,
           caller'[c].pc = "csum" => IsKept(caller'[c].keep),
           TurnInv', ActiveInv', AloneInv'
    PROVE  BaseInv'
  <1>0. TypeOK /\ NumberInv /\ KeepInv /\ SummaryInv
    BY DEF BaseInv
  <1>1. overlap' \in BOOLEAN
    BY <1>0, ObserveIs
  <1>2. TypeOK'
    BY <1>0, <1>1 DEF TypeOK, RestType, Moves, CallType, StreakType
  <1>3. NumberInv'
    BY <1>0 DEF NumberInv
  <1>4. KeepInv'
    <2>1. \A d \in Callers : caller'[d].pc = "csum" =>
              (caller[d].pc = "csum" /\ caller'[d].keep = caller[d].keep) \/ IsKept(caller'[d].keep)
      BY DEF Moves
    <2> QED
      BY <1>0, <2>1, KeepStays DEF Grows
  <1>5. SummaryInv'
    BY <1>0, SummariesStay DEF Grows, SummaryInv
  <1> QED
    BY <1>2, <1>3, <1>4, <1>5 DEF BaseInv

\* The same, for a step that keeps driving the agent, or does not drive it.
LEMMA GoesBase ==
    ASSUME BaseInv, Observe, NEW c \in Callers, Moves(c), RestType', live' \in Seq(Messages),
           UNCHANGED <<entries, pendingBash, unsaved, manual, active, waiters>>,
           used' \in UsedType, used'.messages = used.messages,
           caller'[c].pc = "csum" => IsKept(caller'[c].keep),
           Driving(c) <=> Driving(c)', caller[c].pc # "settling", Turns(c)
    PROVE  BaseInv'
  <1>1. run' = NoRun => unsaved' = None
    BY DEF Turns, BaseInv, TurnInv
  <1>2. TurnInv' /\ ActiveInv' /\ AloneInv'
    BY <1>1, CallerGoes DEF Turns
  <1> QED
    BY <1>2, QuietBase

\* The last compaction.
LEMMA LatestIs ==
    ASSUME NEW s \in Seq(Messages), NEW c, c = LatestCompaction(s)
    PROVE  /\ \A i \in DOMAIN s : s[i].kind = "compaction" => c \in DOMAIN s
           /\ c # 0 => /\ c \in DOMAIN s /\ s[c].kind = "compaction"
                       /\ \A i \in DOMAIN s : s[i].kind = "compaction" => i <= c
  <1>1. PICK C : C = {i \in DOMAIN s : s[i].kind = "compaction"}
    OBVIOUS
  <1>2. c = IF C = {} THEN 0 ELSE CHOOSE i \in C : \A j \in C : j <= i
    BY <1>1 DEF LatestCompaction
  <1>3. CASE C = {}
    BY <1>1, <1>2, <1>3
  <1>4. CASE C # {}
    <2>1. PICK n \in Nat : n = Len(s) /\ DOMAIN s = 1..n
      OBVIOUS
    <2>2. C \subseteq 1..n
      BY <1>1, <2>1
    <2>3. PICK D : D = {n - k : k \in C}
      OBVIOUS
    <2>4. D \subseteq Nat /\ D # {}
      <3>1. \A k \in C : n - k \in Nat
        BY <2>2
      <3> QED
        BY <1>4, <2>3, <3>1
    <2>5. PICK R : R = {p \in Nat \X Nat : p[1] < p[2]}
      OBVIOUS
    <2>6. IsWellFoundedOn(R, Nat)
      BY <2>5, NatLessThanWellFounded DEF OpToRel
    <2>7. PICK d \in D : \A e \in D : ~ (<<e, d>> \in R)
      BY <2>4, <2>6, WFMin
    <2>8. d \in Nat /\ \A e \in D : e \in Nat /\ ~ (e < d)
      BY <2>4, <2>5, <2>7
    <2>9. PICK j \in C : d = n - j
      BY <2>3
    <2>10. \A k \in C : k \in Nat /\ ~ (n - k < n - j)
      <3>1. \A k \in C : n - k \in D
        BY <2>3
      <3> QED
        BY <2>2, <2>8, <2>9, <3>1
    <2>11. \A k \in C : k <= j
      BY <2>2, <2>10
    <2>12. c \in C /\ \A k \in C : k <= c
      BY <1>2, <1>4, <2>11
    <2> QED
      BY <1>1, <2>12
  <1> QED
    BY <1>3, <1>4

\* The entry that a cut keeps exists.
LEMMA CutIs == ASSUME TypeOK, SummaryInv, NEW i \in CutPoints(entries) PROVE i \in DOMAIN entries /\ IsKept(entries[i].n)
  <1>1. PICK C, c, start : /\ C = {j \in DOMAIN entries : entries[j].kind = "compaction"}
                           /\ c = LatestCompaction(entries)
                           /\ start = IF c = 0 THEN 1 ELSE Kept(entries, c)
    OBVIOUS
  <1>2. i \in start..Len(entries)
    BY <1>1 DEF CutPoints
  <1>3. entries \in Seq(Messages) /\ DOMAIN entries = 1..Len(entries) /\ Len(entries) \in Nat
    BY DEF TypeOK
  <1>4. c # 0 => c \in C
    BY <1>1, <1>3, LatestIs
  <1>5. start \in Nat \ {0}
    <2>1. CASE c = 0
      BY <1>1, <2>1
    <2>2. CASE c # 0
      <3>1. c \in DOMAIN entries /\ entries[c].kind = "compaction"
        BY <1>1, <1>4, <2>2
      <3>2. \E j \in DOMAIN entries : entries[j].n = entries[c].keep
        BY <3>1 DEF SummaryInv, IsKept
      <3>3. start \in DOMAIN entries
        BY <1>1, <2>2, <3>2 DEF Kept
      <3> QED
        BY <1>3, <3>3
    <2> QED
      BY <2>1, <2>2
  <1>6. i \in 1..Len(entries)
    BY <1>2, <1>3, <1>5
  <1> QED
    BY <1>3, <1>6 DEF IsKept

\* _checkCompaction decides to compact.
LEMMA AutoIs ==
    ASSUME TypeOK, NEW c \in Callers, NEW choice, NEW why \in {"pre", "post"}, StartAuto(c, choice, why)
    PROVE  /\ Moves(c) /\ caller'[c].pc = "cauth" /\ caller'[c].why = why
           /\ caller'[c].retry <=> choice = "recover"
           /\ overflowTried' \in BOOLEAN /\ streak' \in StreakType
  <1>1. caller \in [Callers -> CallType]
    BY DEF TypeOK, CallType
  <1>2. PICK b \in BOOLEAN : b <=> choice = "recover"
    OBVIOUS
  <1>3. caller' = [caller EXCEPT ![c] = [@ EXCEPT !.pc = "cauth", !.why = why, !.retry = b]]
    BY <1>2 DEF StartAuto
  <1>4. "cauth" \in CallerPCs
    BY DEF CallerPCs
  <1>5. [caller[c] EXCEPT !.pc = "cauth", !.why = why, !.retry = b] \in CallType
    BY <1>1, <1>4 DEF CallType
  <1>6. Moves(c) /\ caller'[c] = [caller[c] EXCEPT !.pc = "cauth", !.why = why, !.retry = b]
    BY <1>1, <1>3, <1>5 DEF Moves
  <1>7. caller[c] \in CallType
    BY <1>1
  <1>8. caller'[c].pc = "cauth" /\ caller'[c].why = why /\ caller'[c].retry = b
    BY <1>6, <1>7 DEF CallType
  <1>9. overflowTried' \in BOOLEAN
    BY DEF StartAuto
  <1>10. streak' \in StreakType
    <2>1. streak' = IF choice = "recover" THEN [streak EXCEPT !.recoveries = @ + 1] ELSE streak
      BY DEF StartAuto
    <2>2. streak \in StreakType
      BY DEF TypeOK, StreakType
    <2>3. [streak EXCEPT !.recoveries = @ + 1] \in StreakType
      BY <2>2 DEF StreakType
    <2> QED
      BY <2>1, <2>2, <2>3
  <1> QED
    BY <1>2, <1>6, <1>8, <1>9, <1>10

\* Prompt, Submit without the shell results, Preflight and Launch.
LEMMA PreflightBase ==
    ASSUME BaseInv, Observe, NEW c \in Callers, Prompt(c) \/ Preflight(c) \/ Launch(c)
    PROVE  BaseInv'
  <1>0. TypeOK /\ NumberInv /\ TurnInv
    BY DEF BaseInv
  <1>1. used \in UsedType /\ streak \in StreakType /\ live \in Seq(Messages)
    BY <1>0 DEF TypeOK, StreakType, NumberInv
  <1>2. CASE Prompt(c)
    <2>1. /\ caller[c].pc = "idle" /\ Goto(c, "input") /\ used' = [used EXCEPT !["prompts"] = @ + 1]
          /\ UNCHANGED <<entries, live, unsaved, run, queue, active, waiters, last, retryAttempt, overflowTried,
                         pendingBash, retryCtl, autoCtl, compactCtl, manual, streak, badContinue>>
      BY <1>2 DEF Prompt, At, Use, transcript, session, controls
    <2>2. Moves(c) /\ caller'[c].pc = "input"
      BY <1>0, <2>1, GotoIs DEF CallerPCs
    <2>3. Turns(c)
      BY <1>0, <2>1, <2>2, RunStays
    <2>4. ~ Driving(c) /\ ~ Driving(c)'
      BY <2>1, <2>2 DEF Driving
    <2>5. RestType'
      BY <1>0, <1>1, <2>1 DEF TypeOK, RestType
    <2>6. used' \in UsedType /\ used'.messages = used.messages
      BY <1>1, <2>1 DEF UsedType
    <2> QED
      BY <1>1, <2>1, <2>2, <2>3, <2>4, <2>5, <2>6, GoesBase
  <1>3. CASE Preflight(c)
    <2>1. /\ caller[c].pc = "auth"
          /\ UNCHANGED <<entries, live, unsaved, run, queue, active, waiters, last, retryAttempt,
                         pendingBash, retryCtl, autoCtl, compactCtl, manual, used, badContinue>>
          /\ \/ \E label \in {"idle", "start"} : Goto(c, label) /\ UNCHANGED <<overflowTried, streak>>
             \/ \E choice : StartAuto(c, choice, "pre")
      BY <1>3 DEF Preflight, At, transcript, controls
    <2>2. /\ Moves(c) /\ caller'[c].pc \in {"idle", "start", "cauth"} /\ (caller'[c].pc = "cauth" => caller'[c].why = "pre")
          /\ overflowTried' \in BOOLEAN /\ streak' \in StreakType
      <3>1. ASSUME NEW label \in {"idle", "start"}, Goto(c, label), UNCHANGED <<overflowTried, streak>>
            PROVE  Moves(c) /\ caller'[c].pc = label /\ overflowTried' \in BOOLEAN /\ streak' \in StreakType
        <4>1. label \in CallerPCs
          BY DEF CallerPCs
        <4>2. overflowTried' \in BOOLEAN
          BY <1>0, <3>1 DEF TypeOK
        <4> QED
          BY <1>0, <1>1, <3>1, <4>1, <4>2, GotoIs
      <3>2. ASSUME NEW choice, StartAuto(c, choice, "pre")
            PROVE  /\ Moves(c) /\ caller'[c].pc = "cauth" /\ caller'[c].why = "pre"
                   /\ overflowTried' \in BOOLEAN /\ streak' \in StreakType
        BY <1>0, <3>2, AutoIs
      <3> QED
        BY <2>1, <3>1, <3>2
    <2>3. Turns(c)
      BY <1>0, <2>1, <2>2, RunStays
    <2>4. ~ Driving(c) /\ ~ Driving(c)'
      BY <2>1, <2>2 DEF Driving
    <2>5. RestType'
      BY <1>0, <1>1, <2>1, <2>2 DEF TypeOK, RestType
    <2> QED
      BY <1>1, <2>1, <2>2, <2>3, <2>4, <2>5, GoesBase
  <1>4. CASE Launch(c)
    <2>1. /\ caller[c].pc = "sync"
          /\ UNCHANGED <<entries, live, unsaved, queue, active, waiters, last, retryAttempt, overflowTried,
                         pendingBash, retryCtl, autoCtl, compactCtl, manual, used, streak, badContinue>>
          /\ \/ run = NoRun /\ run' = [by |-> c, step |-> "user", aborted |-> FALSE] /\ Goto(c, "running")
             \/ run' = run /\ Goto(c, "settle")
      BY <1>4 DEF Launch, At, transcript, session, controls
    <2>2. /\ Moves(c) /\ caller'[c].pc \in {"running", "settle"} /\ Turns(c) /\ run' \in Runs \cup {NoRun}
      <3>1. ASSUME run = NoRun, run' = [by |-> c, step |-> "user", aborted |-> FALSE], Goto(c, "running")
            PROVE  Moves(c) /\ caller'[c].pc = "running" /\ Turns(c) /\ run' \in Runs
        <4>1. Moves(c) /\ caller'[c].pc = "running"
          BY <1>0, <3>1, GotoIs DEF CallerPCs
        <4>2. run' \in Runs /\ run'.by = c
          BY <3>1 DEF Runs
        <4>3. run.by = "none" /\ "none" \notin Callers /\ NoRun.by = "none"
          BY <3>1, BoundsAssumption DEF NoRun
        <4> QED
          BY <4>1, <4>2, <4>3 DEF Turns
      <3>2. ASSUME run' = run, Goto(c, "settle")
            PROVE  Moves(c) /\ caller'[c].pc = "settle" /\ Turns(c) /\ run' \in Runs \cup {NoRun}
        <4>1. Moves(c) /\ caller'[c].pc = "settle"
          BY <1>0, <3>2, GotoIs DEF CallerPCs
        <4>2. Turns(c)
          BY <1>0, <2>1, <3>2, <4>1, RunStays
        <4> QED
          BY <1>0, <3>2, <4>1, <4>2 DEF TypeOK
      <3> QED
        BY <2>1, <3>1, <3>2
    <2>3. Driving(c) /\ Driving(c)'
      BY <2>1, <2>2 DEF Driving
    <2>4. RestType'
      BY <1>0, <1>1, <2>1, <2>2 DEF TypeOK, RestType
    <2> QED
      BY <1>1, <2>1, <2>2, <2>3, <2>4, GoesBase
  <1> QED
    BY <1>2, <1>3, <1>4

\* A step of c that flushes the shell results.
LEMMA FlushBase ==
    ASSUME BaseInv, Observe, NEW c \in Callers, Moves(c), RestType', Flush, UNCHANGED <<unsaved, manual, used>>,
           caller'[c].pc # "csum", TurnInv', ActiveInv', AloneInv'
    PROVE  BaseInv'
  <1>0. TypeOK /\ NumberInv /\ KeepInv /\ SummaryInv
    BY DEF BaseInv
  <1>1. entries \in Seq(Messages) /\ live \in Seq(Messages) /\ pendingBash \in Seq(Messages)
    BY <1>0 DEF TypeOK
  <1>2. /\ live' = live \o pendingBash /\ entries' = entries \o pendingBash /\ pendingBash' = <<>>
    BY DEF Flush
  <1>3. live' \in Seq(Messages) /\ pendingBash' \in Seq(Messages) /\ DOMAIN pendingBash' = {}
    BY <1>1, <1>2
  <1>4. /\ entries' \in Seq(Messages) /\ Grows
        /\ \A i \in DOMAIN entries' : (i \in DOMAIN entries /\ entries'[i] = entries[i])
                                      \/ \E k \in DOMAIN pendingBash : entries'[i] = pendingBash[k]
    BY <1>1, <1>2, Concat DEF Grows
  <1>5. overlap' \in BOOLEAN
    BY <1>0, ObserveIs
  <1>6. TypeOK'
    BY <1>0, <1>3, <1>4, <1>5 DEF TypeOK, RestType, Moves, CallType, StreakType
  <1>7. NumberInv'
    BY <1>0, <1>3, <1>4 DEF NumberInv
  <1>8. KeepInv'
    <2>1. \A d \in Callers : caller'[d].pc = "csum" => caller[d].pc = "csum" /\ caller'[d].keep = caller[d].keep
      BY DEF Moves
    <2> QED
      BY <1>0, <1>4, <2>1, KeepStays
  <1>9. SummaryInv'
    BY <1>0, <1>3, <1>4, SummariesStay DEF SummaryInv
  <1> QED
    BY <1>6, <1>7, <1>8, <1>9 DEF BaseInv

\* Submit: the message is queued, or the prompt goes on after the shell results.
LEMMA SubmitBase == ASSUME BaseInv, Observe, NEW c \in Callers, Submit(c) PROVE BaseInv'
  <1>0. TypeOK /\ NumberInv /\ TurnInv
    BY DEF BaseInv
  <1>1. used \in UsedType /\ streak \in StreakType /\ live \in Seq(Messages) /\ queue \in Nat
    BY <1>0 DEF TypeOK, StreakType, NumberInv
  <1>2. /\ caller[c].pc = "input"
        /\ UNCHANGED <<unsaved, run, active, waiters, last, retryAttempt, overflowTried,
                       retryCtl, autoCtl, compactCtl, manual, streak, badContinue>>
    BY DEF Submit, At, controls
  <1>3. ASSUME NEW label \in {"idle", "auth"}, Goto(c, label), queue' \in Nat
        PROVE  Moves(c) /\ caller'[c].pc = label /\ RestType' /\ Turns(c) /\ ~ Driving(c) /\ ~ Driving(c)'
    <2>1. label \in CallerPCs
      BY DEF CallerPCs
    <2>2. Moves(c) /\ caller'[c].pc = label
      BY <1>0, <1>3, <2>1, GotoIs
    <2>3. RestType'
      BY <1>0, <1>1, <1>2, <1>3 DEF TypeOK, RestType
    <2>4. Turns(c)
      BY <1>0, <1>2, <2>2, RunStays
    <2>5. ~ Driving(c) /\ ~ Driving(c)'
      BY <1>2, <2>2 DEF Driving
    <2> QED
      BY <2>2, <2>3, <2>4, <2>5
  <1>4. CASE Goto(c, "idle") /\ UNCHANGED <<entries, live, pendingBash>> /\ queue' = queue + 1 /\ Use("requests")
    <2>1. queue' \in Nat
      BY <1>1, <1>4
    <2>2. used' = [used EXCEPT !["requests"] = @ + 1]
      BY <1>4 DEF Use
    <2>3. used' \in UsedType /\ used'.messages = used.messages
      BY <1>1, <2>2 DEF UsedType
    <2> QED
      BY <1>1, <1>2, <1>3, <1>4, <2>1, <2>3, GoesBase
  <1>5. CASE Goto(c, "idle") /\ UNCHANGED <<entries, live, pendingBash, queue, used>>
    BY <1>1, <1>2, <1>3, <1>5, GoesBase
  <1>6. CASE Flush /\ Goto(c, "auth") /\ UNCHANGED <<queue, used>>
    <2>1. Moves(c) /\ caller'[c].pc = "auth" /\ RestType' /\ Turns(c) /\ ~ Driving(c) /\ ~ Driving(c)'
      BY <1>1, <1>3, <1>6
    <2>2. TurnInv' /\ ActiveInv' /\ AloneInv'
      <3>1. run' = NoRun => unsaved' = None
        BY <1>0, <1>2 DEF TurnInv
      <3> QED
        BY <1>2, <2>1, <3>1, CallerGoes DEF Turns
    <2> QED
      BY <1>2, <1>6, <2>1, <2>2, FlushBase
  <1> QED
    BY <1>4, <1>5, <1>6 DEF Submit

\* The steps that change whether the session is active, or who waits for it.
LEMMA SettleBase ==
    ASSUME BaseInv, Observe, NEW c \in Callers, Start(c) \/ Settle(c) \/ Settled(c)
    PROVE  BaseInv'
  <1>0. TypeOK /\ NumberInv /\ TurnInv /\ ActiveInv /\ AloneInv
    BY DEF BaseInv
  <1>1. used \in UsedType /\ streak \in StreakType /\ live \in Seq(Messages)
    BY <1>0 DEF TypeOK, StreakType, NumberInv
  <1>2. ASSUME Moves(c), Turns(c), UNCHANGED unsaved PROVE TurnInv'
    BY <1>0, <1>2 DEF TurnInv, Turns, Moves, At
  <1>3. ASSUME NEW d \in Callers, Driving(d) PROVE d \in Busy
    BY <1>3, BusyIs DEF Driving
  <1>4. ASSUME NEW d \in Callers, Driving(d)' PROVE d \in Busy'
    BY <1>4 DEF Driving, Busy
  <1>5. ~ overlap' => ~ overlap /\ \A x, y \in Busy' : x = y
    BY <1>0, ObserveIs
  <1>6. CASE Start(c)
    <2>1. /\ caller[c].pc = "start" /\ Goto(c, "sync") /\ active' = TRUE
          /\ UNCHANGED <<entries, live, unsaved, run, queue, waiters, last, retryAttempt, overflowTried,
                         pendingBash, retryCtl, autoCtl, compactCtl, manual, used, streak, badContinue>>
      BY <1>6 DEF Start, At, transcript, controls
    <2>2. Moves(c) /\ caller'[c].pc = "sync"
      BY <1>0, <2>1, GotoIs DEF CallerPCs
    <2>3. TurnInv'
      BY <1>0, <1>2, <2>1, <2>2, RunStays
    <2>4. Driving(c)'
      BY <2>2 DEF Driving
    <2>5. ActiveInv' /\ AloneInv'
      BY <1>5, <2>1, <2>4 DEF ActiveInv, AloneInv
    <2>6. RestType'
      BY <1>0, <1>1, <2>1 DEF TypeOK, RestType
    <2> QED
      BY <1>1, <2>1, <2>2, <2>3, <2>5, <2>6, QuietBase
  <1>7. CASE Settle(c)
    <2>1. /\ caller[c].pc = "settle" /\ Goto(c, "settling") /\ active' = FALSE /\ Flush
          /\ UNCHANGED <<unsaved, run, queue, waiters, last, retryAttempt, overflowTried,
                         retryCtl, autoCtl, compactCtl, manual, used, streak, badContinue>>
      BY <1>7 DEF Settle, At, controls
    <2>2. Moves(c) /\ caller'[c].pc = "settling"
      BY <1>0, <2>1, GotoIs DEF CallerPCs
    <2>3. TurnInv'
      BY <1>0, <1>2, <2>1, <2>2, RunStays
    <2>4. ActiveInv'
      BY <2>1, <2>2 DEF ActiveInv, At
    <2>5. AloneInv'
      <3>1. c \in Busy' /\ ~ Driving(c)'
        BY <2>2 DEF Driving, Busy
      <3> QED
        BY <1>4, <1>5, <3>1 DEF AloneInv
    <2>6. RestType'
      BY <1>0, <1>1, <2>1 DEF TypeOK, RestType
    <2> QED
      BY <2>1, <2>2, <2>3, <2>4, <2>5, <2>6, FlushBase
  <1>8. CASE Settled(c)
    <2>1. /\ caller[c].pc = "settling" /\ caller' = [caller EXCEPT ![c] = NoCall] /\ waiters' = StillWaiting
          /\ UNCHANGED <<entries, live, unsaved, run, queue, active, last, retryAttempt, overflowTried,
                         pendingBash, retryCtl, autoCtl, compactCtl, manual, used, streak, badContinue>>
      BY <1>8 DEF Settled, At, transcript, controls
    <2>2. Moves(c) /\ caller'[c].pc = "idle"
      <3>1. caller \in [Callers -> CallType]
        BY <1>0 DEF TypeOK, CallType
      <3>2. NoCall \in CallType /\ NoCall.pc = "idle"
        BY NoneIs DEF NoCall, CallType, CallerPCs
      <3> QED
        BY <2>1, <3>1, <3>2 DEF Moves
    <2>3. TurnInv'
      BY <1>0, <1>2, <2>1, <2>2, RunStays
    <2>4. \A d \in Callers : Driving(d) <=> Driving(d)'
      <3>1. ~ Driving(c) /\ ~ Driving(c)'
        BY <2>1, <2>2 DEF Driving
      <3>2. ASSUME NEW d \in Callers \ {c} PROVE Driving(d) <=> Driving(d)'
        BY <2>2 DEF Driving, Moves
      <3> QED
        BY <3>1, <3>2
    <2>5. waiters' # {} => active
      BY <2>1 DEF StillWaiting
    <2>6. ActiveInv' /\ AloneInv'
      BY <1>0, <1>5, <2>1, <2>4, <2>5 DEF ActiveInv, AloneInv
    <2>7. RestType'
      <3>1. waiters' \subseteq {"abort", "compact"}
        BY <1>0, <2>1 DEF TypeOK, StillWaiting
      <3> QED
        BY <1>0, <1>1, <2>1, <3>1 DEF TypeOK, RestType
    <2> QED
      BY <1>1, <2>1, <2>2, <2>3, <2>6, <2>7, QuietBase
  <1> QED
    BY <1>6, <1>7, <1>8

\* A compaction enters the branch, and the context is rebuilt: it ends with
\* the entry that was the last.
LEMMA CommitIs ==
    ASSUME TypeOK, NumberInv, SummaryInv, NEW keep \in Nat, IsKept(keep), Commit(keep), UNCHANGED <<unsaved, pendingBash>>
    PROVE  /\ entries' \in Seq(Messages) /\ Grows /\ live' \in Seq(Messages) /\ Last(live') = Last(entries)
           /\ NumberInv' /\ SummaryInv'
  <1>1. PICK m : m = Compaction(keep)
    OBVIOUS
  <1>2. used \in UsedType /\ used.messages \in Nat
    BY DEF NumberInv, UsedType
  <1>3. m \in Messages /\ m.kind = "compaction" /\ m.n = used.messages + 1 /\ m.keep = keep
    BY <1>1, <1>2 DEF Compaction, Messages, Kinds
  <1>4. /\ entries' = Append(entries, m) /\ live' = buildSessionContext(Append(entries, m))
        /\ used' = [used EXCEPT !.messages = @ + 1, !.compactions = @ + 1]
    BY <1>1 DEF Commit
  <1>5. entries \in Seq(Messages) /\ pendingBash \in Seq(Messages) /\ unsaved \in Messages
    BY DEF TypeOK
  <1>6. /\ entries' \in Seq(Messages) /\ Grows
        /\ \A i \in DOMAIN entries' : i \in DOMAIN entries \/ entries'[i] = m
    BY <1>3, <1>4, <1>5, LastAppend DEF Grows
  <1>7. keep # used.messages + 1
    <2>1. PICK j \in DOMAIN entries : entries[j].n = keep
      BY DEF IsKept
    <2>2. keep <= used.messages
      BY <2>1 DEF NumberInv
    <2> QED
      BY <1>2, <2>2
  <1>8. live' \in Seq(Messages) /\ Last(live') = Last(entries)
    <2>1. PICK s : s = entries
      OBVIOUS
    <2>2. s \in Seq(Messages) /\ (\E j \in DOMAIN s : s[j].n = m.keep) /\ m.keep # m.n
      BY <1>3, <1>5, <1>7, <2>1 DEF IsKept
    <2>3. /\ buildSessionContext(Append(s, m)) \in Seq(Messages)
          /\ Last(buildSessionContext(Append(s, m))) = Last(s)
      BY <1>3, <2>2, BuildIs
    <2> QED
      BY <1>4, <2>1, <2>3
  <1>9. used' \in UsedType /\ used'.messages = used.messages + 1
    <2>1. used.messages + 1 \in Nat /\ used.compactions + 1 \in Nat
      BY <1>2 DEF UsedType
    <2>2. \A a, b \in Nat : LET u == [used EXCEPT !.messages = a, !.compactions = b]
                            IN  u \in UsedType /\ u.messages = a
      BY <1>2 DEF UsedType
    <2>3. used' = [used EXCEPT !.messages = used.messages + 1, !.compactions = used.compactions + 1]
      BY <1>4
    <2> QED
      BY <2>1, <2>2, <2>3
  <1>10. NumberInv'
    <2>1. ASSUME NEW n \in Nat, n <= used.messages PROVE n <= used.messages + 1
      BY <1>2, <2>1
    <2>2. \A i \in DOMAIN entries : entries[i].n \in Nat /\ entries[i].n <= used.messages
      <3>1. \A i \in DOMAIN entries : entries[i] \in Messages
        BY <1>5
      <3> QED
        BY <3>1 DEF NumberInv, Messages
    <2>3. \A i \in DOMAIN pendingBash : pendingBash[i].n \in Nat /\ pendingBash[i].n <= used.messages
      <3>1. \A i \in DOMAIN pendingBash : pendingBash[i] \in Messages
        BY <1>5
      <3> QED
        BY <3>1 DEF NumberInv, Messages
    <2>4. unsaved.n \in Nat /\ unsaved.n <= used.messages
      BY <1>5 DEF NumberInv, Messages
    <2>5. \A i \in DOMAIN entries' : entries'[i].n <= used.messages + 1
      BY <1>2, <1>3, <1>6, <2>1, <2>2 DEF Grows
    <2> QED
      BY <1>9, <2>1, <2>3, <2>4, <2>5 DEF NumberInv
  <1>11. SummaryInv'
    <2>1. \A i \in DOMAIN entries' : i \in DOMAIN entries \/ IsKept(entries'[i].keep)
      BY <1>3, <1>6
    <2> QED
      BY <1>6, <2>1, SummariesStay DEF SummaryInv
  <1> QED
    BY <1>6, <1>8, <1>10, <1>11

\* The context without the response that failed.
LEMMA FrontIs == ASSUME TypeOK, IsAnswer(Last(live)) PROVE Front(live) \in Seq(Messages)
  <1>1. PICK s : s = live
    OBVIOUS
  <1>2. s \in Seq(Messages) /\ Last(s) # None
    BY <1>1, NoneIs DEF TypeOK
  <1>3. Front(s) \in Seq(Messages)
    BY <1>2, LastIs
  <1> QED
    BY <1>1, <1>3

\* The post-run loop and automatic compaction.
LEMMA PostRunBase == ASSUME BaseInv, Observe, NEW c \in Callers, PostRun(c) PROVE BaseInv'
  <1>0. TypeOK /\ NumberInv /\ TurnInv
    BY DEF BaseInv
  <1>1. /\ used \in UsedType /\ streak \in StreakType /\ live \in Seq(Messages) /\ caller \in [Callers -> CallType]
        /\ last \in Messages /\ retryAttempt \in 0..MaxRetries /\ None \in Messages
    BY <1>0, NoneIs DEF TypeOK, StreakType, NumberInv, CallType
  <1>2. /\ caller[c].pc = "post" /\ last' = None
        /\ UNCHANGED <<entries, unsaved, run, queue, active, waiters, overflowTried,
                       pendingBash, autoCtl, compactCtl, manual, used, streak, badContinue>>
    BY DEF PostRun, At
  <1>3. \/ Goto(c, "settle") /\ UNCHANGED <<live, retryAttempt, retryCtl>>
        \/ /\ WillRetry(last) /\ retryAttempt' = retryAttempt + 1 /\ retryCtl' = "set"
           /\ live' = IF IsAnswer(Last(live)) THEN Front(live) ELSE live
           /\ caller' = [caller EXCEPT ![c] = [@ EXCEPT !.pc = "backoff", !.msg = last]]
        \/ /\ retryAttempt' \in {0, retryAttempt} /\ UNCHANGED <<live, retryCtl>>
           /\ caller' = [caller EXCEPT ![c] = [@ EXCEPT !.pc = "check", !.msg = last]]
    BY DEF PostRun
  <1>4. /\ Moves(c) /\ caller'[c].pc \in {"settle", "backoff", "check"}
        /\ live' \in Seq(Messages) /\ retryAttempt' \in 0..MaxRetries /\ retryCtl' \in Controls
    <2>1. CASE Goto(c, "settle") /\ UNCHANGED <<live, retryAttempt, retryCtl>>
      <3>1. Moves(c) /\ caller'[c].pc = "settle"
        BY <1>0, <2>1, GotoIs DEF CallerPCs
      <3> QED
        BY <1>0, <1>1, <2>1, <3>1 DEF TypeOK
    <2>2. ASSUME NEW label \in {"backoff", "check"}, caller' = [caller EXCEPT ![c] = [@ EXCEPT !.pc = label, !.msg = last]]
          PROVE  Moves(c) /\ caller'[c].pc = label
      BY <1>1, <2>2 DEF Moves, CallType, CallerPCs
    <2>3. CASE /\ WillRetry(last) /\ retryAttempt' = retryAttempt + 1 /\ retryCtl' = "set"
               /\ live' = IF IsAnswer(Last(live)) THEN Front(live) ELSE live
               /\ caller' = [caller EXCEPT ![c] = [@ EXCEPT !.pc = "backoff", !.msg = last]]
      <3>1. retryAttempt' \in 0..MaxRetries
        BY <1>1, <2>3, BoundsAssumption DEF WillRetry
      <3>2. live' \in Seq(Messages)
        BY <1>0, <1>1, <2>3, FrontIs
      <3> QED
        BY <2>2, <2>3, <3>1, <3>2 DEF Controls
    <2>4. CASE /\ retryAttempt' \in {0, retryAttempt} /\ UNCHANGED <<live, retryCtl>>
               /\ caller' = [caller EXCEPT ![c] = [@ EXCEPT !.pc = "check", !.msg = last]]
      <3>1. retryAttempt' \in 0..MaxRetries
        BY <1>1, <2>4, BoundsAssumption
      <3>2. retryCtl' \in Controls
        BY <1>0, <2>4 DEF TypeOK
      <3> QED
        BY <1>1, <2>2, <2>4, <3>1, <3>2
    <2> QED
      BY <1>3, <2>1, <2>3, <2>4
  <1>5. Turns(c)
    BY <1>0, <1>2, <1>4, RunStays
  <1>6. Driving(c) /\ Driving(c)'
    BY <1>2, <1>4 DEF Driving
  <1>7. RestType'
    BY <1>0, <1>1, <1>2, <1>4 DEF TypeOK, RestType
  <1> QED
    BY <1>1, <1>2, <1>4, <1>5, <1>6, <1>7, GoesBase

\* The backoff is over, and the compaction check.
LEMMA CheckBase == ASSUME BaseInv, Observe, NEW c \in Callers, BackoffOver(c) \/ CheckCompaction(c) PROVE BaseInv'
  <1>0. TypeOK /\ NumberInv /\ TurnInv
    BY DEF BaseInv
  <1>1. used \in UsedType /\ streak \in StreakType /\ NoStreak \in StreakType /\ live \in Seq(Messages)
    BY <1>0 DEF TypeOK, StreakType, NumberInv, NoStreak
  <1>2. CASE BackoffOver(c)
    <2>1. /\ caller[c].pc = "backoff" /\ retryCtl' = "none"
          /\ UNCHANGED <<entries, live, unsaved, active, waiters, last, overflowTried, pendingBash,
                         autoCtl, compactCtl, manual, used>>
          /\ \/ retryAttempt' = 0 /\ streak' = NoStreak /\ Goto(c, "check") /\ UNCHANGED <<run, queue, badContinue>>
             \/ ContinueRun(c, live) /\ UNCHANGED <<retryAttempt, streak>>
      BY <1>2 DEF BackoffOver, At, transcript
    <2>2. /\ Moves(c) /\ Turns(c) /\ caller'[c].pc \in {"check", "running", "settle"}
          /\ run' \in Runs \cup {NoRun} /\ queue' \in Nat /\ badContinue' \in BOOLEAN
      <3>1. ASSUME Goto(c, "check"), UNCHANGED <<run, queue, badContinue>>
            PROVE  /\ Moves(c) /\ Turns(c) /\ caller'[c].pc = "check"
                   /\ run' \in Runs \cup {NoRun} /\ queue' \in Nat /\ badContinue' \in BOOLEAN
        <4>1. Moves(c) /\ caller'[c].pc = "check"
          BY <1>0, <3>1, GotoIs DEF CallerPCs
        <4>2. Turns(c)
          BY <1>0, <2>1, <3>1, <4>1, RunStays
        <4> QED
          BY <1>0, <3>1, <4>1, <4>2 DEF TypeOK
      <3>2. ASSUME ContinueRun(c, live)
            PROVE  /\ Moves(c) /\ Turns(c) /\ caller'[c].pc \in {"running", "settle"}
                   /\ run' \in Runs \cup {NoRun} /\ queue' \in Nat /\ badContinue' \in BOOLEAN
        BY <1>0, <2>1, <3>2, ContinueIs
      <3> QED
        BY <2>1, <3>1, <3>2
    <2>3. retryAttempt' \in 0..MaxRetries /\ streak' \in StreakType
      BY <1>0, <1>1, <2>1, BoundsAssumption DEF TypeOK
    <2>4. Driving(c) /\ Driving(c)'
      BY <2>1, <2>2 DEF Driving
    <2>5. RestType'
      BY <1>0, <1>1, <2>1, <2>2, <2>3 DEF TypeOK, RestType, Controls
    <2> QED
      BY <1>1, <2>1, <2>2, <2>4, <2>5, GoesBase
  <1>3. CASE CheckCompaction(c)
    <2>1. /\ caller[c].pc = "check"
          /\ UNCHANGED <<entries, live, unsaved, active, waiters, last, retryAttempt, pendingBash,
                         retryCtl, autoCtl, compactCtl, manual, used>>
          /\ \/ Finish(c) /\ UNCHANGED <<overflowTried, streak>>
             \/ \E choice : StartAuto(c, choice, "post") /\ UNCHANGED <<run, queue, badContinue>>
      BY <1>3 DEF CheckCompaction, At, transcript, controls
    <2>2. /\ Moves(c) /\ Turns(c) /\ Driving(c)' /\ caller'[c].pc # "csum"
          /\ run' \in Runs \cup {NoRun} /\ queue' \in Nat /\ badContinue' \in BOOLEAN
          /\ overflowTried' \in BOOLEAN /\ streak' \in StreakType
      <3>1. CASE Finish(c) /\ UNCHANGED <<overflowTried, streak>>
        <4>1. /\ Moves(c) /\ Turns(c) /\ caller'[c].pc \in {"running", "settle"}
              /\ run' \in Runs \cup {NoRun} /\ queue' \in Nat /\ badContinue' \in BOOLEAN
          BY <1>0, <2>1, <3>1, FinishIs
        <4>2. overflowTried' \in BOOLEAN
          BY <1>0, <3>1 DEF TypeOK
        <4>3. Driving(c)'
          BY <4>1 DEF Driving
        <4> QED
          BY <1>1, <3>1, <4>1, <4>2, <4>3
      <3>2. ASSUME NEW choice, StartAuto(c, choice, "post"), UNCHANGED <<run, queue, badContinue>>
            PROVE  /\ Moves(c) /\ Turns(c) /\ Driving(c)' /\ caller'[c].pc # "csum"
                   /\ run' \in Runs \cup {NoRun} /\ queue' \in Nat /\ badContinue' \in BOOLEAN
                   /\ overflowTried' \in BOOLEAN /\ streak' \in StreakType
        <4>1. /\ Moves(c) /\ caller'[c].pc = "cauth" /\ caller'[c].why = "post"
              /\ overflowTried' \in BOOLEAN /\ streak' \in StreakType
          BY <1>0, <3>2, AutoIs
        <4>2. Turns(c)
          BY <1>0, <2>1, <3>2, <4>1, RunStays
        <4>3. Driving(c)'
          BY <4>1 DEF Driving
        <4>4. run' \in Runs \cup {NoRun} /\ queue' \in Nat /\ badContinue' \in BOOLEAN
          BY <1>0, <3>2 DEF TypeOK
        <4> QED
          BY <4>1, <4>2, <4>3, <4>4
      <3> QED
        BY <2>1, <3>1, <3>2
    <2>3. Driving(c)
      BY <2>1 DEF Driving
    <2>4. RestType'
      BY <1>0, <1>1, <2>1, <2>2 DEF TypeOK, RestType
    <2> QED
      BY <1>1, <2>1, <2>2, <2>3, <2>4, GoesBase
  <1> QED
    BY <1>2, <1>3

\* Automatic compaction gives up.
LEMMA FailsIs ==
    ASSUME TypeOK, TurnInv, NEW c \in Callers, caller[c].pc \in {"cauth", "csum"}, AutoFails(c)
    PROVE  /\ Moves(c) /\ Turns(c) /\ caller'[c].pc \in {"start", "running", "settle"}
           /\ Driving(c) <=> Driving(c)'
           /\ run' \in Runs \cup {NoRun} /\ queue' \in Nat /\ badContinue' \in BOOLEAN
  <1>1. caller[c].why \in {"pre", "post"}
    BY DEF TypeOK
  <1>2. CASE caller[c].why = "pre"
    <2>1. Goto(c, "start") /\ UNCHANGED <<run, queue, badContinue>>
      BY <1>2 DEF AutoFails
    <2>2. Moves(c) /\ caller'[c].pc = "start"
      BY <2>1, GotoIs DEF CallerPCs
    <2>3. Turns(c)
      BY <2>1, <2>2, RunStays
    <2>4. ~ Driving(c) /\ ~ Driving(c)'
      BY <1>2, <2>2 DEF Driving
    <2>5. run' \in Runs \cup {NoRun} /\ queue' \in Nat /\ badContinue' \in BOOLEAN
      BY <2>1 DEF TypeOK
    <2> QED
      BY <2>2, <2>3, <2>4, <2>5
  <1>3. CASE caller[c].why = "post"
    <2>1. Finish(c)
      BY <1>3 DEF AutoFails
    <2>2. /\ Moves(c) /\ Turns(c) /\ caller'[c].pc \in {"running", "settle"}
          /\ run' \in Runs \cup {NoRun} /\ queue' \in Nat /\ badContinue' \in BOOLEAN
      BY <2>1, FinishIs
    <2>3. Driving(c) /\ Driving(c)'
      BY <1>3, <2>2 DEF Driving
    <2> QED
      BY <2>2, <2>3
  <1> QED
    BY <1>1, <1>2, <1>3

\* Its steps.
LEMMA AutoBase ==
    ASSUME BaseInv, Observe, NEW c \in Callers, AutoPrepare(c) \/ AutoSummaryFails(c) \/ AutoDone(c)
    PROVE  BaseInv'
  <1>0. TypeOK /\ NumberInv /\ TurnInv /\ SummaryInv
    BY DEF BaseInv
  <1>1. used \in UsedType /\ streak \in StreakType /\ live \in Seq(Messages) /\ caller \in [Callers -> CallType]
    BY <1>0 DEF TypeOK, StreakType, NumberInv, CallType
  <1>2. ASSUME caller[c].pc \in {"cauth", "csum"}, autoCtl' = "none", AutoFails(c),
               UNCHANGED <<transcript, session, retryCtl, compactCtl, manual, used, streak>>
        PROVE  BaseInv'
    <2>1. UNCHANGED <<entries, live, unsaved, active, waiters, last, retryAttempt, overflowTried,
                      pendingBash, retryCtl, compactCtl, manual, used, streak>>
      BY <1>2 DEF transcript, session
    <2>2. /\ Moves(c) /\ Turns(c) /\ caller'[c].pc \in {"start", "running", "settle"}
          /\ Driving(c) <=> Driving(c)'
          /\ run' \in Runs \cup {NoRun} /\ queue' \in Nat /\ badContinue' \in BOOLEAN
      BY <1>0, <1>2, FailsIs
    <2>3. RestType'
      BY <1>0, <1>1, <1>2, <2>1, <2>2 DEF TypeOK, RestType, Controls
    <2> QED
      BY <1>1, <1>2, <2>1, <2>2, <2>3, GoesBase
  <1>3. CASE AutoPrepare(c)
    <2>1. /\ caller[c].pc = "cauth" /\ UNCHANGED <<transcript, session, retryCtl, compactCtl, manual, used, streak>>
          /\ \/ autoCtl' = "none" /\ AutoFails(c)
             \/ \E i \in CutPoints(entries) :
                  /\ autoCtl' = "set" /\ UNCHANGED <<run, queue, badContinue>>
                  /\ caller' = [caller EXCEPT ![c] = [@ EXCEPT !.pc = "csum", !.keep = entries[i].n]]
      BY <1>3 DEF AutoPrepare, At
    <2>2. ASSUME NEW i \in CutPoints(entries), autoCtl' = "set", UNCHANGED <<run, queue, badContinue>>,
                 caller' = [caller EXCEPT ![c] = [@ EXCEPT !.pc = "csum", !.keep = entries[i].n]]
          PROVE  BaseInv'
      <3>1. i \in DOMAIN entries /\ IsKept(entries[i].n)
        BY <1>0, <2>2, CutIs
      <3>2. PICK n \in Nat : n = entries[i].n
        <4>1. entries[i] \in Messages
          BY <1>0, <3>1 DEF TypeOK
        <4> QED
          BY <4>1 DEF Messages
      <3>3. caller' = [caller EXCEPT ![c] = [@ EXCEPT !.pc = "csum", !.keep = n]]
        BY <2>2, <3>2
      <3>4. Moves(c) /\ caller'[c].pc = "csum" /\ caller'[c].keep = n /\ caller'[c].why = caller[c].why
        BY <1>1, <3>3 DEF Moves, CallType, CallerPCs
      <3>5. Turns(c)
        BY <1>0, <2>1, <2>2, <3>4, RunStays
      <3>6. Driving(c) <=> Driving(c)'
        BY <2>1, <3>4 DEF Driving
      <3>7. UNCHANGED <<entries, live, unsaved, active, waiters, last, retryAttempt, overflowTried,
                        pendingBash, retryCtl, compactCtl, manual, used, streak>>
        BY <2>1 DEF transcript, session
      <3>8. RestType'
        BY <1>0, <1>1, <2>2, <3>7 DEF TypeOK, RestType, Controls
      <3> QED
        BY <1>1, <2>1, <3>1, <3>2, <3>4, <3>5, <3>6, <3>7, <3>8, GoesBase
    <2> QED
      BY <1>2, <2>1, <2>2
  <1>4. CASE AutoSummaryFails(c)
    BY <1>2, <1>4 DEF AutoSummaryFails, At
  <1>5. CASE AutoDone(c)
    <2>1. PICK ctx : /\ ctx = IF caller[c].retry /\ Last(live).kind \in Failed THEN Front(live) ELSE live
                     /\ caller[c].pc = "cemit" /\ autoCtl' = "none" /\ live' = ctx
                     /\ \/ /\ caller[c].why = "pre" /\ Goto(c, "start") /\ UNCHANGED <<run, queue, badContinue>>
                        \/ caller[c].why # "pre" /\ ContinueRun(c, ctx)
                        \/ /\ caller[c].why # "pre" /\ Goto(c, "settle") /\ UNCHANGED <<run, queue, badContinue>>
                     /\ UNCHANGED <<entries, unsaved, active, waiters, last, retryAttempt, overflowTried,
                                    pendingBash, retryCtl, compactCtl, manual, used, streak>>
      BY <1>5 DEF AutoDone, At, session
    <2>2. live' \in Seq(Messages)
      <3>1. Last(live).kind \in Failed => IsAnswer(Last(live))
        BY DEF IsAnswer, Answers
      <3> QED
        BY <1>0, <1>1, <2>1, <3>1, FrontIs
    <2>3. caller[c].why # "pre" => caller[c].why = "post"
      BY <1>0 DEF TypeOK
    <2>4. /\ Moves(c) /\ Turns(c) /\ (Driving(c) <=> Driving(c)') /\ caller'[c].pc \in {"start", "running", "settle"}
          /\ run' \in Runs \cup {NoRun} /\ queue' \in Nat /\ badContinue' \in BOOLEAN
      <3>1. ASSUME NEW label \in {"start", "settle"}, label = "start" <=> caller[c].why = "pre",
                   Goto(c, label), UNCHANGED <<run, queue, badContinue>>
            PROVE  /\ Moves(c) /\ Turns(c) /\ (Driving(c) <=> Driving(c)') /\ caller'[c].pc = label
                   /\ run' \in Runs \cup {NoRun} /\ queue' \in Nat /\ badContinue' \in BOOLEAN
        <4>1. label \in CallerPCs
          BY DEF CallerPCs
        <4>2. Moves(c) /\ caller'[c].pc = label
          BY <1>0, <3>1, <4>1, GotoIs
        <4>3. Turns(c)
          BY <1>0, <2>1, <3>1, <4>2, RunStays
        <4>4. Driving(c) <=> Driving(c)'
          BY <2>1, <2>3, <3>1, <4>2 DEF Driving
        <4>5. run' \in Runs \cup {NoRun} /\ queue' \in Nat /\ badContinue' \in BOOLEAN
          BY <1>0, <3>1 DEF TypeOK
        <4> QED
          BY <4>2, <4>3, <4>4, <4>5
      <3>2. ASSUME ContinueRun(c, ctx), caller[c].why # "pre"
            PROVE  /\ Moves(c) /\ Turns(c) /\ (Driving(c) <=> Driving(c)') /\ caller'[c].pc \in {"running", "settle"}
                   /\ run' \in Runs \cup {NoRun} /\ queue' \in Nat /\ badContinue' \in BOOLEAN
        <4>1. /\ Moves(c) /\ Turns(c) /\ caller'[c].pc \in {"running", "settle"}
              /\ run' \in Runs \cup {NoRun} /\ queue' \in Nat /\ badContinue' \in BOOLEAN
          BY <1>0, <2>1, <3>2, ContinueIs
        <4>2. Driving(c) /\ Driving(c)'
          BY <2>1, <2>3, <3>2, <4>1 DEF Driving
        <4> QED
          BY <4>1, <4>2
      <3> QED
        BY <2>1, <3>1, <3>2
    <2>5. RestType'
      BY <1>0, <1>1, <2>1, <2>4 DEF TypeOK, RestType, Controls
    <2> QED
      BY <1>1, <2>1, <2>2, <2>4, <2>5, GoesBase
  <1> QED
    BY <1>3, <1>4, <1>5

\* AutoCommit.
LEMMA AutoCommitBase == ASSUME BaseInv, Observe, NEW c \in Callers, AutoCommit(c) PROVE BaseInv'
  <1>0. TypeOK /\ NumberInv /\ KeepInv /\ SummaryInv /\ TurnInv
    BY DEF BaseInv
  <1>1. /\ caller[c].pc = "csum" /\ Commit(caller[c].keep) /\ Goto(c, "cemit")
        /\ UNCHANGED <<unsaved, run, queue, active, waiters, last, retryAttempt, overflowTried, pendingBash,
                       retryCtl, autoCtl, compactCtl, manual, streak, badContinue>>
    BY DEF AutoCommit, At, session, controls
  <1>2. caller[c].keep \in Nat /\ IsKept(caller[c].keep)
    BY <1>0, <1>1 DEF TypeOK, KeepInv
  <1>3. /\ entries' \in Seq(Messages) /\ Grows /\ live' \in Seq(Messages) /\ NumberInv' /\ SummaryInv'
    BY <1>0, <1>1, <1>2, CommitIs
  <1>4. Moves(c) /\ caller'[c].pc = "cemit" /\ caller'[c].why = caller[c].why
    BY <1>0, <1>1, GotoIs DEF CallerPCs
  <1>5. Turns(c)
    BY <1>0, <1>1, <1>4, RunStays
  <1>6. Driving(c) <=> Driving(c)'
    BY <1>1, <1>4 DEF Driving
  <1>7. TurnInv' /\ ActiveInv' /\ AloneInv'
    <2>1. run' = NoRun => unsaved' = None
      BY <1>0, <1>1 DEF TurnInv
    <2> QED
      BY <1>1, <1>4, <1>5, <1>6, <2>1, CallerGoes DEF Turns
  <1>8. overlap' \in BOOLEAN
    BY <1>0, ObserveIs
  <1>9. TypeOK'
    BY <1>0, <1>1, <1>3, <1>4, <1>8 DEF TypeOK, Moves, CallType
  <1>10. KeepInv'
    <2>1. \A d \in Callers : caller'[d].pc = "csum" => caller[d].pc = "csum" /\ caller'[d].keep = caller[d].keep
      BY <1>4 DEF Moves
    <2> QED
      BY <1>0, <1>1, <1>3, <2>1, KeepStays
  <1> QED
    BY <1>3, <1>7, <1>9, <1>10 DEF BaseInv

-----------------------------------------------------------------------------
(* compact(), abort() and what arrives meanwhile *)

\* A step that writes neither the transcript nor the calls of prompt().
LEMMA OtherBase ==
    ASSUME BaseInv, Observe, RestType', manual' \in [pc : ManualPCs, keep : Nat],
           UNCHANGED <<entries, live, unsaved, pendingBash, caller, active>>,
           used' \in UsedType, used'.messages = used.messages, run'.by = run.by, run' = NoRun => run = NoRun,
           waiters' # {} => waiters # {} \/ active,
           manual'.pc = "summarize" =>
              (manual.pc = "summarize" /\ manual'.keep = manual.keep) \/ IsKept(manual'.keep)
    PROVE  BaseInv'
  <1>0. TypeOK /\ NumberInv /\ KeepInv /\ SummaryInv /\ TurnInv
    BY DEF BaseInv
  <1>1. overlap' \in BOOLEAN
    BY <1>0, ObserveIs
  <1>2. TypeOK'
    BY <1>0, <1>1 DEF TypeOK, RestType, StreakType
  <1>3. NumberInv'
    BY <1>0 DEF NumberInv
  <1>4. KeepInv'
    BY <1>0, KeepStays DEF Grows
  <1>5. SummaryInv'
    BY <1>0, SummariesStay DEF Grows, SummaryInv
  <1>6. TurnInv' /\ ActiveInv' /\ AloneInv'
    <2>1. run' = NoRun => unsaved' = None
      BY <1>0 DEF TurnInv
    <2> QED
      BY <2>1, CallersStay
  <1> QED
    BY <1>2, <1>3, <1>4, <1>5, <1>6 DEF BaseInv

\* The run that abort() marks stays whose it is.
LEMMA AbortIs ==
    ASSUME TypeOK, AbortRun
    PROVE  /\ run' \in Runs \cup {NoRun} /\ run'.by = run.by /\ run'.step = run.step /\ (run' = NoRun <=> run = NoRun)
           /\ retryCtl' \in Controls
  <1>1. retryCtl' \in Controls
    BY DEF AbortRun, TypeOK, Controls
  <1>2. CASE run = NoRun
    BY <1>1, <1>2 DEF AbortRun
  <1>3. CASE run # NoRun
    <2>1. run \in Runs /\ run' = [run EXCEPT !.aborted = TRUE]
      BY <1>3 DEF TypeOK, AbortRun
    <2>2. run' \in Runs /\ run'.by = run.by /\ run'.step = run.step
      BY <2>1 DEF Runs
    <2>3. run' # NoRun
      BY <2>2, BoundsAssumption DEF Runs, NoRun
    <2> QED
      BY <1>1, <1>3, <2>2, <2>3
  <1> QED
    BY <1>2, <1>3

\* The steps of compact().
LEMMA CompactBase == ASSUME BaseInv, Observe, CompactStep PROVE BaseInv'
  <1>0. TypeOK /\ NumberInv /\ KeepInv /\ SummaryInv /\ TurnInv
    BY DEF BaseInv
  <1>1. used \in UsedType /\ streak \in StreakType /\ manual \in [pc : ManualPCs, keep : Nat]
    BY <1>0 DEF TypeOK, StreakType, NumberInv
  <1>2. ASSUME manual' \in [pc : ManualPCs, keep : Nat], compactCtl' \in Controls,
               manual'.pc = "summarize" => IsKept(manual'.keep),
               UNCHANGED <<transcript, run, queue, session, retryCtl, autoCtl, caller, used, streak, badContinue>>
        PROVE  BaseInv'
    <2>1. UNCHANGED <<entries, live, unsaved, run, queue, active, waiters, last, retryAttempt, overflowTried,
                      pendingBash, retryCtl, autoCtl, caller, used, streak, badContinue>>
      BY <1>2 DEF transcript, session
    <2>2. RestType'
      BY <1>0, <1>1, <1>2, <2>1 DEF TypeOK, RestType
    <2> QED
      BY <1>1, <1>2, <2>1, <2>2, OtherBase
  <1>3. CASE CompactBegin
    <2>1. manual' = [manual EXCEPT !.pc = "auth"] /\ compactCtl' = "set"
      BY <1>3 DEF CompactBegin
    <2>2. manual' \in [pc : ManualPCs, keep : Nat] /\ manual'.pc = "auth" /\ compactCtl' \in Controls
      BY <1>1, <2>1 DEF ManualPCs, Controls
    <2> QED
      BY <1>2, <1>3, <2>2 DEF CompactBegin
  <1>4. CASE CompactPrepare
    <2>1. PICK i \in CutPoints(entries) : manual' = [pc |-> "summarize", keep |-> entries[i].n]
      BY <1>4 DEF CompactPrepare
    <2>2. i \in DOMAIN entries /\ IsKept(entries[i].n)
      BY <1>0, CutIs
    <2>3. entries[i] \in Messages
      BY <1>0, <2>2 DEF TypeOK
    <2>4. manual' \in [pc : ManualPCs, keep : Nat] /\ manual'.keep = entries[i].n
      BY <2>1, <2>3 DEF ManualPCs, Messages
    <2>5. compactCtl' \in Controls
      BY <1>0, <1>4 DEF CompactPrepare, controls, TypeOK
    <2> QED
      BY <1>2, <1>4, <2>2, <2>4, <2>5 DEF CompactPrepare, controls
  <1>5. CASE CompactEnds
    <2>1. manual' = [pc |-> "idle", keep |-> 0] /\ compactCtl' = "none"
      BY <1>5 DEF CompactEnds
    <2>2. manual' \in [pc : ManualPCs, keep : Nat] /\ manual'.pc = "idle" /\ compactCtl' \in Controls
      BY <2>1 DEF ManualPCs, Controls
    <2> QED
      BY <1>2, <1>5, <2>2 DEF CompactEnds
  <1>6. CASE CompactCommit
    <2>1. /\ manual.pc = "summarize" /\ Commit(manual.keep) /\ manual' = [manual EXCEPT !.pc = "emit"]
          /\ UNCHANGED <<unsaved, run, queue, active, waiters, last, retryAttempt, overflowTried, pendingBash,
                         retryCtl, autoCtl, compactCtl, caller, streak, badContinue>>
      BY <1>6 DEF CompactCommit, session, controls
    <2>2. manual.keep \in Nat /\ IsKept(manual.keep)
      BY <1>0, <1>1, <2>1 DEF KeepInv
    <2>3. /\ entries' \in Seq(Messages) /\ Grows /\ live' \in Seq(Messages) /\ NumberInv' /\ SummaryInv'
      BY <1>0, <2>1, <2>2, CommitIs
    <2>4. manual' \in [pc : ManualPCs, keep : Nat] /\ manual'.pc = "emit"
      BY <1>1, <2>1 DEF ManualPCs
    <2>5. TurnInv' /\ ActiveInv' /\ AloneInv'
      <3>1. run' = NoRun => unsaved' = None
        BY <1>0, <2>1 DEF TurnInv
      <3> QED
        BY <2>1, <3>1, CallersStay
    <2>6. overlap' \in BOOLEAN
      BY <1>0, ObserveIs
    <2>7. TypeOK'
      BY <1>0, <2>1, <2>3, <2>4, <2>6 DEF TypeOK
    <2>8. KeepInv'
      BY <1>0, <2>1, <2>3, <2>4, KeepStays
    <2> QED
      BY <2>3, <2>5, <2>7, <2>8 DEF BaseInv
  <1> QED
    BY <1>3, <1>4, <1>5, <1>6 DEF CompactStep

\* The requests.
LEMMA RequestBase == ASSUME BaseInv, Observe, Request PROVE BaseInv'
  <1>0. TypeOK /\ NumberInv /\ KeepInv /\ SummaryInv /\ TurnInv
    BY DEF BaseInv
  <1>1. used \in UsedType /\ streak \in StreakType /\ manual \in [pc : ManualPCs, keep : Nat] /\ queue \in Nat
    BY <1>0 DEF TypeOK, StreakType, NumberInv
  <1>2. ASSUME Use("requests") PROVE used' \in UsedType /\ used'.messages = used.messages
    <2>1. used' = [used EXCEPT !["requests"] = @ + 1]
      BY <1>2 DEF Use
    <2> QED
      BY <1>1, <2>1 DEF UsedType
  <1>3. ASSUME NEW w \in {"abort", "compact"}, waiters' = IF active THEN waiters \cup {w} ELSE waiters
        PROVE  waiters' \subseteq {"abort", "compact"} /\ (waiters' # {} => waiters # {} \/ active)
    BY <1>0, <1>3 DEF TypeOK
  <1>4. ASSUME NEW c \in Callers, Prompt(c) PROVE BaseInv'
    BY <1>4, PreflightBase
  <1>5. CASE Abort
    <2>1. /\ Use("requests") /\ AbortRun /\ waiters' = IF active THEN waiters \cup {"abort"} ELSE waiters
          /\ UNCHANGED <<entries, live, unsaved, queue, active, last, retryAttempt, overflowTried, pendingBash,
                         autoCtl, compactCtl, caller, manual, streak, badContinue>>
      BY <1>5 DEF Abort, transcript
    <2>2. run' \in Runs \cup {NoRun} /\ run'.by = run.by /\ (run' = NoRun => run = NoRun) /\ retryCtl' \in Controls
      BY <1>0, <2>1, AbortIs
    <2>3. waiters' \subseteq {"abort", "compact"} /\ (waiters' # {} => waiters # {} \/ active)
      BY <1>3, <2>1
    <2>4. RestType'
      BY <1>0, <1>1, <2>1, <2>2, <2>3 DEF TypeOK, RestType
    <2> QED
      BY <1>1, <1>2, <2>1, <2>2, <2>3, <2>4, OtherBase
  <1>6. CASE Compact
    <2>1. /\ Use("requests") /\ AbortRun /\ waiters' = IF active THEN waiters \cup {"compact"} ELSE waiters
          /\ manual' = [manual EXCEPT !.pc = "wait"]
          /\ UNCHANGED <<entries, live, unsaved, queue, active, last, retryAttempt, overflowTried, pendingBash,
                         autoCtl, compactCtl, caller, streak, badContinue>>
      BY <1>6 DEF Compact, transcript
    <2>2. run' \in Runs \cup {NoRun} /\ run'.by = run.by /\ (run' = NoRun => run = NoRun) /\ retryCtl' \in Controls
      BY <1>0, <2>1, AbortIs
    <2>3. waiters' \subseteq {"abort", "compact"} /\ (waiters' # {} => waiters # {} \/ active)
      BY <1>3, <2>1
    <2>4. RestType'
      BY <1>0, <1>1, <2>1, <2>2, <2>3 DEF TypeOK, RestType
    <2>5. manual' \in [pc : ManualPCs, keep : Nat] /\ manual'.pc = "wait"
      BY <1>1, <2>1 DEF ManualPCs
    <2> QED
      BY <1>2, <2>1, <2>2, <2>3, <2>4, <2>5, OtherBase
  <1>7. CASE AbortCompaction
    <2>1. /\ Use("requests")
          /\ autoCtl' = IF autoCtl = "set" THEN "aborted" ELSE autoCtl
          /\ compactCtl' = IF compactCtl = "set" THEN "aborted" ELSE compactCtl
          /\ UNCHANGED <<entries, live, unsaved, run, queue, active, waiters, last, retryAttempt, overflowTried,
                         pendingBash, retryCtl, caller, manual, streak, badContinue>>
      BY <1>7 DEF AbortCompaction, transcript, session
    <2>2. autoCtl' \in Controls /\ compactCtl' \in Controls
      BY <1>0, <2>1 DEF TypeOK, Controls
    <2>3. RestType'
      BY <1>0, <1>1, <2>1, <2>2 DEF TypeOK, RestType
    <2> QED
      BY <1>1, <1>2, <2>1, <2>3, OtherBase
  <1>8. CASE Queue
    <2>1. /\ Use("requests") /\ queue' = queue + 1
          /\ UNCHANGED <<entries, live, unsaved, run, active, waiters, last, retryAttempt, overflowTried, pendingBash,
                         retryCtl, autoCtl, compactCtl, caller, manual, streak, badContinue>>
      BY <1>8 DEF Queue, transcript, session, controls
    <2>2. queue' \in Nat
      BY <1>1, <2>1
    <2>3. RestType'
      BY <1>0, <1>1, <2>1, <2>2 DEF TypeOK, RestType
    <2> QED
      BY <1>1, <1>2, <2>1, <2>3, OtherBase
  <1>9. CASE ClearQueue
    <2>1. /\ queue' = 0
          /\ UNCHANGED <<entries, live, unsaved, run, active, waiters, last, retryAttempt, overflowTried, pendingBash,
                         retryCtl, autoCtl, compactCtl, caller, manual, used, streak, badContinue>>
      BY <1>9 DEF ClearQueue, transcript, session, controls
    <2>2. RestType'
      BY <1>0, <1>1, <2>1 DEF TypeOK, RestType
    <2> QED
      BY <1>1, <2>1, <2>2, OtherBase
  <1>10. CASE RecordBash
    <2>1. PICK m : m = Msg("bash")
      OBVIOUS
    <2>2. m \in Messages /\ m.kind = "bash" /\ m.n = used.messages + 1 /\ used.messages \in Nat
      BY <1>0, <2>1, MsgIs DEF Kinds
    <2>3. /\ used' = [used EXCEPT !.messages = @ + 1, !.requests = @ + 1]
          /\ \/ pendingBash' = Append(pendingBash, m) /\ UNCHANGED <<live, entries>>
             \/ live' = Append(live, m) /\ entries' = Append(entries, m) /\ UNCHANGED pendingBash
          /\ UNCHANGED <<unsaved, run, queue, active, waiters, last, retryAttempt, overflowTried,
                         retryCtl, autoCtl, compactCtl, caller, manual, streak, badContinue>>
      BY <1>10, <2>1 DEF RecordBash, controls
    <2>4. used' \in UsedType /\ used'.messages = used.messages + 1
      <3>1. used.messages + 1 \in Nat /\ used.requests + 1 \in Nat
        BY <1>1 DEF UsedType
      <3>2. \A a, b \in Nat : LET u == [used EXCEPT !.messages = a, !.requests = b]
                              IN  u \in UsedType /\ u.messages = a
        BY <1>1 DEF UsedType
      <3>3. used' = [used EXCEPT !.messages = used.messages + 1, !.requests = used.requests + 1]
        BY <2>3
      <3> QED
        BY <3>1, <3>2, <3>3
    <2>5. entries \in Seq(Messages) /\ live \in Seq(Messages) /\ pendingBash \in Seq(Messages) /\ unsaved \in Messages
      BY <1>0 DEF TypeOK
    <2>6. /\ entries' \in Seq(Messages) /\ live' \in Seq(Messages) /\ pendingBash' \in Seq(Messages) /\ Grows
          /\ \A i \in DOMAIN entries' : (i \in DOMAIN entries /\ entries'[i] = entries[i]) \/ entries'[i] = m
          /\ \A i \in DOMAIN pendingBash' :
               (i \in DOMAIN pendingBash /\ pendingBash'[i] = pendingBash[i]) \/ pendingBash'[i] = m
      <3>1. CASE pendingBash' = Append(pendingBash, m) /\ UNCHANGED <<live, entries>>
        BY <2>2, <2>5, <3>1, LastAppend DEF Grows
      <3>2. CASE live' = Append(live, m) /\ entries' = Append(entries, m) /\ UNCHANGED pendingBash
        BY <2>2, <2>5, <3>2, LastAppend DEF Grows
      <3> QED
        BY <2>3, <3>1, <3>2
    <2>7. overlap' \in BOOLEAN
      BY <1>0, ObserveIs
    <2>8. TypeOK'
      BY <1>0, <2>3, <2>6, <2>7 DEF TypeOK
    <2>9. NumberInv'
      <3>1. ASSUME NEW x \in Messages, x.n <= used.messages PROVE x.n <= used.messages + 1
        BY <2>2, <3>1 DEF Messages
      <3>2. \A i \in DOMAIN entries : entries[i] \in Messages /\ entries[i].n <= used.messages
        BY <1>0, <2>5 DEF NumberInv
      <3>3. \A i \in DOMAIN pendingBash : pendingBash[i] \in Messages /\ pendingBash[i].n <= used.messages
        BY <1>0, <2>5 DEF NumberInv
      <3>4. unsaved.n <= used.messages
        BY <1>0 DEF NumberInv
      <3>5. m.n <= used.messages + 1
        BY <2>2
      <3> QED
        BY <2>3, <2>4, <2>5, <2>6, <3>1, <3>2, <3>3, <3>4, <3>5 DEF NumberInv
    <2>10. KeepInv'
      BY <1>0, <2>3, <2>6, KeepStays
    <2>11. SummaryInv'
      BY <1>0, <2>2, <2>3, <2>6, SummariesStay DEF SummaryInv
    <2>12. TurnInv' /\ ActiveInv' /\ AloneInv'
      <3>1. run' = NoRun => unsaved' = None
        BY <1>0, <2>3 DEF TurnInv
      <3> QED
        BY <2>3, <3>1, CallersStay
    <2> QED
      BY <2>8, <2>9, <2>10, <2>11, <2>12 DEF BaseInv
  <1> QED
    BY <1>4, <1>5, <1>6, <1>7, <1>8, <1>9, <1>10 DEF Request

\* Every step.
LEMMA NextBase == ASSUME BaseInv, [Next]_vars PROVE BaseInv'
  <1>1. CASE Next
    <2>1. Observe
      BY <1>1 DEF Next
    <2>2. ASSUME NEW c \in Callers, CallerStep(c) PROVE BaseInv'
      BY <2>1, <2>2, SubmitBase, PreflightBase, SettleBase, PostRunBase, CheckBase, AutoBase, AutoCommitBase DEF CallerStep
    <2> QED
      BY <1>1, <2>1, <2>2, RunBase, CompactBase, RequestBase DEF Next
  <1>2. CASE UNCHANGED vars
    <2>1. UNCHANGED <<entries, live, unsaved, run, queue, active, waiters, last, retryAttempt, overflowTried, pendingBash,
                      retryCtl, autoCtl, compactCtl, caller, manual, used, overlap, streak, badContinue>>
      BY <1>2 DEF vars, transcript, session, controls
    <2>2. TypeOK' /\ NumberInv' /\ KeepInv' /\ SummaryInv'
      BY <2>1 DEF BaseInv, TypeOK, NumberInv, KeepInv, SummaryInv, IsKept
    <2>3. TurnInv' /\ ActiveInv'
      BY <2>1 DEF BaseInv, TurnInv, ActiveInv, Driving, At
    <2>4. AloneInv'
      BY <2>1 DEF BaseInv, AloneInv, Driving, Busy
    <2> QED
      BY <2>2, <2>3, <2>4 DEF BaseInv
  <1> QED
    BY <1>1, <1>2

-----------------------------------------------------------------------------
(* Retries *)

\* The numbers.
LEMMA NumbersAre ==
    ASSUME TypeOK
    PROVE  /\ streak.failures \in Nat /\ streak.recoveries \in Nat /\ retryAttempt \in Nat /\ retryAttempt <= MaxRetries
           /\ MaxRetries \in Nat /\ Before \in Nat
           /\ NoStreak.failures = 0 /\ NoStreak.recoveries = 0
  BY BoundsAssumption DEF TypeOK, Before, NoStreak

\* Without an overlap the others wait, and the agent runs for no one else.
LEMMA OnlyCaller ==
    ASSUME BaseInv, ~ overlap, NEW c \in Callers, caller[c].pc \notin {"idle", "input"}
    PROVE  /\ \A d \in Callers \ {c} : caller[d].pc \in {"idle", "input"}
           /\ caller[c].pc # "running" => run = NoRun /\ unsaved = None
  <1>0. TypeOK /\ TurnInv /\ AloneInv
    BY DEF BaseInv
  <1>1. c \in Busy /\ \A x, y \in Busy : x = y
    BY <1>0, BusyIs DEF AloneInv
  <1>2. \A d \in Callers \ {c} : caller[d].pc \in {"idle", "input"}
    BY <1>1, BusyIs
  <1>3. ASSUME run # NoRun PROVE caller[c].pc = "running"
    <2>1. run.by \in Callers
      BY <1>0, <1>3 DEF TypeOK, Runs
    <2>2. caller[run.by].pc = "running"
      BY <1>0, <2>1 DEF TurnInv, At
    <2> QED
      BY <1>2, <2>1, <2>2
  <1> QED
    BY <1>0, <1>2, <1>3 DEF TurnInv

\* The agent runs, and the caller who awaits it is the only one under way.
LEMMA OnlyRun ==
    ASSUME BaseInv, ~ overlap, run # NoRun
    PROVE  /\ run.by \in Callers /\ caller[run.by].pc = "running" /\ active
           /\ \A d \in Callers : caller[d].pc \in {"idle", "input", "running"}
  <1>0. TypeOK /\ TurnInv /\ AloneInv
    BY DEF BaseInv
  <1>1. run.by \in Callers
    BY <1>0 DEF TypeOK, Runs
  <1>2. caller[run.by].pc = "running"
    BY <1>0, <1>1 DEF TurnInv, At
  <1>3. \A d \in Callers \ {run.by} : caller[d].pc \in {"idle", "input"}
    <2>1. PICK c : c = run.by
      OBVIOUS
    <2>2. \A d \in Callers \ {c} : caller[d].pc \in {"idle", "input"}
      BY <1>1, <1>2, <2>1, OnlyCaller
    <2> QED
      BY <2>1, <2>2
  <1>4. active
    BY <1>0, <1>1, <1>2 DEF AloneInv, Driving
  <1> QED
    BY <1>1, <1>2, <1>3, <1>4

\* A step of the only caller under way.
LEMMA AloneRetry ==
    ASSUME BaseInv, ~ overlap, NEW c \in Callers, caller[c].pc \notin {"idle", "input"}, Moves(c),
           Bounded', ErrorInv', RunInv', PostInv(c)'
    PROVE  RetryInv'
  <1>1. \A d \in Callers \ {c} : caller'[d].pc \in {"idle", "input"}
    BY OnlyCaller DEF Moves
  <1>2. \A d \in Callers \ {c} : PostInv(d)'
    BY <1>1 DEF PostInv
  <1> QED
    BY <1>2 DEF RetryInv

\* agent.continue() asks the model only while a failure is left.
LEMMA ContinueRetry ==
    ASSUME TypeOK, NEW c \in Callers, run = NoRun, unsaved = None, NEW ctx, ContinueRun(c, ctx),
           Ready \/ IsAnswer(Last(ctx)), UNCHANGED <<streak, retryAttempt, unsaved>>
    PROVE  RunInv' /\ PostInv(c)'
  <1> DEFINE ok == run = NoRun /\ ctx # <<>> /\ (IsAnswer(Last(ctx)) => queue > 0)
             fromQueue == IsAnswer(Last(ctx)) /\ queue > 0
  <1>1. /\ run' = IF ok THEN [by |-> c, step |-> IF fromQueue THEN "user" ELSE "next", aborted |-> FALSE] ELSE run
        /\ Goto(c, IF ok THEN "running" ELSE "settle")
    BY DEF ContinueRun
  <1>2. ok /\ ~ fromQueue => Ready
    OBVIOUS
  <1> HIDE DEF ok, fromQueue
  <1>3. caller'[c].pc \in {"running", "settle"}
    <2>1. PICK label \in {"running", "settle"} : Goto(c, label)
      BY <1>1
    <2>2. label \in CallerPCs
      BY DEF CallerPCs
    <2> QED
      BY <2>1, <2>2, GotoIs
  <1>4. PostInv(c)'
    BY <1>3 DEF PostInv
  <1>5. run'.step \in {"user", "next", "none"} /\ (run'.step = "next" => Ready)
    BY <1>1, <1>2 DEF NoRun
  <1>6. Ready => Ready'
    BY DEF Ready, Before
  <1> QED
    BY <1>4, <1>5, <1>6, NoneIs DEF RunInv

\* So does the end of the post-run loop.
LEMMA FinishRetry ==
    ASSUME TypeOK, NEW c \in Callers, run = NoRun, unsaved = None, Finish(c),
           Ready \/ Answered(live), UNCHANGED <<streak, retryAttempt, unsaved>>
    PROVE  RunInv' /\ PostInv(c)'
  <1>1. CASE queue > 0
    <2>1. ContinueRun(c, live)
      BY <1>1 DEF Finish
    <2> QED
      BY <2>1, ContinueRetry DEF Answered
  <1>2. CASE ~ (queue > 0)
    <2>1. Goto(c, "settle") /\ run' = run /\ "settle" \in CallerPCs
      BY <1>2 DEF Finish, CallerPCs
    <2>2. caller'[c].pc = "settle"
      BY <2>1, GotoIs
    <2> QED
      BY <2>1, <2>2 DEF RunInv, PostInv, NoRun
  <1> QED
    BY <1>1, <1>2

\* One recovery: _checkCompaction starts none after it.
LEMMA RecoverOnce == ASSUME NEW m, NEW b, "recover" \in CompactionChoices(m, b) PROVE ~ overflowTried
  <1> SUFFICES ASSUME overflowTried PROVE FALSE
    OBVIOUS
  <1>1. CompactionChoices(m, b) \subseteq {"no", "threshold"}
    BY DEF CompactionChoices
  <1> QED
    BY <1>1

\* The recovery starts the failures anew.
LEMMA RecoverRetry ==
    ASSUME TypeOK, Bounded, ErrorInv, NEW c \in Callers, NEW why \in {"pre", "post"}, NEW m, NEW b,
           NEW choice \in CompactionChoices(m, b), StartAuto(c, choice, why), unsaved = None,
           UNCHANGED <<last, unsaved, retryAttempt>>
    PROVE  /\ Bounded' /\ ErrorInv' /\ (choice = "recover" => Ready')
           /\ (choice # "recover" => UNCHANGED streak)
  <1>0. /\ streak.failures \in Nat /\ streak.recoveries \in Nat /\ retryAttempt \in Nat /\ MaxRetries \in Nat
    BY NumbersAre
  <1>1. CASE choice = "recover"
    <2>1. ~ overflowTried
      BY <1>1, RecoverOnce
    <2>2. streak.recoveries = 0 /\ streak.failures <= MaxRetries + 1
      BY <1>0, <2>1 DEF Bounded, Before
    <2>3. streak' = [streak EXCEPT !.recoveries = @ + 1] /\ overflowTried'
      BY <1>1 DEF StartAuto
    <2>4. streak'.recoveries = 1 /\ streak'.failures = streak.failures
      BY <2>2, <2>3 DEF TypeOK
    <2>5. Before' = MaxRetries + 1
      BY <2>4 DEF Before
    <2>6. Bounded' /\ Ready'
      BY <1>0, <2>2, <2>3, <2>4, <2>5 DEF Bounded, Ready
    <2>7. ErrorInv'
      <3>1. streak'.failures <= Before' + retryAttempt' + 1
        BY <1>0, <2>2, <2>4, <2>5
      <3>2. unsaved'.kind \notin Answers
        BY NoneIs DEF IsAnswer
      <3> QED
        BY <3>1, <3>2 DEF ErrorInv
    <2> QED
      BY <1>1, <2>6, <2>7
  <1>2. CASE choice # "recover"
    <2>1. streak' = streak /\ (overflowTried => overflowTried')
      BY <1>2 DEF StartAuto
    <2> QED
      BY <1>2, <2>1 DEF Bounded, ErrorInv, Before
  <1> QED
    BY <1>1, <1>2

\* The steps of the run.
LEMMA RunRetry == ASSUME BaseInv, RetryInv, Observe, AgentStep, ~ overlap' PROVE RetryInv'
  <1>0. TypeOK /\ NumberInv /\ TurnInv /\ ~ overlap
    BY ObserveIs DEF BaseInv
  <1>1. Bounded /\ ErrorInv /\ RunInv /\ \A c \in Callers : PostInv(c)
    BY <1>0 DEF RetryInv
  <1>2. /\ streak.failures \in Nat /\ streak.recoveries \in Nat /\ retryAttempt \in Nat /\ retryAttempt <= MaxRetries
        /\ MaxRetries \in Nat /\ Before \in Nat /\ NoStreak.failures = 0 /\ NoStreak.recoveries = 0
    BY <1>0, NumbersAre
  <1>3. ASSUME run # NoRun, UNCHANGED caller, Bounded', ErrorInv', RunInv' PROVE RetryInv'
    <2>1. \A d \in Callers : caller'[d].pc \in {"idle", "input", "running"}
      BY <1>0, <1>3, OnlyRun
    <2>2. \A d \in Callers : PostInv(d)'
      BY <2>1 DEF PostInv
    <2> QED
      BY <1>3, <2>2 DEF RetryInv
  <1>4. run.step # "none" => run # NoRun
    BY DEF NoRun
  <1>5. ASSUME NEW k \in Kinds, NEW step \in RunSteps, run.step \in RunSteps, Emit(Msg(k), step)
        PROVE  /\ run # NoRun /\ unsaved' \in Messages /\ unsaved'.kind = k /\ run'.step = step /\ Last(live') = unsaved'
               /\ UNCHANGED <<last, retryAttempt, caller>>
    <2>1. PICK m : m = Msg(k)
      OBVIOUS
    <2>2. m \in Messages /\ m.kind = k
      BY <1>0, <2>1, MsgIs
    <2>3. live' = Append(live, m) /\ unsaved' = m /\ run' = [run EXCEPT !.step = step] /\ UNCHANGED <<last, retryAttempt, caller>>
      BY <1>5, <2>1 DEF Emit
    <2>4. run'.step = step
      BY <1>0, <1>5, <2>3, RunIs
    <2>5. Last(live') = m
      <3>1. live \in Seq(Messages)
        BY <1>0 DEF TypeOK
      <3> QED
        BY <2>2, <2>3, <3>1, LastAppend
    <2>6. run # NoRun
      BY <1>4, <1>5 DEF RunSteps
    <2> QED
      BY <2>2, <2>3, <2>4, <2>5, <2>6
  <1>6. ASSUME NEW step \in {"next", "respond"}, run.step \in RunSteps, UserMessage(step) PROVE RetryInv'
    <2>1. Emit(Msg("user"), step) /\ overflowTried' = FALSE /\ streak' = NoStreak
      BY <1>6 DEF UserMessage
    <2>2. "user" \in Kinds /\ step \in RunSteps
      BY DEF Kinds, RunSteps
    <2>3. run # NoRun /\ unsaved'.kind = "user" /\ run'.step = step /\ UNCHANGED <<last, retryAttempt, caller>>
      BY <1>5, <1>6, <2>1, <2>2
    <2>4. Before' = 0 /\ streak'.failures = 0 /\ streak'.recoveries = 0
      BY <1>2, <2>1 DEF Before
    <2>5. Bounded'
      BY <1>2, <2>4 DEF Bounded
    <2>6. ErrorInv'
      BY <1>2, <2>1, <2>3, <2>4 DEF ErrorInv
    <2>7. RunInv'
      <3>1. Ready'
        BY <1>2, <2>3, <2>4 DEF Ready
      <3>2. ~ IsAnswer(unsaved')
        BY <2>3 DEF IsAnswer, Answers, Failed, Errors
      <3> QED
        BY <2>3, <3>1, <3>2 DEF RunInv
    <2> QED
      BY <1>3, <2>3, <2>5, <2>6, <2>7
  <1>7. CASE RunPrompt
    BY <1>6, <1>7 DEF RunPrompt, RunSteps
  <1>8. CASE RunDrain
    BY <1>6, <1>8 DEF RunDrain, RunSteps
  <1>9. ASSUME NEW k \in Answers, RunRespond(k) PROVE RetryInv'
    <2>1. PICK step : /\ step = (CASE k = "toolUse" -> "tools" [] k \in {"stop", "length"} -> "after" [] OTHER -> "end")
                      /\ Emit(Msg(k), step)
      BY <1>9 DEF RunRespond
    <2>2. /\ run.step \in {"respond", "next"} /\ UNCHANGED overflowTried
          /\ streak' = IF k \in Failed THEN [streak EXCEPT !.failures = @ + 1] ELSE NoStreak
      BY <1>9 DEF RunRespond
    <2>3. step \in {"tools", "after", "end"} /\ (step = "tools" => k = "toolUse")
      BY <2>1
    <2>4. step \in RunSteps /\ run.step \in RunSteps /\ k \in Kinds
      BY <2>2, <2>3 DEF RunSteps, Kinds
    <2>5. /\ run # NoRun /\ unsaved' \in Messages /\ unsaved'.kind = k /\ run'.step = step /\ Last(live') = unsaved'
          /\ UNCHANGED <<last, retryAttempt, caller>>
      BY <1>5, <2>1, <2>4
    <2>6. Ready
      BY <1>1, <2>2 DEF RunInv
    <2>7. RunInv'
      <3>1. IsAnswer(unsaved') /\ unsaved' # None
        BY <2>5, NoneIs DEF IsAnswer
      <3>2. step = "tools" => Fresh'
        BY <1>2, <2>2, <2>3 DEF Failed, Errors, Fresh
      <3> QED
        BY <2>3, <2>5, <3>1, <3>2 DEF RunInv, Answered
    <2>8. Bounded' /\ ErrorInv'
      <3>1. CASE k \in Failed
        <4>1. streak'.failures = streak.failures + 1 /\ streak'.recoveries = streak.recoveries
          BY <1>0, <2>2, <3>1 DEF TypeOK
        <4>2. Before' = Before
          BY <4>1 DEF Before
        <4>3. Bounded'
          BY <1>1, <1>2, <2>2, <2>6, <4>1, <4>2 DEF Bounded, Ready
        <4>4. streak'.failures <= Before' + retryAttempt' + 1
          BY <1>2, <2>5, <2>6, <4>1, <4>2 DEF Ready
        <4> QED
          BY <2>5, <3>1, <4>3, <4>4 DEF ErrorInv
      <3>2. CASE k \notin Failed
        <4>1. streak' = NoStreak
          BY <2>2, <3>2
        <4>2. Before' = 0 /\ streak'.failures = 0 /\ streak'.recoveries = 0
          BY <1>2, <4>1 DEF Before
        <4>3. Bounded'
          BY <1>2, <4>2 DEF Bounded
        <4>4. ErrorInv'
          BY <1>2, <2>5, <4>1, <4>2 DEF ErrorInv
        <4> QED
          BY <4>3, <4>4
      <3> QED
        BY <3>1, <3>2
    <2> QED
      BY <1>3, <2>5, <2>7, <2>8
  <1>10. CASE RunTools
    <2>1. run.step = "tools" /\ Emit(Msg("toolResult"), "next") /\ UNCHANGED <<overflowTried, streak>>
      BY <1>10 DEF RunTools
    <2>2. "toolResult" \in Kinds /\ "next" \in RunSteps /\ "tools" \in RunSteps
      BY DEF Kinds, RunSteps
    <2>3. run # NoRun /\ unsaved'.kind = "toolResult" /\ run'.step = "next" /\ UNCHANGED <<last, retryAttempt, caller>>
      BY <1>5, <2>1, <2>2
    <2>4. Fresh /\ "toolResult" \notin Answers
      BY <1>1, <2>1 DEF RunInv, Answers, Failed, Errors
    <2>5. Bounded'
      BY <1>1, <2>1 DEF Bounded, Before
    <2>6. ErrorInv'
      BY <1>1, <1>2, <2>1, <2>3, <2>4 DEF ErrorInv, Fresh, Before
    <2>7. Ready'
      BY <1>2, <2>1, <2>3, <2>4 DEF Ready, Fresh, Before
    <2>8. RunInv'
      BY <2>3, <2>4, <2>7 DEF RunInv, IsAnswer
    <2> QED
      BY <1>3, <2>3, <2>5, <2>6, <2>8
  <1>11. CASE RunStops
    <2>1. /\ run.step = "after" /\ run' = [run EXCEPT !.step = "end"]
          /\ UNCHANGED <<entries, live, unsaved, last, retryAttempt, overflowTried, caller, streak>>
      BY <1>11 DEF RunStops, transcript, session
    <2>2. run'.step = "end" /\ run # NoRun
      BY <1>0, <1>4, <2>1, RunIs DEF RunSteps
    <2>3. Bounded' /\ ErrorInv'
      BY <1>1, <2>1 DEF Bounded, ErrorInv, Before
    <2>4. RunInv'
      BY <1>1, <2>1, <2>2 DEF RunInv, Answered
    <2> QED
      BY <1>3, <2>1, <2>2, <2>3, <2>4
  <1>12. CASE RunEnds
    <2>1. /\ run.step = "end" /\ unsaved = None /\ Goto(run.by, "post") /\ run' = NoRun
          /\ UNCHANGED <<entries, live, unsaved, last, retryAttempt, overflowTried, streak>>
      BY <1>12 DEF RunEnds, transcript, session
    <2>2. PICK c : c = run.by
      OBVIOUS
    <2>3. c \in Callers /\ caller[c].pc = "running"
      BY <1>0, <1>4, <2>1, <2>2, OnlyRun
    <2>4. Moves(c) /\ caller'[c].pc = "post"
      BY <1>0, <2>1, <2>2, <2>3, GotoIs DEF CallerPCs
    <2>5. Answered(live) /\ Answered(entries)
      BY <1>1, <2>1 DEF RunInv
    <2>6. PostInv(c)'
      BY <2>1, <2>4, <2>5 DEF PostInv, Answered
    <2>7. Bounded' /\ ErrorInv' /\ RunInv'
      BY <1>1, <2>1 DEF Bounded, ErrorInv, Before, RunInv, NoRun
    <2> QED
      BY <1>0, <2>3, <2>4, <2>6, <2>7, AloneRetry
  <1>13. CASE Persist
    <2>1. /\ unsaved # None /\ unsaved' = None /\ entries' = Append(entries, unsaved)
          /\ last' = IF IsAnswer(unsaved) THEN unsaved ELSE last
          /\ overflowTried' = (overflowTried /\ ~ EndsRecovery(unsaved))
          /\ retryAttempt' = IF IsAnswer(unsaved) /\ unsaved.kind \notin Errors THEN 0 ELSE retryAttempt
          /\ UNCHANGED <<live, run, caller, streak>>
      BY <1>13 DEF Persist
    <2>2. run # NoRun
      BY <1>0, <2>1 DEF TurnInv
    <2>3. Last(entries') = unsaved
      <3>1. entries \in Seq(Messages) /\ unsaved \in Messages
        BY <1>0 DEF TypeOK
      <3> QED
        BY <2>1, <3>1, LastAppend
    <2>4. Before' = Before
      BY <2>1 DEF Before
    <2>5. Bounded'
      <3>1. EndsRecovery(unsaved) => streak.recoveries = 0
        BY <1>1, <1>2 DEF EndsRecovery, IsAnswer, ErrorInv
      <3>2. streak.recoveries # 0 => overflowTried'
        BY <1>1, <2>1, <3>1 DEF Bounded
      <3> QED
        BY <1>1, <2>1, <2>4, <3>2 DEF Bounded
    <2>6. ErrorInv'
      <3>1. unsaved'.kind \notin Answers /\ unsaved'.kind \notin Errors
        BY <2>1, NoneIs DEF IsAnswer
      <3>2. ASSUME last'.kind \in Errors PROVE streak.failures <= Before + retryAttempt' + 1
        <4>1. CASE IsAnswer(unsaved)
          <5>1. unsaved.kind \in Errors /\ retryAttempt' = retryAttempt
            BY <2>1, <3>2, <4>1
          <5> QED
            BY <1>1, <5>1 DEF ErrorInv
        <4>2. CASE ~ IsAnswer(unsaved)
          <5>1. last.kind \in Errors /\ retryAttempt' = retryAttempt
            BY <2>1, <3>2, <4>2
          <5> QED
            BY <1>1, <5>1 DEF ErrorInv
        <4> QED
          BY <4>1, <4>2
      <3> QED
        BY <2>1, <2>4, <3>1, <3>2 DEF ErrorInv
    <2>7. RunInv'
      <3>1. run.step \in {"respond", "next"} => Ready'
        <4>1. run.step \in {"respond", "next"} => Ready /\ retryAttempt' = retryAttempt
          BY <1>1, <2>1 DEF RunInv
        <4> QED
          BY <2>1, <2>4, <4>1 DEF Ready
      <3>2. run.step = "tools" => Fresh'
        BY <1>1, <2>1 DEF RunInv, Fresh
      <3>3. run.step \in {"after", "end"} => Answered(live') /\ Answered(entries')
        BY <1>1, <2>1, <2>3 DEF RunInv, Answered
      <3> QED
        BY <2>1, <3>1, <3>2, <3>3, NoneIs DEF RunInv, Answered
    <2> QED
      BY <1>3, <2>1, <2>2, <2>5, <2>6, <2>7
  <1> QED
    BY <1>7, <1>8, <1>9, <1>10, <1>11, <1>12, <1>13 DEF AgentStep

\* A step of a caller that leaves the answers and the run as they are.
LEMMA StillRetry ==
    ASSUME RetryInv, ~ overlap, NEW c \in Callers, Moves(c), PostInv(c)',
           UNCHANGED <<entries, live, unsaved, run, last, retryAttempt, overflowTried, streak>>
    PROVE  RetryInv'
  <1>1. Bounded /\ ErrorInv /\ RunInv /\ \A d \in Callers : PostInv(d)
    BY DEF RetryInv
  <1>2. Bounded' /\ ErrorInv'
    BY <1>1 DEF Bounded, ErrorInv, Before
  <1>3. RunInv'
    BY <1>1 DEF RunInv, Ready, Fresh, Before, Answered
  <1>4. ASSUME NEW d \in Callers \ {c} PROVE PostInv(d)'
    <2>1. caller'[d] = caller[d] /\ PostInv(d)
      BY <1>1 DEF Moves
    <2> QED
      BY <2>1 DEF PostInv, Ready, Fresh, Before, Answered
  <1> QED
    BY <1>2, <1>3, <1>4 DEF RetryInv

\* A caller who leaves the agent alone.
LEMMA IdleRetry ==
    ASSUME BaseInv, ~ overlap, NEW c \in Callers, caller[c].pc \notin {"idle", "input"}, Moves(c), run = NoRun,
           UNCHANGED run, Bounded', ErrorInv', PostInv(c)'
    PROVE  RetryInv'
  <1>1. RunInv'
    BY DEF RunInv, NoRun
  <1> QED
    BY <1>1, AloneRetry

\* prompt() and its preflight, and the end of a run.
LEMMA PreflightRetry ==
    ASSUME BaseInv, RetryInv, Observe, ~ overlap', NEW c \in Callers,
           Prompt(c) \/ Submit(c) \/ Preflight(c) \/ Start(c) \/ Launch(c) \/ Settle(c) \/ Settled(c)
    PROVE  RetryInv'
  <1>0. TypeOK /\ TurnInv /\ ~ overlap /\ \A x, y \in Busy' : x = y
    BY ObserveIs DEF BaseInv
  <1>1. Bounded /\ ErrorInv /\ RunInv /\ \A d \in Callers : PostInv(d)
    BY <1>0 DEF RetryInv
  <1>2. ASSUME UNCHANGED <<unsaved, last, retryAttempt, overflowTried, streak>> PROVE Bounded' /\ ErrorInv'
    BY <1>1, <1>2 DEF Bounded, ErrorInv, Before
  <1>3. CASE Prompt(c)
    <2>1. /\ Goto(c, "input") /\ UNCHANGED <<entries, live, unsaved, run, last, retryAttempt, overflowTried, streak>>
      BY <1>3 DEF Prompt, transcript, session
    <2>2. Moves(c) /\ caller'[c].pc = "input"
      BY <1>0, <2>1, GotoIs DEF CallerPCs
    <2>3. PostInv(c)'
      BY <2>2 DEF PostInv
    <2> QED
      BY <1>0, <2>1, <2>2, <2>3, StillRetry
  <1>4. CASE Submit(c)
    <2>1. UNCHANGED <<unsaved, run, last, retryAttempt, overflowTried, streak>>
      BY <1>4 DEF Submit
    <2>2. CASE Goto(c, "idle") /\ UNCHANGED <<entries, live>>
      <3>1. Moves(c) /\ caller'[c].pc = "idle"
        BY <1>0, <2>2, GotoIs DEF CallerPCs
      <3>2. PostInv(c)'
        BY <3>1 DEF PostInv
      <3> QED
        BY <1>0, <2>1, <2>2, <3>1, <3>2, StillRetry
    <2>3. CASE Goto(c, "auth")
      <3>1. Moves(c) /\ caller'[c].pc = "auth"
        BY <1>0, <2>3, GotoIs DEF CallerPCs
      <3>2. \A d \in Callers : caller'[d].pc \notin {"idle", "input"} => d \in Busy'
        BY DEF Busy
      <3>3. \A d \in Callers \ {c} : caller'[d].pc \in {"idle", "input"}
        BY <1>0, <3>1, <3>2
      <3>4. \A d \in Callers : PostInv(d)'
        BY <3>1, <3>3 DEF PostInv
      <3>5. caller[c].pc = "input"
        BY <1>4 DEF Submit, At
      <3>6. run = NoRun
        <4>1. ASSUME run # NoRun PROVE FALSE
          <5>1. run.by \in Callers /\ caller[run.by].pc = "running"
            BY <1>0, <4>1, OnlyRun
          <5>2. PICK d \in Callers : d = run.by
            BY <5>1
          <5>3. d # c /\ caller'[d].pc = "running"
            BY <3>1, <3>5, <5>1, <5>2 DEF Moves
          <5> QED
            BY <3>3, <5>3
        <4> QED
          BY <4>1
      <3>7. RunInv'
        BY <2>1, <3>6 DEF RunInv, NoRun
      <3> QED
        BY <1>2, <2>1, <3>4, <3>7 DEF RetryInv
    <2> QED
      BY <1>4, <2>2, <2>3 DEF Submit
  <1>5. ASSUME caller[c].pc \notin {"idle", "input", "running"} PROVE run = NoRun /\ unsaved = None
    BY <1>0, <1>5, OnlyCaller
  <1>6. CASE Preflight(c)
    <2>1. /\ caller[c].pc = "auth"
          /\ UNCHANGED <<unsaved, run, last, retryAttempt>>
          /\ \/ \E label \in {"idle", "start"} : Goto(c, label) /\ UNCHANGED <<overflowTried, streak>>
             \/ \E m : \E choice \in CompactionChoices(m, FALSE) : StartAuto(c, choice, "pre")
      BY <1>6 DEF Preflight, At, transcript
    <2>2. ASSUME NEW label \in {"idle", "start"}, Goto(c, label), UNCHANGED <<overflowTried, streak>> PROVE RetryInv'
      <3>1. label \in CallerPCs
        BY DEF CallerPCs
      <3>2. Moves(c) /\ caller'[c].pc = label
        BY <1>0, <2>2, <3>1, GotoIs
      <3>3. PostInv(c)'
        BY <3>2 DEF PostInv
      <3> QED
        BY <1>0, <1>2, <1>5, <2>1, <2>2, <3>2, <3>3, IdleRetry
    <2>3. ASSUME NEW m, NEW choice \in CompactionChoices(m, FALSE), StartAuto(c, choice, "pre") PROVE RetryInv'
      <3>1. Moves(c) /\ caller'[c].pc = "cauth" /\ caller'[c].why = "pre"
        BY <1>0, <2>3, AutoIs
      <3>2. Bounded' /\ ErrorInv'
        <4>1. PICK b : b = FALSE
          OBVIOUS
        <4>2. choice \in CompactionChoices(m, b)
          BY <2>3, <4>1
        <4> QED
          BY <1>0, <1>1, <1>5, <2>1, <2>3, <4>2, RecoverRetry
      <3>3. PostInv(c)'
        BY <3>1 DEF PostInv
      <3> QED
        BY <1>0, <1>5, <2>1, <3>1, <3>2, <3>3, IdleRetry
    <2> QED
      BY <2>1, <2>2, <2>3
  <1>7. CASE Start(c)
    <2>1. caller[c].pc = "start" /\ Goto(c, "sync") /\ UNCHANGED <<unsaved, run, last, retryAttempt, overflowTried, streak>>
      BY <1>7 DEF Start, At, transcript
    <2>2. Moves(c) /\ caller'[c].pc = "sync"
      BY <1>0, <2>1, GotoIs DEF CallerPCs
    <2>3. PostInv(c)'
      BY <2>2 DEF PostInv
    <2> QED
      BY <1>0, <1>2, <1>5, <2>1, <2>2, <2>3, IdleRetry
  <1>8. CASE Launch(c)
    <2>1. /\ caller[c].pc = "sync" /\ UNCHANGED <<unsaved, last, retryAttempt, overflowTried, streak>>
          /\ run = NoRun => run' = [by |-> c, step |-> "user", aborted |-> FALSE] /\ Goto(c, "running")
      BY <1>8 DEF Launch, At, transcript, session
    <2>2. run = NoRun
      BY <1>5, <2>1
    <2>3. Moves(c) /\ caller'[c].pc = "running"
      BY <1>0, <2>1, <2>2, GotoIs DEF CallerPCs
    <2>4. PostInv(c)'
      BY <2>3 DEF PostInv
    <2>5. RunInv'
      BY <2>1, <2>2 DEF RunInv
    <2> QED
      BY <1>0, <1>2, <2>1, <2>3, <2>4, <2>5, AloneRetry
  <1>9. CASE Settle(c)
    <2>1. caller[c].pc = "settle" /\ Goto(c, "settling") /\ UNCHANGED <<unsaved, run, last, retryAttempt, overflowTried, streak>>
      BY <1>9 DEF Settle, At
    <2>2. Moves(c) /\ caller'[c].pc = "settling"
      BY <1>0, <2>1, GotoIs DEF CallerPCs
    <2>3. PostInv(c)'
      BY <2>2 DEF PostInv
    <2> QED
      BY <1>0, <1>2, <1>5, <2>1, <2>2, <2>3, IdleRetry
  <1>10. CASE Settled(c)
    <2>1. /\ caller[c].pc = "settling" /\ caller' = [caller EXCEPT ![c] = NoCall]
          /\ UNCHANGED <<unsaved, run, last, retryAttempt, overflowTried, streak>>
      BY <1>10 DEF Settled, At, transcript
    <2>2. Moves(c) /\ caller'[c].pc = "idle"
      <3>1. caller \in [Callers -> CallType]
        BY <1>0 DEF TypeOK, CallType
      <3>2. NoCall \in CallType /\ NoCall.pc = "idle"
        BY NoneIs DEF NoCall, CallType, CallerPCs
      <3> QED
        BY <2>1, <3>1, <3>2 DEF Moves
    <2>3. PostInv(c)'
      BY <2>2 DEF PostInv
    <2> QED
      BY <1>0, <1>2, <1>5, <2>1, <2>2, <2>3, IdleRetry
  <1> QED
    BY <1>3, <1>4, <1>6, <1>7, <1>8, <1>9, <1>10

\* The post-run loop.
LEMMA PostRetry ==
    ASSUME BaseInv, RetryInv, Observe, ~ overlap', NEW c \in Callers,
           PostRun(c) \/ BackoffOver(c) \/ CheckCompaction(c)
    PROVE  RetryInv'
  <1>0. TypeOK /\ TurnInv /\ ~ overlap
    BY ObserveIs DEF BaseInv
  <1>1. Bounded /\ ErrorInv /\ PostInv(c)
    BY <1>0 DEF RetryInv
  <1>2. /\ streak.failures \in Nat /\ streak.recoveries \in Nat /\ retryAttempt \in Nat
        /\ MaxRetries \in Nat /\ Before \in Nat /\ NoStreak.failures = 0 /\ NoStreak.recoveries = 0
    BY <1>0, NumbersAre
  <1>3. caller \in [Callers -> CallType]
    BY <1>0 DEF TypeOK, CallType
  <1>4. caller[c].pc \in {"post", "backoff", "check"}
    BY DEF PostRun, BackoffOver, CheckCompaction, At
  <1>5. run = NoRun /\ unsaved = None
    BY <1>0, <1>4, OnlyCaller
  <1>6. CASE PostRun(c)
    <2>1. /\ caller[c].pc = "post" /\ last' = None
          /\ UNCHANGED <<entries, unsaved, run, overflowTried, streak>>
      BY <1>6 DEF PostRun, At
    <2>2. Bounded'
      BY <1>1, <2>1 DEF Bounded, Before
    <2>3. ErrorInv'
      BY <1>5, <2>1, NoneIs DEF ErrorInv, IsAnswer
    <2>4. Answered(live) /\ Answered(entries)
      BY <1>1, <2>1 DEF PostInv
    <2>5. CASE Goto(c, "settle")
      <3>1. Moves(c) /\ caller'[c].pc = "settle"
        BY <1>0, <2>5, GotoIs DEF CallerPCs
      <3>2. PostInv(c)'
        BY <3>1 DEF PostInv
      <3> QED
        BY <1>0, <1>4, <1>5, <2>1, <2>2, <2>3, <3>1, <3>2, IdleRetry
    <2>6. ASSUME NEW label \in {"backoff", "check"}, caller' = [caller EXCEPT ![c] = [@ EXCEPT !.pc = label, !.msg = last]]
          PROVE  Moves(c) /\ caller'[c].pc = label
      <3>1. last \in Messages
        BY <1>0 DEF TypeOK
      <3> QED
        BY <1>3, <2>6, <3>1 DEF Moves, CallType, CallerPCs
    <2>7. CASE /\ WillRetry(last) /\ retryAttempt' = retryAttempt + 1
               /\ caller' = [caller EXCEPT ![c] = [@ EXCEPT !.pc = "backoff", !.msg = last]]
      <3>1. Moves(c) /\ caller'[c].pc = "backoff"
        BY <2>6, <2>7
      <3>2. last.kind \in Errors
        BY <2>7 DEF WillRetry, Errors
      <3>3. streak.failures <= Before + retryAttempt + 1
        BY <1>1, <3>2 DEF ErrorInv
      <3>4. Ready'
        <4>1. Before' = Before /\ streak'.failures = streak.failures
          BY <2>1 DEF Before
        <4> QED
          BY <1>2, <2>7, <3>3, <4>1 DEF Ready
      <3>5. PostInv(c)'
        BY <3>1, <3>4 DEF PostInv
      <3> QED
        BY <1>0, <1>4, <1>5, <2>1, <2>2, <2>3, <3>1, <3>5, IdleRetry
    <2>8. CASE /\ UNCHANGED live
               /\ caller' = [caller EXCEPT ![c] = [@ EXCEPT !.pc = "check", !.msg = last]]
      <3>1. Moves(c) /\ caller'[c].pc = "check"
        BY <2>6, <2>8
      <3>2. PostInv(c)'
        BY <2>1, <2>4, <2>8, <3>1 DEF PostInv, Answered
      <3> QED
        BY <1>0, <1>4, <1>5, <2>1, <2>2, <2>3, <3>1, <3>2, IdleRetry
    <2> QED
      BY <1>6, <2>5, <2>7, <2>8 DEF PostRun
  <1>7. CASE BackoffOver(c)
    <2>1. /\ caller[c].pc = "backoff" /\ UNCHANGED <<entries, live, unsaved, last, overflowTried>>
      BY <1>7 DEF BackoffOver, At, transcript
    <2>2. CASE streak' = NoStreak /\ retryAttempt' = 0 /\ Goto(c, "check") /\ UNCHANGED run
      <3>1. Moves(c) /\ caller'[c].pc = "check"
        BY <1>0, <2>2, GotoIs DEF CallerPCs
      <3>2. Before' = 0 /\ streak'.failures = 0 /\ streak'.recoveries = 0
        BY <1>2, <2>2 DEF Before
      <3>3. Bounded' /\ ErrorInv'
        BY <1>2, <2>2, <3>2 DEF Bounded, ErrorInv
      <3>4. PostInv(c)'
        BY <3>1, <3>2 DEF PostInv, Fresh
      <3> QED
        BY <1>0, <1>4, <1>5, <2>2, <3>1, <3>3, <3>4, IdleRetry
    <2>3. CASE ContinueRun(c, live) /\ UNCHANGED <<retryAttempt, streak>>
      <3>1. Moves(c)
        BY <1>0, <2>1, <2>3, ContinueIs
      <3>2. Ready
        BY <1>1, <2>1 DEF PostInv
      <3>3. RunInv' /\ PostInv(c)'
        BY <1>0, <1>5, <2>1, <2>3, <3>2, ContinueRetry
      <3>4. Bounded' /\ ErrorInv'
        BY <1>1, <2>1, <2>3 DEF Bounded, ErrorInv, Before
      <3> QED
        BY <1>0, <1>4, <3>1, <3>3, <3>4, AloneRetry
    <2> QED
      BY <1>7, <2>2, <2>3 DEF BackoffOver
  <1>8. CASE CheckCompaction(c)
    <2>1. /\ caller[c].pc = "check" /\ UNCHANGED <<entries, live, unsaved, last, retryAttempt>>
          /\ \/ Finish(c) /\ UNCHANGED <<overflowTried, streak>>
             \/ \E m : \E choice \in CompactionChoices(m, TRUE) : StartAuto(c, choice, "post") /\ UNCHANGED run
      BY <1>8 DEF CheckCompaction, At, transcript
    <2>2. Fresh \/ (Answered(live) /\ Answered(entries))
      BY <1>1, <2>1 DEF PostInv
    <2>3. CASE Finish(c) /\ UNCHANGED <<overflowTried, streak>>
      <3>1. Moves(c)
        BY <1>0, <2>1, <2>3, FinishIs
      <3>2. Fresh => Ready
        BY <1>2 DEF Fresh, Ready
      <3>3. RunInv' /\ PostInv(c)'
        BY <1>0, <1>5, <2>1, <2>2, <2>3, <3>2, FinishRetry
      <3>4. Bounded' /\ ErrorInv'
        BY <1>1, <2>1, <2>3 DEF Bounded, ErrorInv, Before
      <3> QED
        BY <1>0, <1>4, <3>1, <3>3, <3>4, AloneRetry
    <2>4. ASSUME NEW m, NEW choice \in CompactionChoices(m, TRUE), StartAuto(c, choice, "post"), UNCHANGED run
          PROVE  RetryInv'
      <3>1. Moves(c) /\ caller'[c].pc = "cauth" /\ caller'[c].why = "post" /\ (caller'[c].retry <=> choice = "recover")
        BY <1>0, <2>4, AutoIs
      <3>2. Bounded' /\ ErrorInv' /\ (choice = "recover" => Ready') /\ (choice # "recover" => UNCHANGED streak)
        <4>1. PICK b : b = TRUE
          OBVIOUS
        <4>2. choice \in CompactionChoices(m, b)
          BY <2>4, <4>1
        <4> QED
          BY <1>0, <1>1, <1>5, <2>1, <2>4, <4>2, RecoverRetry
      <3>3. PostInv(c)'
        <4>1. CASE choice = "recover"
          BY <3>1, <3>2, <4>1 DEF PostInv
        <4>2. CASE choice # "recover"
          BY <2>1, <2>2, <3>1, <3>2, <4>2 DEF PostInv, Fresh, Answered
        <4> QED
          BY <4>1, <4>2
      <3> QED
        BY <1>0, <1>4, <1>5, <2>4, <3>1, <3>2, <3>3, IdleRetry
    <2> QED
      BY <2>1, <2>3, <2>4
  <1> QED
    BY <1>6, <1>7, <1>8

\* Automatic compaction.
LEMMA AutoRetry ==
    ASSUME BaseInv, RetryInv, Observe, ~ overlap', NEW c \in Callers,
           AutoPrepare(c) \/ AutoSummaryFails(c) \/ AutoCommit(c) \/ AutoDone(c)
    PROVE  RetryInv'
  <1>0. TypeOK /\ TurnInv /\ ~ overlap /\ NumberInv /\ KeepInv /\ SummaryInv
    BY ObserveIs DEF BaseInv
  <1>1. Bounded /\ ErrorInv /\ PostInv(c)
    BY <1>0 DEF RetryInv
  <1>2. /\ streak.failures \in Nat /\ retryAttempt \in Nat /\ Before \in Nat
    BY <1>0, NumbersAre
  <1>3. caller \in [Callers -> CallType] /\ caller[c].why \in {"pre", "post"} /\ caller[c].retry \in BOOLEAN
    BY <1>0 DEF TypeOK, CallType
  <1>4. caller[c].pc \in {"cauth", "csum", "cemit"}
    BY DEF AutoPrepare, AutoSummaryFails, AutoCommit, AutoDone, At
  <1>5. run = NoRun /\ unsaved = None
    BY <1>0, <1>4, OnlyCaller
  <1>6. UNCHANGED <<unsaved, last, retryAttempt, overflowTried, streak>>
    BY DEF AutoPrepare, AutoSummaryFails, AutoCommit, AutoDone, transcript, session
  <1>7. Bounded' /\ ErrorInv'
    BY <1>1, <1>6 DEF Bounded, ErrorInv, Before
  <1>8. Fresh => Ready
    BY <1>2 DEF Fresh, Ready
  <1>9. caller[c].why = "post" => IF caller[c].retry THEN Ready
                                  ELSE Fresh \/ (Answered(live) /\ (caller[c].pc # "cemit" => Answered(entries)))
    BY <1>1, <1>4 DEF PostInv
  <1>10. ASSUME NEW label \in {"start", "settle"}, Goto(c, label), UNCHANGED run PROVE RetryInv'
    <2>1. label \in CallerPCs
      BY DEF CallerPCs
    <2>2. Moves(c) /\ caller'[c].pc = label
      BY <1>0, <1>10, <2>1, GotoIs
    <2>3. PostInv(c)'
      BY <2>2 DEF PostInv
    <2> QED
      BY <1>0, <1>4, <1>5, <1>7, <1>10, <2>2, <2>3, IdleRetry
  <1>11. ASSUME AutoFails(c) PROVE RetryInv'
    <2>1. CASE caller[c].why = "pre"
      BY <1>10, <1>11, <2>1 DEF AutoFails
    <2>2. CASE caller[c].why = "post"
      <3>1. Finish(c)
        BY <1>11, <2>2 DEF AutoFails
      <3>2. Moves(c)
        BY <1>0, <1>4, <3>1, FinishIs
      <3>3. Ready \/ Answered(live)
        BY <1>8, <1>9, <2>2
      <3>4. RunInv' /\ PostInv(c)'
        BY <1>0, <1>5, <1>6, <3>1, <3>3, FinishRetry
      <3> QED
        BY <1>0, <1>4, <1>7, <3>2, <3>4, AloneRetry
    <2> QED
      BY <1>3, <2>1, <2>2
  <1>12. CASE AutoSummaryFails(c)
    BY <1>11, <1>12 DEF AutoSummaryFails
  <1>13. CASE AutoPrepare(c)
    <2>1. ASSUME NEW i \in CutPoints(entries), UNCHANGED run,
                 caller' = [caller EXCEPT ![c] = [@ EXCEPT !.pc = "csum", !.keep = entries[i].n]]
          PROVE  RetryInv'
      <3>1. i \in DOMAIN entries
        BY <1>0, <2>1, CutIs
      <3>2. PICK n \in Nat : n = entries[i].n
        <4>1. entries[i] \in Messages
          BY <1>0, <3>1 DEF TypeOK
        <4> QED
          BY <4>1 DEF Messages
      <3>3. caller' = [caller EXCEPT ![c] = [@ EXCEPT !.pc = "csum", !.keep = n]]
        BY <2>1, <3>2
      <3>4. Moves(c) /\ caller'[c].pc = "csum" /\ caller'[c].why = caller[c].why /\ caller'[c].retry = caller[c].retry
        BY <1>3, <3>3 DEF Moves, CallType, CallerPCs
      <3>5. caller[c].pc = "cauth" /\ UNCHANGED <<entries, live>>
        BY <1>13 DEF AutoPrepare, At, transcript
      <3>6. PostInv(c)'
        BY <1>6, <1>9, <3>4, <3>5 DEF PostInv, Ready, Fresh, Before, Answered
      <3> QED
        BY <1>0, <1>4, <1>5, <1>7, <2>1, <3>4, <3>6, IdleRetry
    <2> QED
      BY <1>11, <1>13, <2>1 DEF AutoPrepare
  <1>14. CASE AutoCommit(c)
    <2>1. /\ caller[c].pc = "csum" /\ Commit(caller[c].keep) /\ Goto(c, "cemit") /\ UNCHANGED <<unsaved, run, pendingBash>>
      BY <1>14 DEF AutoCommit, At, session
    <2>2. caller[c].keep \in Nat /\ IsKept(caller[c].keep)
      BY <1>0, <2>1 DEF TypeOK, KeepInv
    <2>3. Last(live') = Last(entries)
      BY <1>0, <2>1, <2>2, CommitIs
    <2>4. Moves(c) /\ caller'[c].pc = "cemit" /\ caller'[c].why = caller[c].why /\ caller'[c].retry = caller[c].retry
      BY <1>0, <2>1, GotoIs DEF CallerPCs
    <2>5. PostInv(c)'
      BY <1>6, <1>9, <2>1, <2>3, <2>4 DEF PostInv, Ready, Fresh, Before, Answered
    <2> QED
      BY <1>0, <1>4, <1>5, <1>7, <2>1, <2>4, <2>5, IdleRetry
  <1>15. CASE AutoDone(c)
    <2>1. PICK ctx : /\ ctx = IF caller[c].retry /\ Last(live).kind \in Failed THEN Front(live) ELSE live
                     /\ \/ Goto(c, "start") /\ UNCHANGED run
                        \/ caller[c].why # "pre" /\ ContinueRun(c, ctx)
                        \/ Goto(c, "settle") /\ UNCHANGED run
      BY <1>15 DEF AutoDone
    <2>2. ASSUME caller[c].why # "pre", ContinueRun(c, ctx) PROVE RetryInv'
      <3>1. Ready \/ IsAnswer(Last(ctx))
        BY <1>3, <1>8, <1>9, <2>1, <2>2 DEF Answered
      <3>2. Moves(c)
        BY <1>0, <1>4, <2>2, ContinueIs
      <3>3. RunInv' /\ PostInv(c)'
        BY <1>0, <1>5, <1>6, <2>2, <3>1, ContinueRetry
      <3> QED
        BY <1>0, <1>4, <1>7, <3>2, <3>3, AloneRetry
    <2> QED
      BY <1>10, <2>1, <2>2
  <1> QED
    BY <1>12, <1>13, <1>14, <1>15

\* compact(), abort() and what arrives meanwhile.
LEMMA OtherRetry ==
    ASSUME BaseInv, RetryInv, Observe, ~ overlap', CompactStep \/ (Request /\ \A c \in Callers : ~ Prompt(c))
    PROVE  RetryInv'
  <1>0. TypeOK /\ TurnInv /\ AloneInv /\ ~ overlap /\ \A x, y \in Busy' : x = y
    BY ObserveIs DEF BaseInv
  <1>1. Bounded /\ ErrorInv /\ RunInv /\ \A c \in Callers : PostInv(c)
    BY <1>0 DEF RetryInv
  <1>2. UNCHANGED <<unsaved, last, retryAttempt, overflowTried, streak, caller>> /\ run'.step = run.step
    <2>1. run'.step = run.step
      BY <1>0, AbortIs DEF CompactStep, CompactBegin, CompactPrepare, CompactEnds, CompactCommit,
                           Request, Abort, Compact, AbortCompaction, Queue, ClearQueue, RecordBash
    <2> QED
      BY <2>1 DEF CompactStep, CompactBegin, CompactPrepare, CompactEnds, CompactCommit, Request, Abort, Compact,
                  AbortCompaction, Queue, ClearQueue, RecordBash, transcript, session
  <1>3. Bounded' /\ ErrorInv'
    BY <1>1, <1>2 DEF Bounded, ErrorInv, Before
  <1>4. ASSUME UNCHANGED <<entries, live>> PROVE RetryInv'
    <2>1. RunInv'
      BY <1>1, <1>2, <1>4 DEF RunInv, Ready, Fresh, Before, Answered
    <2>2. \A c \in Callers : PostInv(c)'
      BY <1>1, <1>2, <1>4 DEF PostInv, Ready, Fresh, Before, Answered
    <2> QED
      BY <1>3, <2>1, <2>2 DEF RetryInv
  <1>5. ASSUME \A c \in Callers : ~ Driving(c) PROVE RetryInv'
    <2>1. run = NoRun
      <3>1. ASSUME run # NoRun PROVE FALSE
        <4>1. run.by \in Callers /\ caller[run.by].pc = "running"
          BY <1>0, <3>1, OnlyRun
        <4> QED
          BY <1>5, <4>1 DEF Driving
      <3> QED
        BY <3>1
    <2>2. RunInv'
      BY <1>2, <2>1 DEF RunInv, NoRun
    <2>3. \A c \in Callers : PostInv(c)'
      BY <1>2, <1>5 DEF PostInv, Driving
    <2> QED
      BY <1>3, <2>2, <2>3 DEF RetryInv
  <1>6. CASE CompactCommit
    <2>1. "manual" \in Busy /\ "manual" \notin Callers
      BY <1>6, BusyIs DEF CompactCommit
    <2>2. \A c \in Callers : caller[c].pc \in {"idle", "input"}
      BY <1>0, <2>1, BusyIs DEF AloneInv
    <2>3. \A c \in Callers : ~ Driving(c)
      BY <2>2 DEF Driving
    <2> QED
      BY <1>5, <2>3
  <1>7. CASE RecordBash
    <2>1. CASE active
      <3>1. UNCHANGED <<entries, live>>
        BY <1>7, <2>1 DEF RecordBash, DefersBash
      <3> QED
        BY <1>4, <3>1
    <2>2. CASE ~ active
      <3>1. \A c \in Callers : ~ Driving(c)
        BY <1>0, <2>2 DEF AloneInv
      <3> QED
        BY <1>5, <3>1
    <2> QED
      BY <2>1, <2>2
  <1>8. ASSUME ~ CompactCommit, ~ RecordBash PROVE UNCHANGED <<entries, live>>
    BY <1>8 DEF CompactStep, CompactBegin, CompactPrepare, CompactEnds, Request, Abort, Compact,
                AbortCompaction, Queue, ClearQueue, transcript
  <1> QED
    BY <1>4, <1>6, <1>7, <1>8

-----------------------------------------------------------------------------
(* Theorems *)

\* The inductive invariant holds initially.
LEMMA InitInv == ASSUME Init PROVE IInv
  <1>1. NoCall \in CallType /\ NoCall.pc = "idle"
    BY NoneIs DEF NoCall, CallType, CallerPCs
  <1>2. \A c \in Callers : caller[c] = NoCall
    BY DEF Init
  <1>3. TypeOK
    <2>1. entries \in Seq(Messages) /\ live \in Seq(Messages) /\ pendingBash \in Seq(Messages)
      BY DEF Init
    <2>2. unsaved \in Messages /\ last \in Messages /\ retryAttempt \in 0..MaxRetries /\ queue \in Nat
      BY NoneIs, BoundsAssumption DEF Init
    <2>3. caller \in [Callers -> CallType]
      BY <1>1 DEF Init
    <2>4. manual \in [pc : ManualPCs, keep : Nat] /\ streak \in [failures : Nat, recoveries : Nat]
      BY DEF Init, ManualPCs, NoStreak
    <2>5. retryCtl \in Controls /\ autoCtl \in Controls /\ compactCtl \in Controls
      BY DEF Init, Controls
    <2>6. run \in Runs \cup {NoRun} /\ waiters \subseteq {"abort", "compact"}
      BY DEF Init
    <2>7. active \in BOOLEAN /\ overflowTried \in BOOLEAN /\ overlap \in BOOLEAN /\ badContinue \in BOOLEAN
      BY DEF Init
    <2> QED
      BY <2>1, <2>2, <2>3, <2>4, <2>5, <2>6, <2>7 DEF TypeOK, CallType
  <1>4. NumberInv
    <2>1. used \in UsedType /\ used.messages = 0
      BY DEF Init, UsedType
    <2>2. DOMAIN entries = {} /\ DOMAIN pendingBash = {} /\ unsaved = None
      BY DEF Init
    <2> QED
      BY <2>1, <2>2, NoneIs DEF NumberInv
  <1>5. KeepInv
    BY <1>1, <1>2 DEF KeepInv, Init
  <1>6. SummaryInv
    <2>1. DOMAIN entries = {} /\ DOMAIN pendingBash = {} /\ unsaved.kind = "none"
      BY DEF Init, None
    <2> QED
      BY <2>1 DEF SummaryInv
  <1>7. TurnInv
    BY <1>1, <1>2, BoundsAssumption DEF TurnInv, At, Init, NoRun
  <1>8. ActiveInv
    BY DEF ActiveInv, Init
  <1>9. AloneInv
    <2>1. Busy = {}
      BY <1>1, <1>2 DEF Busy, Init
    <2>2. \A c \in Callers : ~ Driving(c)
      BY <1>1, <1>2 DEF Driving
    <2> QED
      BY <2>1, <2>2 DEF AloneInv
  <1>10. RetryInv
    <2>1. \A c \in Callers : PostInv(c)
      BY <1>1, <1>2 DEF PostInv
    <2>2. RunInv
      BY DEF RunInv, Init, NoRun
    <2>3. streak.failures = 0 /\ streak.recoveries = 0 /\ Before = 0 /\ retryAttempt = 0 /\ MaxRetries \in Nat
      BY BoundsAssumption DEF Init, NoStreak, Before
    <2>4. Bounded
      BY <2>3 DEF Bounded
    <2>5. ErrorInv
      <3>1. streak = NoStreak
        BY DEF Init
      <3> QED
        BY <2>3, <3>1 DEF ErrorInv
    <2> QED
      BY <2>1, <2>2, <2>4, <2>5 DEF RetryInv
  <1> QED
    BY <1>3, <1>4, <1>5, <1>6, <1>7, <1>8, <1>9, <1>10 DEF IInv, BaseInv

\* Every step preserves the retries' part of it.
LEMMA NextRetry == ASSUME BaseInv, RetryInv, [Next]_vars PROVE RetryInv'
  <1>1. SUFFICES ASSUME ~ overlap' PROVE RetryInv'
    BY DEF RetryInv
  <1>2. CASE Next
    <2>1. Observe
      BY <1>2 DEF Next
    <2>2. ASSUME NEW c \in Callers, CallerStep(c) \/ Prompt(c) PROVE RetryInv'
      BY <1>1, <2>1, <2>2, PreflightRetry, PostRetry, AutoRetry DEF CallerStep
    <2>3. ASSUME CompactStep \/ Request, \A c \in Callers : ~ Prompt(c) PROVE RetryInv'
      BY <1>1, <2>1, <2>3, OtherRetry
    <2> QED
      BY <1>1, <1>2, <2>1, <2>2, <2>3, RunRetry DEF Next
  <1>3. CASE UNCHANGED vars
    <2>1. UNCHANGED <<entries, live, unsaved, run, last, retryAttempt, overflowTried, caller, overlap, streak>>
      BY <1>3 DEF vars, transcript, session
    <2>2. Bounded /\ ErrorInv /\ RunInv /\ \A c \in Callers : PostInv(c)
      BY <1>1, <2>1 DEF RetryInv
    <2>3. Bounded' /\ ErrorInv' /\ RunInv'
      BY <2>1, <2>2 DEF Bounded, ErrorInv, RunInv, Ready, Fresh, Before, Answered
    <2>4. \A c \in Callers : PostInv(c)'
      BY <2>1, <2>2 DEF PostInv, Ready, Fresh, Before, Answered
    <2> QED
      BY <2>3, <2>4 DEF RetryInv
  <1> QED
    BY <1>2, <1>3

\* The inductive invariant: prompt(), the post-run loop, compaction, abort and
\* the agent's run keep it in every interleaving.
THEOREM InvCorrect == Spec => []IInv
  <1>1. Init => IInv
    BY InitInv
  <1>2. IInv /\ [Next]_vars => IInv'
    BY NextBase, NextRetry DEF IInv
  <1> QED
    BY <1>1, <1>2, PTL DEF Spec

\* Every variable of the session keeps its type; retryAttempt stays within
\* settings.retry.maxRetries (_prepareRetry).
THEOREM TypeCorrect == Spec => []TypeOK
  <1>1. IInv => TypeOK
    BY DEF IInv, BaseInv
  <1> QED
    BY <1>1, InvCorrect, PTL

\* While the session is active, or abort() or compact() wait for it, a call of
\* prompt() is on its way to _emitAgentSettled, with overlapping calls too.
THEOREM SomeoneSettlesCorrect == Spec => []SomeoneSettles
  <1>1. ASSUME IInv PROVE SomeoneSettles
    <2>0. TypeOK /\ TurnInv /\ ActiveInv /\ AloneInv /\ BaseInv
      BY <1>1 DEF IInv, BaseInv
    <2>1. \A c \in Callers : At(c, "running") <=> run.by = c
      BY <2>0 DEF TurnInv
    <2>2. active \/ waiters # {} => \E c \in Callers : Driving(c) \/ At(c, "settling")
      BY <2>0 DEF ActiveInv
    <2>3. ~ overlap /\ run # NoRun => active
      BY <2>0, OnlyRun
    <2> QED
      BY <2>1, <2>2, <2>3 DEF SomeoneSettles, Driving, At
  <1> QED
    BY <1>1, InvCorrect, PTL

\* A run gives up: at most one compact-and-retry attempt, and at most
\* MaxRetries + 1 failed answers before it and as many after it, for every
\* setting of maxRetries and every order of errors.
THEOREM RetriesBounded == Spec => []RetriesAreBounded
  <1>1. ASSUME IInv PROVE RetriesAreBounded
    <2>0. TypeOK /\ RetryInv
      BY <1>1 DEF IInv, BaseInv
    <2>1. streak.failures \in Nat /\ streak.recoveries \in Nat /\ MaxRetries \in Nat
      BY <2>0, NumbersAre
    <2>2. ASSUME ~ overlap
          PROVE  streak.recoveries <= 1 /\ streak.failures <= (streak.recoveries + 1) * (MaxRetries + 1)
      <3>1. streak.recoveries <= 1 /\ streak.failures <= Before + MaxRetries + 1
        BY <2>0, <2>2 DEF RetryInv, Bounded
      <3>2. CASE streak.recoveries = 0
        <4>1. (streak.recoveries + 1) * (MaxRetries + 1) = MaxRetries + 1
          BY <2>1, <3>2
        <4> QED
          BY <2>1, <3>1, <3>2, <4>1 DEF Before
      <3>3. CASE streak.recoveries = 1
        <4>1. (streak.recoveries + 1) * (MaxRetries + 1) = (MaxRetries + 1) + (MaxRetries + 1)
          BY <2>1, <3>3
        <4> QED
          BY <2>1, <3>1, <3>3, <4>1 DEF Before
      <3> QED
        BY <2>1, <3>1, <3>2, <3>3
    <2> QED
      BY <2>2 DEF RetriesAreBounded
  <1> QED
    BY <1>1, InvCorrect, PTL
-----------------------------------------------------------------------------
(* The context: the inductive invariant *)

\* A tool call is followed by its result, and a result by nothing else.
Paired(s) == \A i \in DOMAIN s :
    /\ s[i].kind = "toolUse" /\ i < Len(s) => s[i + 1].kind = "toolResult"
    /\ s[i].kind = "toolResult" => i > 1 /\ s[i - 1].kind = "toolUse"
Calls(s) == Last(s).kind = "toolUse"

\* Every message has a number of its own.
Numbered(s) == \A i, j \in DOMAIN s : s[i].n = s[j].n => i = j
Apart(s, t) == \A i \in DOMAIN s, j \in DOMAIN t : s[i].n # t[j].n
Unused(n) ==
    /\ \A i \in DOMAIN entries : entries[i].n # n
    /\ \A i \in DOMAIN pendingBash : pendingBash[i].n # n
NumbersInv ==
    /\ Numbered(entries) /\ Numbered(pendingBash) /\ Apart(entries, pendingBash)
    /\ unsaved # None => Unused(unsaved.n)

\* A compaction keeps the entries from an earlier one that is no tool result.
IsCut(s, n) == \E j \in DOMAIN s : s[j].n = n /\ s[j].kind # "toolResult"
Cuts(s) == \A i \in DOMAIN s : s[i].kind = "compaction" =>
              \E j \in 1..(i - 1) : s[j].n = s[i].keep /\ s[j].kind # "toolResult"
CutsInv ==
    /\ Cuts(entries)
    /\ \A c \in Callers : caller[c].pc = "csum" => IsCut(entries, caller[c].keep)
    /\ manual.pc = "summarize" => IsCut(entries, manual.keep)

\* The live context ends with a tool call while the agent executes its tools;
\* the branch, until their result is persisted.
PairsInv ==
    /\ Paired(live) /\ Paired(entries)
    /\ Calls(live) <=> run.step = "tools"
    /\ Calls(entries) <=> unsaved.kind = "toolResult" \/ (unsaved = None /\ run.step = "tools")
    /\ unsaved # None => (unsaved.kind = "toolUse" <=> run.step = "tools")
    /\ \A i \in DOMAIN pendingBash : pendingBash[i].kind = "bash"

\* The response that the post-run loop looks at is the last one.
LastInv ==
    /\ run.step \in {"after", "end"} => Last(live) = IF unsaved = None THEN last ELSE unsaved
    /\ \A c \in Callers : caller[c].pc = "post" => Last(live) = last

Parts == NumbersInv /\ CutsInv /\ PairsInv /\ LastInv /\ SameLasting(live, Branch)
ContextInv == ~ overlap => Parts

-----------------------------------------------------------------------------
(* Calls and results in a context *)

\* A context that grew by a message.
LEMMA PairedAppend ==
    ASSUME NEW s \in Seq(Messages), NEW m \in Messages, Paired(s), Calls(s) <=> m.kind = "toolResult"
    PROVE  Paired(Append(s, m)) /\ (Calls(Append(s, m)) <=> m.kind = "toolUse")
  <1>1. PICK t, n : t = Append(s, m) /\ n = Len(s)
    OBVIOUS
  <1>2. t \in Seq(Messages) /\ Len(t) = n + 1 /\ n \in Nat /\ t[n + 1] = m /\ \A i \in 1..n : t[i] = s[i]
    BY <1>1
  <1>3. DOMAIN s = 1..n /\ DOMAIN t = 1..(n + 1) /\ Len(s) = n
    BY <1>1, <1>2
  <1>4. Last(t) = m
    BY <1>1, LastAppend
  <1>5. n > 0 => Last(s) = s[n]
    BY <1>1 DEF Last
  <1>6. n = 0 => ~ Calls(s)
    <2>1. Len(s) = 0 => s = <<>>
      OBVIOUS
    <2> QED
      BY <1>1, <2>1 DEF Calls, Last, None
  <1>7. ASSUME NEW i \in 1..(n + 1), t[i].kind = "toolUse", i < n + 1 PROVE t[i + 1].kind = "toolResult"
    <2>1. i \in 1..n /\ s[i].kind = "toolUse"
      BY <1>2, <1>7
    <2>2. CASE i < n
      <3>1. i + 1 \in 1..n
        BY <1>2, <2>1, <2>2
      <3> QED
        BY <1>2, <1>3, <2>1, <2>2, <3>1 DEF Paired
    <2>3. CASE i = n
      BY <1>2, <1>5, <2>1, <2>3 DEF Calls
    <2> QED
      BY <1>2, <2>1, <2>2, <2>3
  <1>8. ASSUME NEW i \in 1..(n + 1), t[i].kind = "toolResult" PROVE i > 1 /\ t[i - 1].kind = "toolUse"
    <2>1. CASE i = n + 1
      <3>1. Calls(s) /\ n > 0
        BY <1>2, <1>6, <1>8, <2>1
      <3>2. s[n].kind = "toolUse" /\ n \in 1..n
        BY <1>2, <1>5, <3>1 DEF Calls
      <3> QED
        BY <1>2, <2>1, <3>1, <3>2
    <2>2. CASE i \in 1..n
      <3>1. i > 1 /\ s[i - 1].kind = "toolUse"
        BY <1>2, <1>3, <1>8, <2>2 DEF Paired
      <3>2. i - 1 \in 1..n
        BY <1>2, <2>2, <3>1
      <3> QED
        BY <1>2, <3>1, <3>2
    <2> QED
      BY <1>2, <2>1, <2>2
  <1>9. Paired(t)
    BY <1>2, <1>3, <1>7, <1>8 DEF Paired
  <1> QED
    BY <1>1, <1>4, <1>9 DEF Calls

\* Shell results follow one that does not end with a call.
LEMMA PairedConcat ==
    ASSUME NEW s \in Seq(Messages), NEW t \in Seq(Messages), Paired(s), ~ Calls(s),
           \A i \in DOMAIN t : t[i].kind = "bash"
    PROVE  Paired(s \o t) /\ ~ Calls(s \o t)
  <1>1. PICK u, n, k : u = s \o t /\ n = Len(s) /\ k = Len(t)
    OBVIOUS
  <1>2. /\ u \in Seq(Messages) /\ Len(u) = n + k /\ n \in Nat /\ k \in Nat
        /\ \A i \in 1..(n + k) : u[i] = IF i <= n THEN s[i] ELSE t[i - n]
    BY <1>1, ConcatIs
  <1>3. DOMAIN s = 1..n /\ DOMAIN t = 1..k /\ DOMAIN u = 1..(n + k) /\ Len(s) = n
    BY <1>1, <1>2
  <1>4. \A i \in 1..(n + k) : i <= n => i \in 1..n /\ u[i] = s[i]
    BY <1>2
  <1>5. ASSUME NEW i \in 1..(n + k), ~ (i <= n) PROVE u[i].kind = "bash"
    <2>1. i - n \in 1..k
      BY <1>2, <1>5
    <2> QED
      BY <1>2, <1>3, <1>5, <2>1
  <1>6. n > 0 => s[n].kind # "toolUse"
    BY <1>1 DEF Calls, Last
  <1>7. ASSUME NEW i \in 1..(n + k), u[i].kind = "toolUse", i < n + k PROVE u[i + 1].kind = "toolResult"
    <2>1. i <= n
      BY <1>5, <1>7
    <2>2. i \in 1..n /\ s[i].kind = "toolUse"
      BY <1>4, <1>7, <2>1
    <2>3. i < n
      BY <1>2, <1>6, <2>2
    <2>4. i + 1 <= n /\ i + 1 \in 1..(n + k)
      BY <1>2, <2>2, <2>3
    <2> QED
      BY <1>3, <1>4, <2>2, <2>3, <2>4 DEF Paired
  <1>8. ASSUME NEW i \in 1..(n + k), u[i].kind = "toolResult" PROVE i > 1 /\ u[i - 1].kind = "toolUse"
    <2>1. i <= n
      BY <1>5, <1>8
    <2>2. i > 1 /\ s[i - 1].kind = "toolUse"
      BY <1>3, <1>4, <1>8, <2>1 DEF Paired
    <2>3. i - 1 \in 1..(n + k) /\ i - 1 <= n
      BY <1>2, <2>1, <2>2
    <2> QED
      BY <1>4, <2>2, <2>3
  <1>9. Paired(u)
    BY <1>2, <1>3, <1>7, <1>8 DEF Paired
  <1>10. ~ Calls(u)
    <2>1. CASE n + k = 0
      <3>1. u = <<>>
        BY <1>2, <2>1
      <3> QED
        BY <3>1 DEF Calls, Last, None
    <2>2. CASE n + k # 0
      <3>1. Last(u) = u[n + k] /\ n + k \in 1..(n + k)
        BY <1>2, <2>2 DEF Last
      <3>2. CASE n + k <= n
        <4>1. n + k = n /\ n > 0
          BY <1>2, <2>2, <3>2
        <4> QED
          BY <1>4, <1>6, <3>1, <4>1 DEF Calls
      <3> QED
        BY <1>5, <3>1, <3>2 DEF Calls
    <2> QED
      BY <2>1, <2>2
  <1> QED
    BY <1>1, <1>9, <1>10

\* A context without its last message, which is no result.
LEMMA PairedFront ==
    ASSUME NEW s \in Seq(Messages), Paired(s), s # <<>>, Last(s).kind # "toolResult"
    PROVE  Front(s) \in Seq(Messages) /\ Paired(Front(s)) /\ ~ Calls(Front(s))
  <1>1. PICK t, n : t = Front(s) /\ n = Len(s) - 1
    OBVIOUS
  <1>2. n \in Nat /\ Len(s) = n + 1 /\ DOMAIN s = 1..(n + 1)
    BY <1>1
  <1>3. t \in Seq(Messages) /\ Len(t) = n /\ \A i \in 1..n : t[i] = s[i]
    <2>1. t = SubSeq(s, 1, n) /\ n <= Len(s) /\ \A i \in 1..n : i \in 1..Len(s)
      BY <1>1, <1>2 DEF Front
    <2> QED
      BY <1>2, <2>1
  <1>4. DOMAIN t = 1..n
    BY <1>3
  <1>5. s[n + 1].kind # "toolResult"
    BY <1>2 DEF Last
  <1>6. ASSUME NEW i \in 1..n, t[i].kind = "toolUse" PROVE i < n /\ t[i + 1].kind = "toolResult"
    <2>1. i \in 1..(n + 1) /\ i < n + 1 /\ s[i].kind = "toolUse"
      BY <1>2, <1>3, <1>6
    <2>2. s[i + 1].kind = "toolResult"
      BY <1>2, <2>1 DEF Paired
    <2>3. i # n
      BY <1>5, <2>2
    <2>4. i < n /\ i + 1 \in 1..n
      BY <1>2, <2>3
    <2> QED
      BY <1>3, <2>2, <2>4
  <1>7. ASSUME NEW i \in 1..n, t[i].kind = "toolResult" PROVE i > 1 /\ t[i - 1].kind = "toolUse"
    <2>1. i \in 1..(n + 1) /\ s[i].kind = "toolResult"
      BY <1>2, <1>3, <1>7
    <2>2. i > 1 /\ s[i - 1].kind = "toolUse"
      BY <1>2, <2>1 DEF Paired
    <2>3. i - 1 \in 1..n
      BY <1>2, <2>2
    <2> QED
      BY <1>3, <2>2, <2>3
  <1>8. Paired(t)
    BY <1>3, <1>4, <1>6, <1>7 DEF Paired
  <1>9. ~ Calls(t)
    <2>1. CASE n = 0
      <3>1. t = <<>>
        BY <1>3, <2>1
      <3> QED
        BY <3>1 DEF Calls, Last, None
    <2>2. CASE n # 0
      <3>1. Last(t) = t[n] /\ n \in 1..n /\ ~ (n < n)
        BY <1>2, <1>3, <2>2 DEF Last
      <3> QED
        BY <1>6, <3>1 DEF Calls
    <2> QED
      BY <2>1, <2>2
  <1> QED
    BY <1>1, <1>3, <1>8, <1>9

-----------------------------------------------------------------------------
(* The context of a branch *)

\* What it keeps.
LEMMA KeptIs ==
    ASSUME NEW s \in Seq(Messages), Numbered(s), Cuts(s), NEW c \in DOMAIN s, s[c].kind = "compaction"
    PROVE  \E k \in 1..(c - 1) : /\ k \in DOMAIN s /\ s[k].n = s[c].keep /\ s[k].kind # "toolResult"
                                 /\ \A j \in DOMAIN s : s[j].n = s[c].keep => j = k
  <1>1. PICK k \in 1..(c - 1) : s[k].n = s[c].keep /\ s[k].kind # "toolResult"
    BY DEF Cuts
  <1>2. k \in DOMAIN s
    <2>1. DOMAIN s = 1..Len(s) /\ Len(s) \in Nat
      OBVIOUS
    <2> QED
      BY <2>1
  <1> QED
    BY <1>1, <1>2 DEF Numbered

\* The summary, what it keeps, and what follows it, in this order.
BuiltOf(b, s, c, k) ==
    /\ b \in Seq(Messages) /\ Len(b) = (Len(s) - k) + 1 /\ b[1] = s[c]
    /\ \A i \in 2..Len(b) : b[i] = IF i <= (c - k) + 1 THEN s[(k + i) - 2] ELSE s[(k + i) - 1]
LEMMA BuiltIs ==
    ASSUME NEW s \in Seq(Messages), Numbered(s), Cuts(s)
    PROVE  \/ LatestCompaction(s) = 0 /\ buildSessionContext(s) = s
           \/ \E c \in DOMAIN s : \E k \in 1..(c - 1) :
                /\ c = LatestCompaction(s) /\ s[c].kind = "compaction"
                /\ k \in DOMAIN s /\ s[k].n = s[c].keep /\ s[k].kind # "toolResult"
                /\ BuiltOf(buildSessionContext(s), s, c, k)
  <1>1. PICK c : c = LatestCompaction(s)
    OBVIOUS
  <1>2. CASE c = 0
    BY <1>1, <1>2 DEF buildSessionContext
  <1>3. CASE c # 0
    <2>1. c \in DOMAIN s /\ s[c].kind = "compaction"
      BY <1>1, <1>3, LatestIs
    <2>2. PICK k \in 1..(c - 1) : /\ k \in DOMAIN s /\ s[k].n = s[c].keep /\ s[k].kind # "toolResult"
                                  /\ \A j \in DOMAIN s : s[j].n = s[c].keep => j = k
      BY <2>1, KeptIs
    <2>3. Kept(s, c) = k
      BY <2>2 DEF Kept
    <2>4. PICK b, d, e, n : /\ b = buildSessionContext(s) /\ n = Len(s)
                            /\ d = SubSeq(s, k, c - 1) /\ e = SubSeq(s, c + 1, n)
      OBVIOUS
    <2>5. b = (<<s[c]>> \o d) \o e
      BY <1>1, <1>3, <2>3, <2>4 DEF buildSessionContext
    <2>6. n \in Nat /\ DOMAIN s = 1..n /\ c \in 1..n /\ k \in Nat /\ 1 <= k /\ k < c /\ c - k \in Nat /\ n - c \in Nat
      BY <2>1, <2>4
    <2>7. d \in Seq(Messages) /\ Len(d) = c - k /\ \A i \in 1..(c - k) : d[i] = s[(k + i) - 1]
      <3>1. /\ k \in Nat /\ c - 1 \in Nat /\ 1 <= k /\ k <= (c - 1) + 1 /\ c - 1 <= n
            /\ \A i \in k..(c - 1) : i \in 1..n
        BY <2>6
      <3>2. /\ d \in Seq(Messages) /\ Len(d) = ((c - 1) - k) + 1
            /\ \A i \in 1..(((c - 1) - k) + 1) : d[i] = s[(k + i) - 1]
        BY <2>4, <2>6, <3>1
      <3>3. ((c - 1) - k) + 1 = c - k
        BY <2>6
      <3> QED
        BY <3>2, <3>3
    <2>8. e \in Seq(Messages) /\ Len(e) = n - c /\ \A i \in 1..(n - c) : e[i] = s[c + i]
      <3>1. /\ c + 1 \in Nat /\ 1 <= c + 1 /\ c + 1 <= n + 1 /\ \A i \in (c + 1)..n : i \in 1..n
        BY <2>6
      <3>2. /\ e \in Seq(Messages) /\ Len(e) = (n - (c + 1)) + 1
            /\ \A i \in 1..((n - (c + 1)) + 1) : e[i] = s[((c + 1) + i) - 1]
        BY <2>4, <2>6, <3>1
      <3>3. (n - (c + 1)) + 1 = n - c /\ \A i \in 1..(n - c) : ((c + 1) + i) - 1 = c + i
        BY <2>6
      <3> QED
        BY <3>2, <3>3
    <2>9. PICK a, f : a = <<s[c]>> /\ f = a \o d
      OBVIOUS
    <2>10. a \in Seq(Messages) /\ Len(a) = 1 /\ a[1] = s[c]
      BY <2>1, <2>9
    <2>11. /\ f \in Seq(Messages) /\ Len(f) = 1 + (c - k)
           /\ \A i \in 1..(1 + (c - k)) : f[i] = IF i <= 1 THEN a[i] ELSE d[i - 1]
      BY <2>7, <2>9, <2>10, ConcatIs
    <2>12. /\ b \in Seq(Messages) /\ Len(b) = (1 + (c - k)) + (n - c)
           /\ \A i \in 1..((1 + (c - k)) + (n - c)) :
                b[i] = IF i <= 1 + (c - k) THEN f[i] ELSE e[i - (1 + (c - k))]
      <3>1. PICK p, q : p = 1 + (c - k) /\ q = n - c
        OBVIOUS
      <3>2. b = f \o e /\ Len(f) = p /\ Len(e) = q
        BY <2>5, <2>8, <2>9, <2>11, <3>1
      <3>3. /\ b \in Seq(Messages) /\ Len(b) = p + q
            /\ \A i \in 1..(p + q) : b[i] = IF i <= p THEN f[i] ELSE e[i - p]
        BY <2>8, <2>11, <3>2, ConcatIs
      <3> QED
        BY <3>1, <3>3
    <2>13. (1 + (c - k)) + (n - c) = (n - k) + 1 /\ n - k \in Nat
      BY <2>6
    <2>14. b[1] = s[c]
      <3>1. 1 \in 1..((1 + (c - k)) + (n - c)) /\ 1 <= 1 + (c - k) /\ 1 \in 1..(1 + (c - k)) /\ 1 <= 1
        BY <2>6
      <3> QED
        BY <2>10, <2>11, <2>12, <3>1
    <2>15. ASSUME NEW i \in 2..((n - k) + 1)
           PROVE  b[i] = IF i <= (c - k) + 1 THEN s[(k + i) - 2] ELSE s[(k + i) - 1]
      <3>1. i \in 1..((1 + (c - k)) + (n - c)) /\ i \in Nat
        BY <2>6, <2>13
      <3>2. CASE i <= (c - k) + 1
        <4>1. i <= 1 + (c - k) /\ i \in 1..(1 + (c - k)) /\ ~ (i <= 1) /\ i - 1 \in 1..(c - k)
          BY <2>6, <3>1, <3>2
        <4>2. b[i] = d[i - 1]
          BY <2>11, <2>12, <3>1, <4>1
        <4>3. d[i - 1] = s[(k + (i - 1)) - 1]
          BY <2>7, <4>1
        <4>4. (k + (i - 1)) - 1 = (k + i) - 2
          BY <2>6, <3>1
        <4> QED
          BY <3>2, <4>2, <4>3, <4>4
      <3>3. CASE ~ (i <= (c - k) + 1)
        <4>1. ~ (i <= 1 + (c - k)) /\ i - (1 + (c - k)) \in 1..(n - c)
          BY <2>6, <2>13, <3>1, <3>3
        <4>2. b[i] = s[c + (i - (1 + (c - k)))]
          BY <2>8, <2>12, <3>1, <4>1
        <4>3. c + (i - (1 + (c - k))) = (k + i) - 1
          BY <2>6, <3>1
        <4> QED
          BY <3>3, <4>2, <4>3
      <3> QED
        BY <3>2, <3>3
    <2>16. BuiltOf(b, s, c, k)
      BY <2>4, <2>12, <2>13, <2>14, <2>15 DEF BuiltOf
    <2> QED
      BY <1>1, <2>1, <2>2, <2>4, <2>16
  <1> QED
    BY <1>2, <1>3

\* No compaction parts a call from its result.
LEMMA BuiltPaired ==
    ASSUME NEW s \in Seq(Messages), Numbered(s), Cuts(s), Paired(s)
    PROVE  Paired(buildSessionContext(s))
  <1>1. CASE LatestCompaction(s) = 0 /\ buildSessionContext(s) = s
    BY <1>1
  <1>2. ASSUME NEW c \in DOMAIN s, NEW k \in 1..(c - 1), s[c].kind = "compaction", k \in DOMAIN s, s[k].kind # "toolResult",
               BuiltOf(buildSessionContext(s), s, c, k)
        PROVE  Paired(buildSessionContext(s))
    <2>1. PICK b, n, e : b = buildSessionContext(s) /\ n = Len(s) /\ e = (n - k) + 1
      OBVIOUS
    <2>2. /\ n \in Nat /\ DOMAIN s = 1..n /\ c \in 1..n /\ k \in Nat /\ 1 <= k /\ k < c /\ e \in Nat
          /\ (c - k) + 1 \in 2..e /\ (c - k) + 1 <= e
      BY <1>2, <2>1
    <2>3. /\ b \in Seq(Messages) /\ Len(b) = e /\ b[1] = s[c]
          /\ \A i \in 2..e : b[i] = IF i <= (c - k) + 1 THEN s[(k + i) - 2] ELSE s[(k + i) - 1]
      BY <1>2, <2>1 DEF BuiltOf
    <2>4. DOMAIN b = 1..e
      BY <2>3
    <2>5. \A j \in 1..n : j < n /\ s[j].kind = "toolUse" => s[j + 1].kind = "toolResult"
      BY <2>1, <2>2 DEF Paired
    <2>6. \A j \in 1..n : s[j].kind = "toolResult" => j > 1 /\ s[j - 1].kind = "toolUse"
      BY <2>1, <2>2 DEF Paired
    <2>7. ASSUME NEW i \in 1..e, b[i].kind = "toolUse", i < e PROVE b[i + 1].kind = "toolResult"
      <3>1. i \in 2..e /\ i + 1 \in 2..e
        BY <1>2, <2>2, <2>3, <2>7
      <3>2. CASE i <= (c - k) + 1
        <4>1. PICK j : j = (k + i) - 2
          OBVIOUS
        <4>2. j \in 1..n /\ j < n /\ j + 1 = (k + (i + 1)) - 2
          BY <2>1, <2>2, <3>1, <3>2, <4>1
        <4>3. s[j].kind = "toolUse" /\ s[j + 1].kind = "toolResult"
          BY <2>3, <2>5, <2>7, <3>1, <3>2, <4>1, <4>2
        <4>4. j + 1 # c
          BY <1>2, <4>3
        <4>5. i + 1 <= (c - k) + 1
          BY <2>2, <3>1, <3>2, <4>1, <4>4
        <4>6. b[i + 1] = s[(k + (i + 1)) - 2]
          BY <2>3, <3>1, <4>5
        <4> QED
          BY <4>2, <4>3, <4>6
      <3>3. CASE ~ (i <= (c - k) + 1)
        <4>1. PICK j : j = (k + i) - 1
          OBVIOUS
        <4>2. j \in 1..n /\ j < n /\ j + 1 = (k + (i + 1)) - 1 /\ ~ (i + 1 <= (c - k) + 1)
          BY <2>1, <2>2, <2>7, <3>1, <3>3, <4>1
        <4>3. s[j].kind = "toolUse" /\ s[j + 1].kind = "toolResult"
          BY <2>3, <2>5, <2>7, <3>1, <3>3, <4>1, <4>2
        <4> QED
          BY <2>3, <3>1, <4>2, <4>3
      <3> QED
        BY <3>2, <3>3
    <2>8. ASSUME NEW i \in 1..e, b[i].kind = "toolResult" PROVE i > 1 /\ b[i - 1].kind = "toolUse"
      <3>1. i \in 2..e
        BY <1>2, <2>2, <2>3, <2>8
      <3>2. CASE i <= (c - k) + 1
        <4>1. PICK j : j = (k + i) - 2
          OBVIOUS
        <4>2. j \in 1..n /\ j - 1 = (k + (i - 1)) - 2
          BY <2>1, <2>2, <3>1, <3>2, <4>1
        <4>3. s[j].kind = "toolResult" /\ s[j - 1].kind = "toolUse"
          BY <2>3, <2>6, <2>8, <3>1, <3>2, <4>1, <4>2
        <4>4. j # k
          BY <1>2, <4>3
        <4>5. i - 1 \in 2..e /\ i - 1 <= (c - k) + 1
          BY <2>2, <3>1, <3>2, <4>1, <4>4
        <4>6. b[i - 1] = s[(k + (i - 1)) - 2]
          BY <2>3, <4>5
        <4>7. i > 1
          BY <3>1
        <4> QED
          BY <4>2, <4>3, <4>6, <4>7
      <3>3. CASE ~ (i <= (c - k) + 1)
        <4>1. PICK j : j = (k + i) - 1
          OBVIOUS
        <4>2. j \in 1..n /\ j - 1 = (k + (i - 1)) - 1
          BY <2>1, <2>2, <3>1, <3>3, <4>1
        <4>3. s[j].kind = "toolResult" /\ s[j - 1].kind = "toolUse"
          BY <2>3, <2>6, <2>8, <3>1, <3>3, <4>1, <4>2
        <4>4. j - 1 # c
          BY <1>2, <4>3
        <4>5. i - 1 \in 2..e /\ ~ (i - 1 <= (c - k) + 1)
          BY <2>2, <3>1, <3>3, <4>1, <4>4
        <4>6. b[i - 1] = s[(k + (i - 1)) - 1]
          BY <2>3, <4>5
        <4>7. i > 1
          BY <3>1
        <4> QED
          BY <4>2, <4>3, <4>6, <4>7
      <3> QED
        BY <3>2, <3>3
    <2>9. Paired(b)
      BY <2>3, <2>4, <2>7, <2>8 DEF Paired
    <2> QED
      BY <2>1, <2>9
  <1> QED
    BY <1>1, <1>2, BuiltIs

\* It holds entries of the branch, each once.
LEMMA BuiltEntries ==
    ASSUME NEW s \in Seq(Messages), Numbered(s), Cuts(s)
    PROVE  /\ buildSessionContext(s) \in Seq(Messages) /\ Numbered(buildSessionContext(s))
           /\ \A i \in DOMAIN buildSessionContext(s) : \E j \in DOMAIN s : buildSessionContext(s)[i] = s[j]
  <1>1. CASE LatestCompaction(s) = 0 /\ buildSessionContext(s) = s
    BY <1>1
  <1>2. ASSUME NEW c \in DOMAIN s, NEW k \in 1..(c - 1), BuiltOf(buildSessionContext(s), s, c, k)
        PROVE  /\ buildSessionContext(s) \in Seq(Messages) /\ Numbered(buildSessionContext(s))
               /\ \A i \in DOMAIN buildSessionContext(s) : \E j \in DOMAIN s : buildSessionContext(s)[i] = s[j]
    <2>1. PICK b, n, e : b = buildSessionContext(s) /\ n = Len(s) /\ e = (n - k) + 1
      OBVIOUS
    <2>2. /\ n \in Nat /\ DOMAIN s = 1..n /\ c \in 1..n /\ k \in Nat /\ 1 <= k /\ k < c /\ e \in Nat
      BY <1>2, <2>1
    <2>3. /\ b \in Seq(Messages) /\ Len(b) = e /\ b[1] = s[c]
          /\ \A i \in 2..e : b[i] = IF i <= (c - k) + 1 THEN s[(k + i) - 2] ELSE s[(k + i) - 1]
      BY <1>2, <2>1 DEF BuiltOf
    <2>4. DOMAIN b = 1..e
      BY <2>3
    <2> DEFINE at(i) == IF i = 1 THEN c ELSE IF i <= (c - k) + 1 THEN (k + i) - 2 ELSE (k + i) - 1
    <2>5. \A i \in 1..e : at(i) \in 1..n /\ b[i] = s[at(i)]
      <3>1. ASSUME NEW i \in 1..e PROVE at(i) \in 1..n
        BY <2>1, <2>2
      <3>2. ASSUME NEW i \in 1..e, i # 1 PROVE i \in 2..e
        BY <2>2, <3>2
      <3> QED
        BY <2>3, <3>1, <3>2
    <2>6. \A i, j \in 1..e : at(i) = at(j) => i = j
      BY <2>2
    <2> HIDE DEF at
    <2>7. Numbered(b)
      BY <2>2, <2>4, <2>5, <2>6 DEF Numbered
    <2> QED
      BY <2>1, <2>2, <2>3, <2>4, <2>5, <2>7
  <1> QED
    BY <1>1, <1>2, BuiltIs

-----------------------------------------------------------------------------
(* Two contexts with the same messages *)

\* A context is as it is.
LEMMA SameSelf == ASSUME NEW s, Numbered(s) PROVE SameLasting(s, s)
  <1>1. \A i, j \in Lasting(s) : s[i] = s[j] => i = j
    BY DEF Numbered, Lasting
  <1> QED
    BY <1>1 DEF SameLasting

\* Leaving out a failed response.
LEMMA SameFront ==
    ASSUME NEW s \in Seq(Messages), NEW t, SameLasting(s, t), s # <<>>, Last(s).kind \in Failed
    PROVE  SameLasting(Front(s), t)
  <1>1. PICK u, n : u = Front(s) /\ n = Len(s) - 1
    OBVIOUS
  <1>2. n \in Nat /\ Len(s) = n + 1 /\ DOMAIN s = 1..(n + 1) /\ s[n + 1].kind \in Failed
    BY <1>1 DEF Last
  <1>3. u \in Seq(Messages) /\ Len(u) = n /\ \A i \in 1..n : u[i] = s[i]
    <2>1. u = SubSeq(s, 1, n) /\ n <= Len(s) /\ \A i \in 1..n : i \in 1..Len(s)
      BY <1>1, <1>2 DEF Front
    <2> QED
      BY <1>2, <2>1
  <1>4. DOMAIN u = 1..n
    BY <1>3
  <1>5. Lasting(u) = Lasting(s) /\ \A i \in Lasting(s) : u[i] = s[i]
    <2>1. \A i \in 1..(n + 1) : i = n + 1 \/ i \in 1..n
      BY <1>2
    <2>2. \A i \in 1..n : i \in 1..(n + 1)
      BY <1>2
    <2> QED
      BY <1>2, <1>3, <1>4, <2>1, <2>2 DEF Lasting
  <1>6. SameLasting(u, t)
    BY <1>5 DEF SameLasting
  <1> QED
    BY <1>1, <1>6

\* Messages that were in neither.
LEMMA SameConcat ==
    ASSUME NEW s \in Seq(Messages), NEW t \in Seq(Messages), NEW r \in Seq(Messages),
           SameLasting(s, t), Numbered(r), Apart(t, r)
    PROVE  SameLasting(s \o r, t \o r)
  <1>1. PICK u, v, n, p, k : u = s \o r /\ v = t \o r /\ n = Len(s) /\ p = Len(t) /\ k = Len(r)
    OBVIOUS
  <1>2. /\ u \in Seq(Messages) /\ Len(u) = n + k /\ n \in Nat /\ k \in Nat /\ p \in Nat
        /\ \A i \in 1..(n + k) : u[i] = IF i <= n THEN s[i] ELSE r[i - n]
    BY <1>1, ConcatIs
  <1>3. /\ v \in Seq(Messages) /\ Len(v) = p + k
        /\ \A i \in 1..(p + k) : v[i] = IF i <= p THEN t[i] ELSE r[i - p]
    BY <1>1, ConcatIs
  <1>4. DOMAIN s = 1..n /\ DOMAIN t = 1..p /\ DOMAIN r = 1..k /\ DOMAIN u = 1..(n + k) /\ DOMAIN v = 1..(p + k)
    BY <1>1, <1>2, <1>3
  <1>5. PICK I, J, R, U, V : I = Lasting(s) /\ J = Lasting(t) /\ R = Lasting(r) /\ U = Lasting(u) /\ V = Lasting(v)
    OBVIOUS
  <1>6. I \subseteq 1..n /\ J \subseteq 1..p /\ R \subseteq 1..k /\ U \subseteq 1..(n + k) /\ V \subseteq 1..(p + k)
    BY <1>4, <1>5 DEF Lasting
  <1>7. /\ \A i \in I : i \in U /\ u[i] = s[i]
        /\ \A i \in R : n + i \in U /\ u[n + i] = r[i]
        /\ \A i \in U : i \in I \/ \E j \in R : i = n + j
    <2>1. ASSUME NEW i \in I PROVE i \in U /\ u[i] = s[i]
      <3>1. i \in 1..(n + k) /\ i <= n
        BY <1>2, <1>6
      <3>2. u[i] = s[i] /\ s[i].kind \notin Failed
        BY <1>2, <1>5, <3>1 DEF Lasting
      <3> QED
        BY <1>4, <1>5, <3>1, <3>2 DEF Lasting
    <2>2. ASSUME NEW i \in R PROVE n + i \in U /\ u[n + i] = r[i]
      <3>1. n + i \in 1..(n + k) /\ ~ (n + i <= n) /\ (n + i) - n = i
        BY <1>2, <1>6
      <3>2. u[n + i] = r[i] /\ r[i].kind \notin Failed
        BY <1>2, <1>5, <3>1 DEF Lasting
      <3> QED
        BY <1>4, <1>5, <3>1, <3>2 DEF Lasting
    <2>3. ASSUME NEW i \in U, i \notin I PROVE \E j \in R : i = n + j
      <3>1. i \in 1..(n + k) /\ u[i].kind \notin Failed
        BY <1>4, <1>5 DEF Lasting
      <3>2. ~ (i <= n)
        <4>1. ASSUME i <= n PROVE FALSE
          <5>1. i \in 1..n /\ u[i] = s[i]
            BY <1>2, <3>1, <4>1
          <5> QED
            BY <1>4, <1>5, <2>3, <3>1, <5>1 DEF Lasting
        <4> QED
          BY <4>1
      <3>3. i - n \in 1..k /\ i = n + (i - n) /\ u[i] = r[i - n]
        BY <1>2, <3>1, <3>2
      <3>4. i - n \in R
        BY <1>4, <1>5, <3>1, <3>3 DEF Lasting
      <3> QED
        BY <3>3, <3>4
    <2> QED
      BY <2>1, <2>2, <2>3
  <1>8. /\ \A i \in J : i \in V /\ v[i] = t[i]
        /\ \A i \in R : p + i \in V /\ v[p + i] = r[i]
        /\ \A i \in V : i \in J \/ \E j \in R : i = p + j
    <2>1. ASSUME NEW i \in J PROVE i \in V /\ v[i] = t[i]
      <3>1. i \in 1..(p + k) /\ i <= p
        BY <1>2, <1>6
      <3>2. v[i] = t[i] /\ t[i].kind \notin Failed
        BY <1>3, <1>5, <3>1 DEF Lasting
      <3> QED
        BY <1>4, <1>5, <3>1, <3>2 DEF Lasting
    <2>2. ASSUME NEW i \in R PROVE p + i \in V /\ v[p + i] = r[i]
      <3>1. p + i \in 1..(p + k) /\ ~ (p + i <= p) /\ (p + i) - p = i
        BY <1>2, <1>6
      <3>2. v[p + i] = r[i] /\ r[i].kind \notin Failed
        BY <1>3, <1>5, <3>1 DEF Lasting
      <3> QED
        BY <1>4, <1>5, <3>1, <3>2 DEF Lasting
    <2>3. ASSUME NEW i \in V, i \notin J PROVE \E j \in R : i = p + j
      <3>1. i \in 1..(p + k) /\ v[i].kind \notin Failed
        BY <1>4, <1>5 DEF Lasting
      <3>2. ~ (i <= p)
        <4>1. ASSUME i <= p PROVE FALSE
          <5>1. i \in 1..p /\ v[i] = t[i]
            BY <1>2, <1>3, <3>1, <4>1
          <5> QED
            BY <1>4, <1>5, <2>3, <3>1, <5>1 DEF Lasting
        <4> QED
          BY <4>1
      <3>3. i - p \in 1..k /\ i = p + (i - p) /\ v[i] = r[i - p]
        BY <1>2, <1>3, <3>1, <3>2
      <3>4. i - p \in R
        BY <1>4, <1>5, <3>1, <3>3 DEF Lasting
      <3> QED
        BY <3>3, <3>4
    <2> QED
      BY <2>1, <2>2, <2>3
  <1>9. /\ \A i \in I : \E j \in J : s[i] = t[j]
        /\ \A j \in J : \E i \in I : s[i] = t[j]
        /\ \A i \in I, j \in J : s[i] = t[j] => \A x \in I, l \in J : s[x] = t[l] => (i < x <=> j < l)
    BY <1>5 DEF SameLasting
  <1>10. /\ \A i \in R, j \in J : r[i] # t[j]
         /\ \A i \in R, j \in I : r[i] # s[j]
    <2>1. \A i \in R, j \in J : r[i] # t[j]
      BY <1>4, <1>6 DEF Apart
    <2> QED
      BY <1>9, <2>1
  <1>11. \A i, j \in R : r[i] = r[j] => i = j
    BY <1>4, <1>6 DEF Numbered
  <1>12. \A i \in U : \E j \in V : u[i] = v[j]
    BY <1>7, <1>8, <1>9
  <1>13. \A j \in V : \E i \in U : u[i] = v[j]
    BY <1>7, <1>8, <1>9
  <1>14. ASSUME NEW i \in U, NEW j \in V, u[i] = v[j]
         PROVE  (i \in I /\ j \in J /\ s[i] = t[j]) \/ \E x \in R : i = n + x /\ j = p + x
    BY <1>7, <1>8, <1>10, <1>11, <1>14
  <1>15. ASSUME NEW i \in U, NEW j \in V, u[i] = v[j], NEW x \in U, NEW l \in V, u[x] = v[l]
         PROVE  i < x <=> j < l
    <2>1. CASE i \in I /\ j \in J /\ s[i] = t[j]
      <3>1. CASE x \in I /\ l \in J /\ s[x] = t[l]
        BY <1>9, <2>1, <3>1
      <3>2. CASE \E y \in R : x = n + y /\ l = p + y
        BY <1>2, <1>6, <2>1, <3>2
      <3> QED
        BY <1>14, <1>15, <3>1, <3>2
    <2>2. CASE \E y \in R : i = n + y /\ j = p + y
      <3>1. CASE x \in I /\ l \in J /\ s[x] = t[l]
        BY <1>2, <1>6, <2>2, <3>1
      <3>2. CASE \E y \in R : x = n + y /\ l = p + y
        <4>1. PICK y \in R, z \in R : i = n + y /\ j = p + y /\ x = n + z /\ l = p + z
          BY <2>2, <3>2
        <4>2. y \in Nat /\ z \in Nat
          BY <1>6
        <4> QED
          BY <1>2, <4>1, <4>2
      <3> QED
        BY <1>14, <1>15, <3>1, <3>2
    <2> QED
      BY <1>14, <1>15, <2>1, <2>2
  <1>16. SameLasting(u, v)
    BY <1>5, <1>12, <1>13, <1>15 DEF SameLasting
  <1> QED
    BY <1>1, <1>16

\* A branch that grew by no compaction.
LEMMA BuiltConcat ==
    ASSUME NEW s \in Seq(Messages), Numbered(s), Cuts(s), NEW r \in Seq(Messages), Numbered(s \o r),
           \A i \in DOMAIN r : r[i].kind # "compaction"
    PROVE  Cuts(s \o r) /\ buildSessionContext(s \o r) = buildSessionContext(s) \o r
  <1>1. PICK u, n, e : u = s \o r /\ n = Len(s) /\ e = Len(r)
    OBVIOUS
  <1>2. /\ u \in Seq(Messages) /\ Len(u) = n + e /\ n \in Nat /\ e \in Nat
        /\ \A i \in 1..(n + e) : u[i] = IF i <= n THEN s[i] ELSE r[i - n]
    BY <1>1, ConcatIs
  <1>3. DOMAIN s = 1..n /\ DOMAIN r = 1..e /\ DOMAIN u = 1..(n + e)
    BY <1>1, <1>2
  <1>4. \A i \in 1..n : i \in 1..(n + e) /\ u[i] = s[i]
    BY <1>2
  <1>5. ASSUME NEW i \in 1..(n + e), u[i].kind = "compaction" PROVE i \in 1..n
    <2>1. ASSUME ~ (i <= n) PROVE FALSE
      <3>1. i - n \in 1..e /\ u[i] = r[i - n]
        BY <1>2, <2>1
      <3> QED
        BY <1>3, <1>5, <3>1
    <2> QED
      BY <1>2, <2>1
  <1>6. Cuts(u)
    <2>1. ASSUME NEW i \in 1..n, u[i].kind = "compaction"
          PROVE  \E j \in 1..(i - 1) : u[j].n = u[i].keep /\ u[j].kind # "toolResult"
      <3>1. PICK j \in 1..(i - 1) : s[j].n = s[i].keep /\ s[j].kind # "toolResult"
        BY <1>3, <1>4, <2>1 DEF Cuts
      <3>2. j \in 1..n
        BY <1>2, <2>1
      <3> QED
        BY <1>4, <2>1, <3>1, <3>2
    <2> QED
      BY <1>3, <1>5, <2>1 DEF Cuts
  <1>7. PICK c, d : c = LatestCompaction(s) /\ d = LatestCompaction(u)
    OBVIOUS
  <1>8. /\ \A i \in 1..n : s[i].kind = "compaction" => c \in 1..n
        /\ c # 0 => c \in 1..n /\ s[c].kind = "compaction" /\ \A i \in 1..n : s[i].kind = "compaction" => i <= c
    BY <1>3, <1>7, LatestIs
  <1>9. /\ \A i \in 1..(n + e) : u[i].kind = "compaction" => d \in 1..(n + e)
        /\ d # 0 => /\ d \in 1..(n + e) /\ u[d].kind = "compaction"
                    /\ \A i \in 1..(n + e) : u[i].kind = "compaction" => i <= d
    BY <1>2, <1>3, <1>7, LatestIs
  <1>10. c = d
    <2>1. CASE c = 0
      <3>1. ASSUME d # 0 PROVE FALSE
        <4>1. d \in 1..n /\ s[d].kind = "compaction"
          BY <1>4, <1>5, <1>9, <3>1
        <4>2. c \in 1..n
          BY <1>8, <4>1
        <4> QED
          BY <1>2, <2>1, <4>2
      <3> QED
        BY <2>1, <3>1
    <2>2. CASE c # 0
      <3>1. c \in 1..n /\ u[c].kind = "compaction" /\ c \in 1..(n + e)
        BY <1>4, <1>8, <2>2
      <3>2. d # 0
        BY <1>2, <1>9, <3>1
      <3>3. d \in 1..n /\ s[d].kind = "compaction" /\ c <= d
        BY <1>4, <1>5, <1>9, <3>1, <3>2
      <3>4. d <= c
        BY <1>8, <2>2, <3>3
      <3> QED
        BY <1>2, <3>1, <3>3, <3>4
    <2> QED
      BY <2>1, <2>2
  <1>11. CASE c = 0
    <2>1. buildSessionContext(u) = u /\ buildSessionContext(s) = s
      BY <1>7, <1>10, <1>11 DEF buildSessionContext
    <2> QED
      BY <1>1, <1>6, <2>1
  <1>12. CASE c # 0
    <2>1. PICK k \in 1..(c - 1) : k \in DOMAIN s /\ s[k].n = s[c].keep /\ BuiltOf(buildSessionContext(s), s, c, k)
      BY <1>7, <1>12, BuiltIs
    <2>2. PICK l \in 1..(c - 1) : l \in DOMAIN u /\ u[l].n = u[c].keep /\ BuiltOf(buildSessionContext(u), u, c, l)
      BY <1>1, <1>2, <1>6, <1>7, <1>10, <1>12, BuiltIs
    <2>3. k = l
      <3>1. c \in 1..n /\ k \in 1..n /\ l \in 1..n
        BY <1>2, <1>3, <1>8, <1>12, <2>1, <2>2
      <3>2. s[l].n = s[k].n
        BY <1>4, <2>1, <2>2, <3>1
      <3> QED
        BY <1>3, <3>1, <3>2 DEF Numbered
    <2>4. PICK a, b, f : a = buildSessionContext(s) /\ b = buildSessionContext(u) /\ f = (n - k) + 1
      OBVIOUS
    <2>5. c \in 1..n /\ k \in Nat /\ 1 <= k /\ k < c /\ f \in Nat /\ c <= n /\ c - k \in Nat /\ (c - k) + 1 <= f /\ f >= 1
      BY <1>2, <1>8, <1>12, <2>4
    <2>6. /\ a \in Seq(Messages) /\ Len(a) = f /\ a[1] = s[c]
          /\ \A i \in 2..f : a[i] = IF i <= (c - k) + 1 THEN s[(k + i) - 2] ELSE s[(k + i) - 1]
      BY <1>1, <2>1, <2>4 DEF BuiltOf
    <2>7. /\ b \in Seq(Messages) /\ Len(b) = f + e /\ b[1] = u[c]
          /\ \A i \in 2..(f + e) : b[i] = IF i <= (c - k) + 1 THEN u[(k + i) - 2] ELSE u[(k + i) - 1]
      <3>1. ((n + e) - k) + 1 = f + e
        BY <1>2, <2>4, <2>5
      <3> QED
        BY <1>2, <2>2, <2>3, <2>4, <3>1 DEF BuiltOf
    <2>8. PICK g : g = a \o r
      OBVIOUS
    <2>9. /\ g \in Seq(Messages) /\ Len(g) = f + e
          /\ \A i \in 1..(f + e) : g[i] = IF i <= f THEN a[i] ELSE r[i - f]
      BY <1>1, <2>6, <2>8, ConcatIs
    <2>10. ASSUME NEW i \in 1..(f + e) PROVE b[i] = g[i]
      <3>1. CASE i = 1
        <4>1. g[1] = a[1] /\ u[c] = s[c]
          BY <1>4, <2>5, <2>9, <3>1
        <4> QED
          BY <2>6, <2>7, <3>1, <4>1
      <3>2. CASE i # 1 /\ i <= f
        <4>1. i \in 2..f /\ i \in 2..(f + e)
          BY <1>2, <2>5, <3>2
        <4>2. CASE i <= (c - k) + 1
          <5>1. (k + i) - 2 \in 1..n
            BY <1>2, <2>4, <2>5, <4>1, <4>2
          <5> QED
            BY <1>4, <2>6, <2>7, <2>9, <3>2, <4>1, <4>2, <5>1
        <4>3. CASE ~ (i <= (c - k) + 1)
          <5>1. (k + i) - 1 \in 1..n
            BY <1>2, <2>4, <2>5, <3>2, <4>1, <4>3
          <5> QED
            BY <1>4, <2>6, <2>7, <2>9, <3>2, <4>1, <4>3, <5>1
        <4> QED
          BY <4>2, <4>3
      <3>3. CASE ~ (i <= f)
        <4>1. i \in 2..(f + e) /\ ~ (i <= (c - k) + 1) /\ i \in Nat
          BY <1>2, <2>5, <3>3
        <4>2. b[i] = u[(k + i) - 1]
          BY <2>7, <4>1
        <4>3. (k + i) - 1 \in 1..(n + e) /\ ~ ((k + i) - 1 <= n) /\ ((k + i) - 1) - n = i - f
          BY <1>2, <2>4, <2>5, <3>3, <4>1
        <4>4. u[(k + i) - 1] = r[i - f]
          BY <1>2, <4>3
        <4> QED
          BY <2>9, <3>3, <4>2, <4>4
      <3> QED
        BY <3>1, <3>2, <3>3
    <2>11. b = g
      <3>1. DOMAIN b = 1..(f + e) /\ DOMAIN g = 1..(f + e)
        BY <2>7, <2>9
      <3>2. b = [i \in 1..(f + e) |-> b[i]] /\ g = [i \in 1..(f + e) |-> g[i]]
        BY <2>7, <2>9, <3>1
      <3>3. [i \in 1..(f + e) |-> b[i]] = [i \in 1..(f + e) |-> g[i]]
        BY <2>10
      <3> QED
        BY <3>2, <3>3
    <2> QED
      BY <1>1, <1>6, <2>4, <2>8, <2>11
  <1> QED
    BY <1>11, <1>12

-----------------------------------------------------------------------------
(* Numbers *)

\* One message more is a context of its own.
LEMMA AppendIs ==
    ASSUME NEW s \in Seq(Messages), NEW m \in Messages
    PROVE  /\ Append(s, m) = s \o <<m>> /\ <<m>> \in Seq(Messages) /\ DOMAIN <<m>> = {1} /\ <<m>>[1] = m
           /\ s \o <<>> = s
  OBVIOUS

\* Contexts whose numbers differ.
LEMMA NumberedConcat ==
    ASSUME NEW s \in Seq(Messages), NEW t \in Seq(Messages), Numbered(s), Numbered(t), Apart(s, t)
    PROVE  Numbered(s \o t)
  <1>1. PICK u, n, e : u = s \o t /\ n = Len(s) /\ e = Len(t)
    OBVIOUS
  <1>2. /\ u \in Seq(Messages) /\ Len(u) = n + e /\ n \in Nat /\ e \in Nat
        /\ \A i \in 1..(n + e) : u[i] = IF i <= n THEN s[i] ELSE t[i - n]
    BY <1>1, ConcatIs
  <1>3. DOMAIN s = 1..n /\ DOMAIN t = 1..e /\ DOMAIN u = 1..(n + e)
    BY <1>1, <1>2
  <1>4. \A i \in 1..(n + e) : i <= n => i \in 1..n /\ u[i] = s[i]
    BY <1>2
  <1>5. \A i \in 1..(n + e) : ~ (i <= n) => i - n \in 1..e /\ u[i] = t[i - n]
    BY <1>2
  <1>6. ASSUME NEW i \in 1..(n + e), NEW j \in 1..(n + e), u[i].n = u[j].n PROVE i = j
    <2>1. CASE i <= n /\ j <= n
      BY <1>3, <1>4, <1>6, <2>1 DEF Numbered
    <2>2. CASE ~ (i <= n) /\ ~ (j <= n)
      <3>1. i - n = j - n
        BY <1>3, <1>5, <1>6, <2>2 DEF Numbered
      <3> QED
        BY <1>2, <3>1
    <2>3. ~ (i <= n /\ ~ (j <= n)) /\ ~ (~ (i <= n) /\ j <= n)
      BY <1>3, <1>4, <1>5, <1>6 DEF Apart
    <2> QED
      BY <2>1, <2>2, <2>3
  <1> QED
    BY <1>1, <1>3, <1>6 DEF Numbered

\* So does a message with a number of its own.
LEMMA NumberedAppend ==
    ASSUME NEW s \in Seq(Messages), NEW m \in Messages, Numbered(s), \A i \in DOMAIN s : s[i].n # m.n
    PROVE  Numbered(Append(s, m))
  <1>1. Numbered(<<m>>) /\ Apart(s, <<m>>)
    BY AppendIs DEF Numbered, Apart
  <1> QED
    BY <1>1, AppendIs, NumberedConcat

\* A context and a branch that grew by the same message.
LEMMA SameAppend ==
    ASSUME NEW s \in Seq(Messages), NEW t \in Seq(Messages), NEW m \in Messages,
           SameLasting(s, t), \A j \in DOMAIN t : t[j].n # m.n
    PROVE  SameLasting(Append(s, m), Append(t, m))
  <1>1. Numbered(<<m>>) /\ Apart(t, <<m>>)
    BY AppendIs DEF Numbered, Apart
  <1>2. SameLasting(s \o <<m>>, t \o <<m>>)
    BY <1>1, AppendIs, SameConcat
  <1> QED
    BY <1>2, AppendIs

\* The numbers given out so far.
LEMMA NewNumber ==
    ASSUME TypeOK, NumberInv
    PROVE  /\ used.messages + 1 \in Nat /\ Unused(used.messages + 1) /\ unsaved.n # used.messages + 1
  <1>1. used.messages \in Nat
    BY DEF NumberInv, UsedType
  <1>2. \A n \in Nat : n <= used.messages => n # used.messages + 1
    BY <1>1
  <1>3. \A i \in DOMAIN entries : entries[i].n \in Nat
    <2>1. \A i \in DOMAIN entries : entries[i] \in Messages
      BY DEF TypeOK
    <2> QED
      BY <2>1 DEF Messages
  <1>4. \A i \in DOMAIN pendingBash : pendingBash[i].n \in Nat
    <2>1. \A i \in DOMAIN pendingBash : pendingBash[i] \in Messages
      BY DEF TypeOK
    <2> QED
      BY <2>1 DEF Messages
  <1>5. unsaved.n \in Nat
    BY DEF TypeOK, Messages
  <1> QED
    BY <1>1, <1>2, <1>3, <1>4, <1>5 DEF NumberInv, Unused

-----------------------------------------------------------------------------
(* What a step does to the contexts *)

\* A summary that is started keeps the entries from a cut.
CutsFollow ==
    /\ \A c \in Callers : caller'[c].pc = "csum" =>
          \/ caller[c].pc = "csum" /\ caller'[c].keep = caller[c].keep
          \/ \E i \in CutPoints(entries) : caller'[c].keep = entries[i].n
    /\ manual'.pc = "summarize" =>
          \/ manual.pc = "summarize" /\ manual'.keep = manual.keep
          \/ \E i \in CutPoints(entries) : manual'.keep = entries[i].n

\* The response to look at stays; a run that ended hands it over.
LastFollows ==
    /\ run'.step \in {"after", "end"} => run.step \in {"after", "end"} /\ last' = last
    /\ \A c \in Callers : caller'[c].pc = "post" =>
          last' = last /\ (caller[c].pc = "post" \/ (run.step = "end" /\ unsaved = None))

NoPost == \A c \in Callers : caller'[c].pc # "post"

\* Nothing; or a message of the run enters the live context, or the branch.
Stays ==
    /\ UNCHANGED <<entries, live, unsaved, pendingBash>>
    /\ run'.step = "tools" <=> run.step = "tools"
    /\ LastFollows /\ CutsFollow
Emits == \E k \in Kinds \ {"compaction", "none"}, step \in RunSteps :
    /\ run.step \in RunSteps /\ unsaved = None /\ Emit(Msg(k), step) /\ NoPost
    /\ run.step = "tools" <=> k = "toolResult"
    /\ step = "tools" <=> k = "toolUse"
Persists == Persist /\ NoPost

\* Without a run: shell results, a summary, or a failed response left out.
Resting ==
    /\ run = NoRun /\ unsaved = None /\ unsaved' = None
    /\ run'.step \in {"none", "user", "next"} /\ NoPost /\ CutsFollow
Flushes == Resting /\ Flush
Commits == /\ Resting /\ UNCHANGED pendingBash
           /\ \E keep \in Nat : IsCut(entries, keep) /\ Commit(keep)
Drops   == /\ Resting /\ UNCHANGED <<entries, pendingBash>>
           /\ live # <<>> /\ Last(live).kind \in Failed /\ live' = Front(live)
Records == /\ Resting /\ UNCHANGED pendingBash
           /\ live' = Append(live, Msg("bash")) /\ entries' = Append(entries, Msg("bash"))
Defers  == /\ UNCHANGED <<entries, live, unsaved, run, last, caller, manual>>
           /\ pendingBash' = Append(pendingBash, Msg("bash"))

\* A cut of prepareCompaction is no tool result.
LEMMA CutPointIs ==
    ASSUME TypeOK, SummaryInv, NEW i \in CutPoints(entries)
    PROVE  IsCut(entries, entries[i].n) /\ entries[i].n \in Nat
  <1>1. i \in DOMAIN entries
    BY CutIs
  <1>2. entries[i].kind # "toolResult"
    BY DEF CutPoints
  <1>3. entries[i] \in Messages
    BY <1>1 DEF TypeOK
  <1> QED
    BY <1>1, <1>2, <1>3 DEF IsCut, Messages

\* The summaries under way keep what they kept.
LEMMA CutsStay ==
    ASSUME TypeOK, SummaryInv, CutsInv, CutsFollow, Grows, Cuts(entries')
    PROVE  CutsInv'
  <1>1. ASSUME NEW n, IsCut(entries, n) PROVE IsCut(entries', n)
    BY <1>1 DEF IsCut, Grows
  <1>2. ASSUME NEW c \in Callers, caller'[c].pc = "csum" PROVE IsCut(entries', caller'[c].keep)
    <2>1. IsCut(entries, caller'[c].keep)
      BY <1>2, CutPointIs DEF CutsFollow, CutsInv
    <2> QED
      BY <1>1, <2>1
  <1>3. ASSUME manual'.pc = "summarize" PROVE IsCut(entries', manual'.keep)
    <2>1. IsCut(entries, manual'.keep)
      BY <1>3, CutPointIs DEF CutsFollow, CutsInv
    <2> QED
      BY <1>1, <2>1
  <1> QED
    BY <1>2, <1>3 DEF CutsInv

\* A step that leaves the contexts alone.
LEMMA StaysParts == ASSUME BaseInv, Parts, Stays PROVE Parts'
  <1>0. TypeOK /\ SummaryInv
    BY DEF BaseInv
  <1>1. /\ UNCHANGED <<entries, live, unsaved, pendingBash>> /\ LastFollows /\ CutsFollow
        /\ run'.step = "tools" <=> run.step = "tools"
    BY DEF Stays
  <1>2. NumbersInv'
    BY <1>1 DEF Parts, NumbersInv, Unused
  <1>3. CutsInv'
    <2>1. Grows /\ Cuts(entries') /\ CutsInv
      BY <1>1 DEF Grows, Parts, CutsInv
    <2> QED
      BY <1>0, <1>1, <2>1, CutsStay
  <1>4. PairsInv'
    BY <1>1 DEF Parts, PairsInv
  <1>5. LastInv'
    BY <1>1 DEF Parts, LastInv, LastFollows
  <1>6. SameLasting(live, Branch)'
    BY <1>1 DEF Parts, Branch
  <1> QED
    BY <1>2, <1>3, <1>4, <1>5, <1>6 DEF Parts

\* The branch without the message whose listeners still run.
LEMMA BranchIs ==
    ASSUME TypeOK, NumbersInv, CutsInv, NEW b, b = buildSessionContext(entries)
    PROVE  /\ b \in Seq(Messages) /\ Numbered(b)
           /\ \A i \in DOMAIN b : \E j \in DOMAIN entries : b[i] = entries[j]
           /\ Branch = IF unsaved = None THEN b ELSE Append(b, unsaved)
  <1>1. PICK s, m : s = entries /\ m = unsaved
    OBVIOUS
  <1>2. s \in Seq(Messages) /\ m \in Messages /\ Numbered(s) /\ Cuts(s) /\ b = buildSessionContext(s)
    BY <1>1 DEF TypeOK, NumbersInv, CutsInv
  <1>3. b \in Seq(Messages) /\ Numbered(b) /\ \A i \in DOMAIN b : \E j \in DOMAIN s : b[i] = s[j]
    BY <1>2, BuiltEntries
  <1>4. b \o <<>> = b /\ b \o <<m>> = Append(b, m)
    BY <1>2, <1>3, AppendIs
  <1>5. Branch = b \o (IF m = None THEN <<>> ELSE <<m>>)
    BY <1>1 DEF Branch
  <1> QED
    BY <1>1, <1>3, <1>4, <1>5

\* A message of the run.
LEMMA EmitsParts == ASSUME BaseInv, Parts, Emits PROVE Parts'
  <1>0. TypeOK /\ NumberInv /\ NumbersInv /\ CutsInv /\ PairsInv /\ LastInv /\ SameLasting(live, Branch)
    BY DEF BaseInv, Parts
  <1>1. PICK k \in Kinds \ {"compaction", "none"}, step \in RunSteps :
           /\ run.step \in RunSteps /\ unsaved = None /\ Emit(Msg(k), step) /\ NoPost
           /\ run.step = "tools" <=> k = "toolResult"
           /\ step = "tools" <=> k = "toolUse"
    BY DEF Emits
  <1>2. PICK m, s, b : m = Msg(k) /\ s = live /\ b = buildSessionContext(entries)
    OBVIOUS
  <1>3. m \in Messages /\ m.kind = k /\ m.n = used.messages + 1 /\ m # None /\ s \in Seq(Messages)
    BY <1>0, <1>1, <1>2, MsgIs DEF TypeOK, None
  <1>4. /\ live' = Append(s, m) /\ unsaved' = m /\ run' = [run EXCEPT !.step = step]
        /\ UNCHANGED <<entries, pendingBash, caller, manual, last>>
    BY <1>1, <1>2 DEF Emit
  <1>5. run'.step = step
    BY <1>0, <1>1, <1>4, RunIs
  <1>6. Unused(m.n)
    BY <1>0, <1>3, NewNumber
  <1>7. NumbersInv'
    BY <1>0, <1>4, <1>6 DEF NumbersInv, Unused
  <1>8. CutsInv'
    BY <1>0, <1>4 DEF CutsInv
  <1>9. PairsInv'
    <2>1. Paired(s) /\ (Calls(s) <=> m.kind = "toolResult")
      BY <1>0, <1>1, <1>2, <1>3 DEF PairsInv
    <2>2. Paired(live') /\ (Calls(live') <=> m.kind = "toolUse")
      BY <1>3, <1>4, <2>1, PairedAppend
    <2>3. Calls(entries) <=> k = "toolResult"
      BY <1>0, <1>1 DEF PairsInv, None
    <2>4. Paired(entries) /\ \A i \in DOMAIN pendingBash : pendingBash[i].kind = "bash"
      BY <1>0 DEF PairsInv
    <2> QED
      BY <1>1, <1>3, <1>4, <1>5, <2>2, <2>3, <2>4 DEF PairsInv
  <1>10. LastInv'
    BY <1>1, <1>3, <1>4, LastAppend DEF LastInv, NoPost
  <1>11. SameLasting(live, Branch)'
    <2>1. b \in Seq(Messages) /\ (\A i \in DOMAIN b : \E j \in DOMAIN entries : b[i] = entries[j]) /\ Branch = b
      BY <1>0, <1>1, <1>2, BranchIs
    <2>2. \A i \in DOMAIN b : b[i].n # m.n
      BY <1>6, <2>1 DEF Unused
    <2>3. SameLasting(s, b)
      BY <1>0, <1>2, <2>1
    <2>4. SameLasting(Append(s, m), Append(b, m))
      BY <1>3, <2>1, <2>2, <2>3, SameAppend
    <2>5. Branch' = Append(b, m)
      <3>1. Branch' = b \o <<m>>
        BY <1>2, <1>3, <1>4 DEF Branch
      <3> QED
        BY <1>3, <2>1, <3>1, AppendIs
    <2> QED
      BY <1>4, <2>4, <2>5
  <1> QED
    BY <1>7, <1>8, <1>9, <1>10, <1>11 DEF Parts

\* An entry that has a number of its own, and what it keeps, if it is a summary.
LEMMA EntryParts ==
    ASSUME TypeOK, NumberInv, SummaryInv, NumbersInv, CutsInv, NEW m \in Messages, entries' = Append(entries, m),
           pendingBash' = pendingBash, \A i \in DOMAIN entries : entries[i].n # m.n,
           \A i \in DOMAIN pendingBash : pendingBash[i].n # m.n, unsaved' = None,
           m.kind = "compaction" => IsCut(entries, m.keep), CutsFollow
    PROVE  NumbersInv' /\ CutsInv'
  <1>1. PICK s, t, n : s = entries /\ t = Append(s, m) /\ n = Len(s)
    OBVIOUS
  <1>2. s \in Seq(Messages) /\ Numbered(s) /\ \A i \in DOMAIN s : s[i].n # m.n
    BY <1>1 DEF TypeOK, NumbersInv
  <1>3. t \in Seq(Messages) /\ Len(t) = n + 1 /\ n \in Nat /\ t[n + 1] = m /\ \A i \in 1..n : t[i] = s[i]
    BY <1>1, <1>2
  <1>4. DOMAIN s = 1..n /\ DOMAIN t = 1..(n + 1)
    BY <1>1, <1>2, <1>3
  <1>5. \A i \in 1..(n + 1) : i \in 1..n \/ i = n + 1
    BY <1>3
  <1>6. Numbered(t)
    BY <1>1, <1>2, NumberedAppend
  <1>7. Apart(t, pendingBash)
    <2>1. \A i \in 1..n, j \in DOMAIN pendingBash : s[i].n # pendingBash[j].n
      BY <1>1, <1>4 DEF NumbersInv, Apart
    <2> QED
      BY <1>3, <1>4, <1>5, <2>1 DEF Apart
  <1>8. NumbersInv'
    BY <1>1, <1>6, <1>7 DEF NumbersInv
  <1>9. Cuts(t)
    <2>1. ASSUME NEW i \in 1..n, t[i].kind = "compaction"
          PROVE  \E j \in 1..(i - 1) : t[j].n = t[i].keep /\ t[j].kind # "toolResult"
      <3>1. PICK j \in 1..(i - 1) : s[j].n = s[i].keep /\ s[j].kind # "toolResult"
        BY <1>1, <1>3, <1>4, <2>1 DEF CutsInv, Cuts
      <3>2. j \in 1..n
        BY <1>3
      <3> QED
        BY <1>3, <3>1, <3>2
    <2>2. ASSUME m.kind = "compaction"
          PROVE  \E j \in 1..((n + 1) - 1) : t[j].n = m.keep /\ t[j].kind # "toolResult"
      <3>1. PICK j \in 1..n : s[j].n = m.keep /\ s[j].kind # "toolResult"
        BY <1>1, <1>4, <2>2 DEF IsCut
      <3>2. j \in 1..((n + 1) - 1)
        BY <1>3
      <3> QED
        BY <1>3, <3>1, <3>2
    <2> QED
      BY <1>3, <1>4, <1>5, <2>1, <2>2 DEF Cuts
  <1>10. Grows
    <2>1. \A j \in 1..n : j \in 1..(n + 1) /\ t[j] = s[j]
      BY <1>3
    <2> QED
      BY <1>1, <1>4, <2>1 DEF Grows
  <1>11. CutsInv'
    BY <1>1, <1>9, <1>10, CutsStay
  <1> QED
    BY <1>8, <1>11

\* The message is persisted.
LEMMA PersistsParts == ASSUME BaseInv, RetryInv, ~ overlap, Parts, Persists PROVE Parts'
  <1>0. /\ TypeOK /\ NumberInv /\ SummaryInv /\ RunInv
        /\ NumbersInv /\ CutsInv /\ PairsInv /\ LastInv /\ SameLasting(live, Branch)
    BY DEF BaseInv, RetryInv, Parts
  <1>1. /\ unsaved # None /\ unsaved' = None /\ entries' = Append(entries, unsaved)
        /\ last' = (IF IsAnswer(unsaved) THEN unsaved ELSE last)
        /\ UNCHANGED <<live, run, pendingBash, caller, manual>> /\ NoPost
    BY DEF Persists, Persist
  <1>2. PICK m, s, b : m = unsaved /\ s = entries /\ b = buildSessionContext(entries)
    OBVIOUS
  <1>3. m \in Messages /\ s \in Seq(Messages) /\ m # None /\ entries' = Append(s, m) /\ m.kind # "compaction"
    BY <1>0, <1>1, <1>2 DEF TypeOK, SummaryInv
  <1>4. Unused(m.n)
    BY <1>0, <1>1, <1>2 DEF NumbersInv
  <1>5. CutsFollow
    BY <1>1 DEF CutsFollow
  <1>6. NumbersInv' /\ CutsInv'
    BY <1>0, <1>1, <1>2, <1>3, <1>4, <1>5, EntryParts DEF Unused
  <1>7. PairsInv'
    <2>1. Paired(s) /\ (Calls(s) <=> m.kind = "toolResult") /\ (m.kind = "toolUse" <=> run.step = "tools")
      BY <1>0, <1>1, <1>2 DEF PairsInv
    <2>2. Paired(entries') /\ (Calls(entries') <=> m.kind = "toolUse")
      BY <1>3, <2>1, PairedAppend
    <2>3. /\ Paired(live) /\ (Calls(live) <=> run.step = "tools")
          /\ \A i \in DOMAIN pendingBash : pendingBash[i].kind = "bash"
      BY <1>0 DEF PairsInv
    <2> QED
      BY <1>1, <2>1, <2>2, <2>3 DEF PairsInv, None
  <1>8. LastInv'
    <2>1. run.step \in {"after", "end"} => Last(live) = unsaved /\ IsAnswer(unsaved)
      BY <1>0, <1>1 DEF LastInv, RunInv
    <2> QED
      BY <1>1, <2>1 DEF LastInv, NoPost
  <1>9. Branch' = Branch
    <2>1. b \in Seq(Messages) /\ Branch = Append(b, m)
      BY <1>0, <1>1, <1>2, BranchIs
    <2>2. Numbered(s) /\ Cuts(s)
      BY <1>0, <1>2 DEF NumbersInv, CutsInv
    <2>3. Numbered(Append(s, m))
      BY <1>1, <1>2, <1>3, <1>6 DEF NumbersInv
    <2>4. /\ Append(s, m) = s \o <<m>> /\ <<m>> \in Seq(Messages) /\ DOMAIN <<m>> = {1} /\ <<m>>[1] = m
          /\ Append(b, m) = b \o <<m>>
      BY <1>3, <2>1, AppendIs
    <2>5. Numbered(s \o <<m>>) /\ \A i \in DOMAIN <<m>> : <<m>>[i].kind # "compaction"
      BY <1>3, <2>3, <2>4
    <2>6. buildSessionContext(s \o <<m>>) = buildSessionContext(s) \o <<m>>
      BY <1>3, <2>2, <2>4, <2>5, BuiltConcat
    <2>7. buildSessionContext(entries') = Append(b, m)
      BY <1>2, <1>3, <2>4, <2>6
    <2>8. Branch' = Append(b, m) \o <<>>
      BY <1>1, <2>7 DEF Branch
    <2>9. Append(b, m) \in Seq(Messages)
      BY <1>3, <2>1
    <2> QED
      BY <1>3, <2>1, <2>8, <2>9, AppendIs
  <1> QED
    BY <1>0, <1>1, <1>6, <1>7, <1>8, <1>9 DEF Parts

\* Nothing calls while no run is under way.
LEMMA RestIs ==
    ASSUME Parts, Resting
    PROVE  /\ Paired(live) /\ Paired(entries) /\ ~ Calls(live) /\ ~ Calls(entries)
           /\ LastInv' /\ run'.step # "tools" /\ unsaved' = None
  <1>1. run.step = "none"
    BY DEF Resting, NoRun
  <1>2. run'.step # "tools" /\ run'.step # "after" /\ run'.step # "end" /\ unsaved' = None /\ NoPost
    BY DEF Resting
  <1>3. LastInv'
    BY <1>2 DEF LastInv, NoPost
  <1> QED
    BY <1>1, <1>2, <1>3 DEF Parts, PairsInv, Resting, None

\* What is left to show then.
LEMMA RestParts ==
    ASSUME NumbersInv', CutsInv', LastInv', run'.step # "tools", unsaved' = None,
           Paired(live'), Paired(entries'), ~ Calls(live'), ~ Calls(entries'),
           \A i \in DOMAIN pendingBash' : pendingBash'[i].kind = "bash",
           SameLasting(live', buildSessionContext(entries')),
           entries' \in Seq(Messages)
    PROVE  Parts'
  <1>1. PairsInv'
    BY DEF PairsInv, None
  <1>2. Branch' = buildSessionContext(entries')
    <2>1. PICK s, b : s = entries' /\ b = buildSessionContext(s)
      OBVIOUS
    <2>2. b \in Seq(Messages)
      BY <2>1, BuiltEntries DEF NumbersInv, CutsInv
    <2>3. Branch' = b \o <<>>
      BY <2>1 DEF Branch
    <2> QED
      BY <2>1, <2>2, <2>3, AppendIs
  <1>3. SameLasting(live, Branch)'
    BY <1>2
  <1> QED
    BY <1>1, <1>3 DEF Parts

\* A failed response is left out of the live context.
LEMMA DropsParts == ASSUME BaseInv, Parts, Drops PROVE Parts'
  <1>0. TypeOK /\ SummaryInv /\ NumbersInv /\ CutsInv /\ PairsInv /\ SameLasting(live, Branch)
    BY DEF BaseInv, Parts
  <1>1. Resting /\ CutsFollow /\ unsaved = None /\ UNCHANGED <<entries, pendingBash>>
    BY DEF Drops, Resting
  <1>2. PICK s, b : s = live /\ b = buildSessionContext(entries)
    OBVIOUS
  <1>3. s \in Seq(Messages) /\ s # <<>> /\ Last(s).kind \in Failed /\ live' = Front(s)
    BY <1>0, <1>2 DEF Drops, TypeOK
  <1>4. Last(s).kind # "toolResult"
    BY <1>3 DEF Failed, Errors
  <1>5. Paired(live') /\ ~ Calls(live')
    BY <1>0, <1>2, <1>3, <1>4, PairedFront DEF PairsInv
  <1>6. SameLasting(live', b)
    <2>1. SameLasting(s, b)
      BY <1>0, <1>1, <1>2, BranchIs
    <2> QED
      BY <1>3, <2>1, SameFront
  <1>7. unsaved' = None
    BY <1>1, RestIs
  <1>8. NumbersInv'
    BY <1>0, <1>1, <1>7 DEF NumbersInv
  <1>9. CutsInv'
    <2>1. Grows /\ Cuts(entries')
      BY <1>0, <1>1 DEF Grows, CutsInv
    <2> QED
      BY <1>0, <1>1, <2>1, CutsStay
  <1>10. \A i \in DOMAIN pendingBash' : pendingBash'[i].kind = "bash"
    BY <1>0, <1>1 DEF PairsInv
  <1>11. entries' \in Seq(Messages) /\ buildSessionContext(entries') = b
    BY <1>0, <1>1, <1>2 DEF TypeOK
  <1> QED
    BY <1>1, <1>5, <1>6, <1>7, <1>8, <1>9, <1>10, <1>11, RestIs, RestParts

\* A shell result is recorded at once.
LEMMA RecordsParts == ASSUME BaseInv, Parts, Records PROVE Parts'
  <1>0. TypeOK /\ NumberInv /\ SummaryInv /\ NumbersInv /\ CutsInv /\ PairsInv /\ SameLasting(live, Branch)
    BY DEF BaseInv, Parts
  <1>1. Resting /\ CutsFollow /\ unsaved = None /\ UNCHANGED pendingBash
    BY DEF Records, Resting
  <1>2. PICK m, s, t, b : m = Msg("bash") /\ s = live /\ t = entries /\ b = buildSessionContext(entries)
    OBVIOUS
  <1>3. /\ m \in Messages /\ m.kind = "bash" /\ m.n = used.messages + 1
        /\ s \in Seq(Messages) /\ t \in Seq(Messages) /\ live' = Append(s, m) /\ entries' = Append(t, m)
    BY <1>0, <1>2, MsgIs DEF Records, TypeOK, Kinds
  <1>4. (\A i \in DOMAIN t : t[i].n # m.n) /\ \A i \in DOMAIN pendingBash : pendingBash[i].n # m.n
    BY <1>0, <1>2, <1>3, NewNumber DEF Unused
  <1>5. unsaved' = None
    BY <1>1, RestIs
  <1>6. NumbersInv' /\ CutsInv'
    BY <1>0, <1>1, <1>2, <1>3, <1>4, <1>5, EntryParts
  <1>7. Paired(live') /\ Paired(entries') /\ ~ Calls(live') /\ ~ Calls(entries')
    <2>1. Paired(s) /\ Paired(t) /\ ~ Calls(s) /\ ~ Calls(t)
      BY <1>1, <1>2, RestIs
    <2> QED
      BY <1>3, <2>1, PairedAppend
  <1>8. \A i \in DOMAIN pendingBash' : pendingBash'[i].kind = "bash"
    BY <1>0, <1>1 DEF PairsInv
  <1>9. b \in Seq(Messages) /\ Branch = b /\ \A i \in DOMAIN b : \E j \in DOMAIN t : b[i] = t[j]
    BY <1>0, <1>1, <1>2, BranchIs
  <1>10. buildSessionContext(entries') = Append(b, m)
    <2>1. Numbered(t) /\ Cuts(t)
      BY <1>0, <1>2 DEF NumbersInv, CutsInv
    <2>2. Numbered(Append(t, m))
      BY <1>3, <1>6 DEF NumbersInv
    <2>3. /\ Append(t, m) = t \o <<m>> /\ <<m>> \in Seq(Messages) /\ DOMAIN <<m>> = {1} /\ <<m>>[1] = m
          /\ Append(b, m) = b \o <<m>>
      BY <1>3, <1>9, AppendIs
    <2>4. Numbered(t \o <<m>>) /\ \A i \in DOMAIN <<m>> : <<m>>[i].kind # "compaction"
      BY <1>3, <2>2, <2>3
    <2>5. buildSessionContext(t \o <<m>>) = buildSessionContext(t) \o <<m>>
      BY <1>3, <2>1, <2>3, <2>4, BuiltConcat
    <2> QED
      BY <1>2, <1>3, <2>3, <2>5
  <1>11. SameLasting(live', Append(b, m))
    <2>1. \A i \in DOMAIN b : b[i].n # m.n
      BY <1>4, <1>9
    <2>2. SameLasting(s, b)
      BY <1>0, <1>2, <1>9
    <2> QED
      BY <1>3, <1>9, <2>1, <2>2, SameAppend
  <1>12. entries' \in Seq(Messages)
    BY <1>3
  <1> QED
    BY <1>1, <1>5, <1>6, <1>7, <1>8, <1>10, <1>11, <1>12, RestIs, RestParts

\* A shell result is deferred.
LEMMA DefersParts == ASSUME BaseInv, Parts, Defers PROVE Parts'
  <1>0. TypeOK /\ NumberInv /\ NumbersInv /\ CutsInv /\ PairsInv /\ LastInv /\ SameLasting(live, Branch)
    BY DEF BaseInv, Parts
  <1>1. /\ UNCHANGED <<entries, live, unsaved, run, last, caller, manual>>
        /\ pendingBash' = Append(pendingBash, Msg("bash"))
    BY DEF Defers
  <1>2. PICK m, s, t, n : m = Msg("bash") /\ s = pendingBash /\ t = Append(s, m) /\ n = Len(s)
    OBVIOUS
  <1>3. m \in Messages /\ m.kind = "bash" /\ m.n = used.messages + 1 /\ s \in Seq(Messages)
    BY <1>0, <1>2, MsgIs DEF TypeOK, Kinds
  <1>4. t \in Seq(Messages) /\ Len(t) = n + 1 /\ n \in Nat /\ t[n + 1] = m /\ \A i \in 1..n : t[i] = s[i]
    BY <1>2, <1>3
  <1>5. DOMAIN s = 1..n /\ DOMAIN t = 1..(n + 1) /\ \A i \in 1..(n + 1) : i \in 1..n \/ i = n + 1
    BY <1>2, <1>3, <1>4
  <1>6. Unused(m.n) /\ unsaved.n # m.n
    BY <1>0, <1>3, NewNumber
  <1>7. NumbersInv'
    <2>1. Numbered(t)
      BY <1>0, <1>2, <1>3, <1>6, NumberedAppend DEF NumbersInv, Unused
    <2>2. Apart(entries, t)
      <3>1. \A i \in DOMAIN entries, j \in 1..n : entries[i].n # s[j].n
        BY <1>0, <1>2, <1>5 DEF NumbersInv, Apart
      <3> QED
        BY <1>4, <1>5, <1>6, <3>1 DEF Apart, Unused
    <2>3. ASSUME unsaved # None
          PROVE  /\ \A i \in DOMAIN entries : entries[i].n # unsaved.n
                 /\ \A i \in DOMAIN t : t[i].n # unsaved.n
      <3>1. \A i \in 1..n : s[i].n # unsaved.n
        BY <1>0, <1>2, <1>5, <2>3 DEF NumbersInv, Unused
      <3>2. \A i \in DOMAIN entries : entries[i].n # unsaved.n
        BY <1>0, <2>3 DEF NumbersInv, Unused
      <3> QED
        BY <1>4, <1>5, <1>6, <3>1, <3>2
    <2>4. pendingBash' = t /\ entries' = entries /\ unsaved' = unsaved /\ Numbered(entries)
      BY <1>0, <1>1, <1>2 DEF NumbersInv
    <2> QED
      BY <2>1, <2>2, <2>3, <2>4 DEF NumbersInv, Unused
  <1>8. CutsInv'
    BY <1>0, <1>1 DEF CutsInv
  <1>9. PairsInv'
    <2>1. \A i \in DOMAIN t : t[i].kind = "bash"
      <3>1. \A i \in 1..n : s[i].kind = "bash"
        BY <1>0, <1>2, <1>5 DEF PairsInv
      <3> QED
        BY <1>3, <1>4, <1>5, <3>1
    <2> QED
      BY <1>0, <1>1, <1>2, <2>1 DEF PairsInv
  <1>10. LastInv'
    BY <1>0, <1>1 DEF LastInv
  <1>11. SameLasting(live, Branch)'
    BY <1>0, <1>1 DEF Branch
  <1> QED
    BY <1>7, <1>8, <1>9, <1>10, <1>11 DEF Parts

\* The shell results are flushed.
LEMMA FlushesParts == ASSUME BaseInv, Parts, Flushes PROVE Parts'
  <1>0. TypeOK /\ SummaryInv /\ NumbersInv /\ CutsInv /\ PairsInv /\ SameLasting(live, Branch)
    BY DEF BaseInv, Parts
  <1>1. Resting /\ CutsFollow /\ unsaved = None
    BY DEF Flushes, Resting
  <1>2. PICK s, t, r, b : s = live /\ t = entries /\ r = pendingBash /\ b = buildSessionContext(entries)
    OBVIOUS
  <1>3. /\ s \in Seq(Messages) /\ t \in Seq(Messages) /\ r \in Seq(Messages)
        /\ live' = s \o r /\ entries' = t \o r /\ pendingBash' = <<>>
    BY <1>0, <1>2 DEF Flushes, Flush, TypeOK
  <1>4. /\ Numbered(t) /\ Numbered(r) /\ Apart(t, r) /\ Cuts(t)
        /\ \A i \in DOMAIN r : r[i].kind = "bash"
    BY <1>0, <1>2 DEF NumbersInv, CutsInv, PairsInv
  <1>5. unsaved' = None
    BY <1>1, RestIs
  <1>6. Numbered(t \o r)
    BY <1>3, <1>4, NumberedConcat
  <1>7. Cuts(t \o r) /\ buildSessionContext(t \o r) = b \o r
    <2>1. \A i \in DOMAIN r : r[i].kind # "compaction"
      BY <1>4
    <2>2. Cuts(t \o r) /\ buildSessionContext(t \o r) = buildSessionContext(t) \o r
      BY <1>3, <1>4, <1>6, <2>1, BuiltConcat
    <2> QED
      BY <1>2, <2>2
  <1>8. NumbersInv'
    <2>1. DOMAIN pendingBash' = {}
      BY <1>3
    <2> QED
      BY <1>3, <1>5, <1>6, <2>1 DEF NumbersInv, Numbered, Apart
  <1>9. CutsInv'
    <2>1. \A i \in DOMAIN t : i \in DOMAIN (t \o r) /\ (t \o r)[i] = t[i]
      BY <1>3, Concat
    <2>2. Grows
      BY <1>2, <1>3, <2>1 DEF Grows
    <2>3. Cuts(entries')
      BY <1>3, <1>7
    <2> QED
      BY <1>0, <1>1, <2>2, <2>3, CutsStay
  <1>10. Paired(live') /\ Paired(entries') /\ ~ Calls(live') /\ ~ Calls(entries')
    <2>1. Paired(s) /\ Paired(t) /\ ~ Calls(s) /\ ~ Calls(t)
      BY <1>1, <1>2, RestIs
    <2> QED
      BY <1>3, <1>4, <2>1, PairedConcat
  <1>11. \A i \in DOMAIN pendingBash' : pendingBash'[i].kind = "bash"
    BY <1>3
  <1>12. SameLasting(live', b \o r)
    <2>1. b \in Seq(Messages) /\ Branch = b /\ \A i \in DOMAIN b : \E j \in DOMAIN t : b[i] = t[j]
      BY <1>0, <1>1, <1>2, BranchIs
    <2>2. Apart(b, r)
      BY <1>4, <2>1 DEF Apart
    <2>3. SameLasting(s, b)
      BY <1>0, <1>2, <2>1
    <2> QED
      BY <1>3, <1>4, <2>1, <2>2, <2>3, SameConcat
  <1>13. entries' \in Seq(Messages) /\ buildSessionContext(entries') = b \o r
    BY <1>3, <1>7
  <1> QED
    BY <1>1, <1>5, <1>8, <1>9, <1>10, <1>11, <1>12, <1>13, RestIs, RestParts

\* A summary takes the place of what it summarizes.
LEMMA CommitsParts == ASSUME BaseInv, Parts, Commits PROVE Parts'
  <1>0. TypeOK /\ NumberInv /\ SummaryInv /\ NumbersInv /\ CutsInv /\ PairsInv
    BY DEF BaseInv, Parts
  <1>1. Resting /\ CutsFollow /\ unsaved = None /\ UNCHANGED pendingBash
    BY DEF Commits, Resting
  <1>2. PICK keep \in Nat : IsCut(entries, keep) /\ Commit(keep)
    BY DEF Commits
  <1>3. PICK m, t : m = Compaction(keep) /\ t = entries
    OBVIOUS
  <1>4. used.messages + 1 \in Nat
    BY <1>0, NewNumber
  <1>5. /\ m \in Messages /\ m.kind = "compaction" /\ m.n = used.messages + 1 /\ m.keep = keep
        /\ t \in Seq(Messages) /\ entries' = Append(t, m) /\ live' = buildSessionContext(entries')
    BY <1>0, <1>2, <1>3, <1>4 DEF Compaction, Commit, Messages, Kinds, TypeOK
  <1>6. (\A i \in DOMAIN t : t[i].n # m.n) /\ \A i \in DOMAIN pendingBash : pendingBash[i].n # m.n
    BY <1>0, <1>3, <1>5, NewNumber DEF Unused
  <1>7. unsaved' = None
    BY <1>1, RestIs
  <1>8. NumbersInv' /\ CutsInv'
    BY <1>0, <1>1, <1>2, <1>3, <1>5, <1>6, <1>7, EntryParts
  <1>9. Paired(t) /\ ~ Calls(t)
    BY <1>1, <1>3, RestIs
  <1>10. Paired(entries') /\ ~ Calls(entries')
    BY <1>5, <1>9, PairedAppend
  <1>11. PICK u : u = entries'
    OBVIOUS
  <1>12. u \in Seq(Messages) /\ Numbered(u) /\ Cuts(u) /\ Paired(u)
    BY <1>5, <1>8, <1>10, <1>11 DEF NumbersInv, CutsInv
  <1>13. Paired(buildSessionContext(u)) /\ SameLasting(buildSessionContext(u), buildSessionContext(u))
    BY <1>12, BuiltPaired, BuiltEntries, SameSelf
  <1>14. ~ Calls(live')
    <2>1. IsKept(keep) /\ UNCHANGED <<unsaved, pendingBash>>
      BY <1>1, <1>2, <1>7 DEF IsCut, IsKept
    <2>2. Last(live') = Last(entries)
      BY <1>0, <1>2, <2>1, CommitIs
    <2> QED
      BY <1>3, <1>9, <2>2 DEF Calls
  <1>15. \A i \in DOMAIN pendingBash' : pendingBash'[i].kind = "bash"
    BY <1>0, <1>1 DEF PairsInv
  <1>16. Paired(live') /\ SameLasting(live', buildSessionContext(entries')) /\ entries' \in Seq(Messages)
    BY <1>5, <1>11, <1>12, <1>13
  <1> QED
    BY <1>1, <1>7, <1>8, <1>10, <1>14, <1>15, <1>16, RestIs, RestParts

-----------------------------------------------------------------------------
(* What each step does *)

Effect == Stays \/ Emits \/ Persists \/ Flushes \/ Commits \/ Drops \/ Records \/ Defers

\* Each keeps live context and branch in step.
LEMMA EffectParts == ASSUME BaseInv, RetryInv, ~ overlap, Parts, Effect PROVE Parts'
  BY StaysParts, EmitsParts, PersistsParts, FlushesParts, CommitsParts, DropsParts, RecordsParts, DefersParts DEF Effect

\* The agent starts a run for a prompt or to continue, or goes on as it was.
RunFollows == run' = run \/ (run = NoRun /\ run'.step \in {"user", "next"})

\* A step of a caller that leaves the contexts alone.
LEMMA CallerStays ==
    ASSUME NEW c \in Callers, Moves(c), UNCHANGED <<entries, live, unsaved, pendingBash, manual>>, RunFollows,
           caller'[c].pc # "post", caller'[c].pc = "csum" => \E i \in CutPoints(entries) : caller'[c].keep = entries[i].n,
           last' = last \/ (run = NoRun /\ \A d \in Callers \ {c} : caller[d].pc # "post")
    PROVE  Effect
  <1>1. \A d \in Callers \ {c} : caller'[d] = caller[d]
    BY DEF Moves
  <1>2. CutsFollow
    BY <1>1 DEF CutsFollow
  <1>3. run = NoRun \/ run' = run
    BY DEF RunFollows
  <1>4. run = NoRun => run.step = "none" /\ run'.step \in {"none", "user", "next"}
    BY DEF RunFollows, NoRun
  <1>5. LastFollows
    BY <1>1, <1>3, <1>4 DEF LastFollows
  <1> QED
    BY <1>2, <1>3, <1>4, <1>5 DEF Effect, Stays

\* A step of the only caller under way.
LEMMA CallerRests ==
    ASSUME BaseInv, ~ overlap, NEW c \in Callers, caller[c].pc \notin {"idle", "input", "running"}, Moves(c),
           UNCHANGED <<unsaved, manual>>, RunFollows, caller'[c].pc \notin {"post", "csum"}
    PROVE  Resting
  <1>1. /\ run = NoRun /\ unsaved = None
        /\ \A d \in Callers \ {c} : caller[d].pc \in {"idle", "input"} /\ caller'[d] = caller[d]
    BY OnlyCaller DEF Moves
  <1>2. NoPost /\ CutsFollow
    BY <1>1 DEF NoPost, CutsFollow
  <1>3. run'.step \in {"none", "user", "next"}
    BY <1>1 DEF RunFollows, NoRun
  <1> QED
    BY <1>1, <1>2, <1>3 DEF Resting

\* agent.continue() and the ends of the post-run loop and of a compaction.
LEMMA ContinueFollows == ASSUME NEW c, NEW ctx, ContinueRun(c, ctx) PROVE RunFollows
  <1> DEFINE ok == run = NoRun /\ ctx # <<>> /\ (IsAnswer(Last(ctx)) => queue > 0)
             fromQueue == IsAnswer(Last(ctx)) /\ queue > 0
  <1>1. run' = IF ok THEN [by |-> c, step |-> IF fromQueue THEN "user" ELSE "next", aborted |-> FALSE] ELSE run
    BY DEF ContinueRun
  <1>2. ok => run = NoRun
    OBVIOUS
  <1> HIDE DEF ok, fromQueue
  <1> QED
    BY <1>1, <1>2 DEF RunFollows
\* So does the end of the post-run loop.
LEMMA FinishFollows == ASSUME NEW c, Finish(c) PROVE RunFollows
  BY ContinueFollows DEF Finish, RunFollows
\* So does a compaction that fails.
LEMMA FailsFollows == ASSUME NEW c, AutoFails(c) PROVE RunFollows
  BY FinishFollows DEF AutoFails, RunFollows

\* The agent's run.
LEMMA RunEffect == ASSUME BaseInv, ~ overlap, AgentStep PROVE Effect
  <1>0. TypeOK /\ TurnInv
    BY DEF BaseInv
  <1>1. ASSUME run # NoRun PROVE \A c \in Callers : caller[c].pc # "post"
    BY <1>1, OnlyRun
  <1>2. ASSUME run.step \in RunSteps PROVE run # NoRun
    BY <1>2 DEF RunSteps, NoRun
  <1>3. ASSUME NEW k \in Kinds \ {"compaction", "none"}, NEW step \in RunSteps, run.step \in RunSteps, unsaved = None,
               Emit(Msg(k), step), run.step = "tools" <=> k = "toolResult", step = "tools" <=> k = "toolUse"
        PROVE  Effect
    <2>1. NoPost
      BY <1>1, <1>2, <1>3 DEF NoPost, Emit
    <2> QED
      BY <1>3, <2>1 DEF Effect, Emits
  <1>4. CASE RunPrompt \/ RunDrain
    <2>1. PICK step \in {"next", "respond"} : UserMessage(step) /\ run.step \in {"user", "next", "after"} /\ unsaved = None
      BY <1>4 DEF RunPrompt, RunDrain
    <2> QED
      BY <1>3, <2>1 DEF UserMessage, RunSteps, Kinds
  <1>5. ASSUME NEW k \in Answers, RunRespond(k) PROVE Effect
    <2>1. PICK step : step = CASE k = "toolUse" -> "tools"
                               [] k \in {"stop", "length"} -> "after"
                               [] OTHER -> "end"
      OBVIOUS
    <2>2. Emit(Msg(k), step) /\ run.step \in {"respond", "next"} /\ unsaved = None
      BY <1>5, <2>1 DEF RunRespond
    <2>3. step \in {"tools", "after", "end"} /\ (step = "tools" <=> k = "toolUse")
      BY <2>1
    <2>4. k \in Kinds \ {"compaction", "none"} /\ k # "toolResult"
      BY <1>5 DEF Answers, Failed, Errors, Kinds
    <2> QED
      BY <1>3, <2>2, <2>3, <2>4 DEF RunSteps
  <1>6. CASE RunTools
    BY <1>3, <1>6 DEF RunTools, RunSteps, Kinds
  <1>7. CASE RunStops
    <2>1. /\ UNCHANGED <<entries, live, unsaved, pendingBash, last, caller, manual>>
          /\ run.step = "after" /\ run' = [run EXCEPT !.step = "end"]
      BY <1>7 DEF RunStops, transcript, session
    <2>2. run'.step = "end"
      BY <1>0, <2>1, RunIs DEF RunSteps
    <2> QED
      BY <2>1, <2>2 DEF Effect, Stays, LastFollows, CutsFollow
  <1>8. CASE RunEnds
    <2>1. /\ UNCHANGED <<entries, live, unsaved, pendingBash, last, manual>> /\ unsaved = None
          /\ run.step = "end" /\ run' = NoRun /\ Goto(run.by, "post")
      BY <1>8 DEF RunEnds, transcript, session
    <2>2. run'.step = "none"
      BY <2>1 DEF NoRun
    <2>3. run # NoRun
      BY <1>2, <2>1 DEF RunSteps
    <2>4. run.by \in Callers /\ "post" \in CallerPCs
      BY <2>3, OnlyRun DEF CallerPCs
    <2>5. PICK c \in Callers : c = run.by
      BY <2>4
    <2>6. Moves(c) /\ caller'[c].pc = "post"
      BY <1>0, <2>1, <2>4, <2>5, GotoIs
    <2>7. \A d \in Callers : d = c \/ caller'[d] = caller[d]
      BY <2>6 DEF Moves
    <2> QED
      BY <2>1, <2>2, <2>6, <2>7 DEF Effect, Stays, LastFollows, CutsFollow
  <1>9. CASE Persist
    <2>1. NoPost
      BY <1>0, <1>1, <1>9 DEF NoPost, Persist, TurnInv
    <2> QED
      BY <1>9, <2>1 DEF Effect, Persists
  <1> QED
    BY <1>4, <1>5, <1>6, <1>7, <1>8, <1>9 DEF AgentStep

\* prompt(), its preflight and the end of a run.
LEMMA PromptEffect ==
    ASSUME BaseInv, Observe, ~ overlap', NEW c \in Callers,
           Prompt(c) \/ Submit(c) \/ Preflight(c) \/ Start(c) \/ Launch(c) \/ Settle(c) \/ Settled(c)
    PROVE  Effect
  <1>0. TypeOK /\ TurnInv /\ ~ overlap /\ \A x, y \in Busy' : x = y
    BY ObserveIs DEF BaseInv
  <1>1. caller \in [Callers -> CallType] /\ {"idle", "input", "auth", "start", "sync", "running", "settle", "settling"} \subseteq CallerPCs
    BY <1>0 DEF TypeOK, CallType, CallerPCs
  <1>2. ASSUME NEW label \in {"idle", "input", "auth", "start", "sync", "running", "settle", "settling"}, Goto(c, label),
               UNCHANGED <<entries, live, unsaved, pendingBash, manual, last>>, RunFollows
        PROVE  Effect
    <2>1. Moves(c) /\ caller'[c].pc = label
      BY <1>0, <1>1, <1>2, GotoIs
    <2> QED
      BY <1>2, <2>1, CallerStays
  <1>3. CASE Prompt(c)
    BY <1>2, <1>3 DEF Prompt, transcript, session, RunFollows
  <1>4. CASE Submit(c)
    <2>1. UNCHANGED <<unsaved, run, last, manual, active>>
      BY <1>4 DEF Submit
    <2>2. ASSUME Goto(c, "idle"), UNCHANGED <<entries, live, pendingBash>> PROVE Effect
      BY <1>2, <2>1, <2>2 DEF RunFollows
    <2>3. ASSUME ~ active, Flush, Goto(c, "auth") PROVE Effect
      <3>1. Moves(c) /\ caller'[c].pc = "auth"
        BY <1>0, <1>1, <2>3, GotoIs
      <3>2. c \in Busy' /\ \A d \in Callers : caller'[d].pc \in {"post", "csum"} => d \in Busy'
        BY <3>1 DEF Busy
      <3>3. \A d \in Callers : caller'[d].pc \notin {"post", "csum"}
        BY <1>0, <3>1, <3>2
      <3>4. run = NoRun /\ unsaved = None
        BY <1>0, <2>3, OnlyRun DEF TurnInv
      <3>5. Resting
        BY <2>1, <3>3, <3>4 DEF Resting, NoPost, CutsFollow, NoRun
      <3> QED
        BY <2>3, <3>5 DEF Effect, Flushes
    <2> QED
      BY <1>4, <2>2, <2>3 DEF Submit
  <1>5. CASE Preflight(c)
    <2>1. UNCHANGED <<entries, live, unsaved, run, last, pendingBash, manual>>
      BY <1>5 DEF Preflight, transcript
    <2>2. \/ Goto(c, "idle") \/ Goto(c, "start") \/ \E choice : StartAuto(c, choice, "pre")
      BY <1>5 DEF Preflight
    <2>3. ASSUME NEW choice, StartAuto(c, choice, "pre") PROVE Effect
      <3>1. Moves(c) /\ caller'[c].pc = "cauth"
        BY <1>0, <2>3, AutoIs
      <3> QED
        BY <2>1, <3>1, CallerStays DEF RunFollows
    <2> QED
      BY <1>2, <2>1, <2>2, <2>3 DEF RunFollows
  <1>6. CASE Start(c)
    BY <1>2, <1>6 DEF Start, transcript, RunFollows
  <1>7. CASE Launch(c)
    <2>1. UNCHANGED <<entries, live, unsaved, pendingBash, manual, last>>
      BY <1>7 DEF Launch, transcript, session
    <2>2. RunFollows /\ \E label \in {"running", "settle"} : Goto(c, label)
      BY <1>7 DEF Launch, RunFollows
    <2> QED
      BY <1>2, <2>1, <2>2
  <1>8. CASE Settle(c)
    <2>1. Goto(c, "settling") /\ Flush /\ UNCHANGED <<unsaved, run, manual>> /\ caller[c].pc = "settle"
      BY <1>8 DEF Settle, At
    <2>2. Moves(c) /\ caller'[c].pc = "settling"
      BY <1>0, <1>1, <2>1, GotoIs
    <2>3. Resting
      BY <1>0, <2>1, <2>2, CallerRests DEF RunFollows
    <2> QED
      BY <2>1, <2>3 DEF Effect, Flushes
  <1>9. CASE Settled(c)
    <2>1. /\ UNCHANGED <<entries, live, unsaved, run, last, pendingBash, manual>>
          /\ caller' = [caller EXCEPT ![c] = NoCall]
      BY <1>9 DEF Settled, transcript
    <2>2. NoCall \in CallType /\ NoCall.pc = "idle"
      BY NoneIs DEF NoCall, CallType, CallerPCs
    <2>3. Moves(c) /\ caller'[c].pc = "idle"
      BY <1>1, <2>1, <2>2 DEF Moves
    <2> QED
      BY <2>1, <2>3, CallerStays DEF RunFollows
  <1> QED
    BY <1>3, <1>4, <1>5, <1>6, <1>7, <1>8, <1>9

\* The post-run loop: what a retry drops is the failed response it retries.
LEMMA PostEffect ==
    ASSUME BaseInv, ~ overlap, Parts, NEW c \in Callers, PostRun(c) \/ BackoffOver(c) \/ CheckCompaction(c)
    PROVE  Effect
  <1>0. TypeOK /\ TurnInv
    BY DEF BaseInv
  <1>1. caller \in [Callers -> CallType] /\ {"backoff", "check", "settle"} \subseteq CallerPCs
    BY <1>0 DEF TypeOK, CallType, CallerPCs
  <1>2. caller[c].pc \in {"post", "backoff", "check"}
    BY DEF PostRun, BackoffOver, CheckCompaction, At
  <1>3. /\ run = NoRun /\ unsaved = None
        /\ \A d \in Callers \ {c} : caller[d].pc # "post"
    BY <1>2, OnlyCaller
  <1>4. UNCHANGED <<entries, unsaved, pendingBash, manual>>
    BY DEF PostRun, BackoffOver, CheckCompaction, transcript
  <1>5. CASE PostRun(c)
    <2>1. caller[c].pc = "post" /\ UNCHANGED run /\ last \in Messages
      BY <1>0, <1>5 DEF PostRun, At, TypeOK
    <2>2. /\ \E label \in {"settle", "backoff", "check"}, m \in Messages :
                Goto(c, label) \/ caller' = [caller EXCEPT ![c] = [@ EXCEPT !.pc = label, !.msg = m]]
          /\ live' = live \/ (WillRetry(last) /\ IsAnswer(Last(live)) /\ live' = Front(live))
      BY <1>5, <2>1 DEF PostRun
    <2>3. Moves(c) /\ caller'[c].pc \in {"settle", "backoff", "check"}
      <3>1. PICK label \in {"settle", "backoff", "check"}, m \in Messages :
                Goto(c, label) \/ caller' = [caller EXCEPT ![c] = [@ EXCEPT !.pc = label, !.msg = m]]
        BY <2>2
      <3>2. label \in CallerPCs
        BY <1>1
      <3>3. CASE Goto(c, label)
        BY <1>0, <3>2, <3>3, GotoIs
      <3>4. CASE caller' = [caller EXCEPT ![c] = [@ EXCEPT !.pc = label, !.msg = m]]
        BY <1>1, <3>2, <3>4 DEF Moves, CallType
      <3> QED
        BY <3>1, <3>3, <3>4
    <2>4. CASE live' = live
      BY <1>3, <1>4, <2>1, <2>3, <2>4, CallerStays DEF RunFollows
    <2>5. CASE WillRetry(last) /\ IsAnswer(Last(live)) /\ live' = Front(live)
      <3>1. Last(live) = last
        BY <2>1 DEF Parts, LastInv
      <3>2. Last(live).kind \in Failed
        BY <2>5, <3>1 DEF WillRetry, Failed, Errors
      <3>3. live # <<>>
        BY <2>5, NoneIs DEF Last
      <3>4. Resting
        BY <1>2, <1>4, <2>1, <2>3, CallerRests DEF RunFollows
      <3> QED
        BY <1>4, <2>5, <3>2, <3>3, <3>4 DEF Effect, Drops
    <2> QED
      BY <2>2, <2>4, <2>5
  <1>6. CASE BackoffOver(c)
    <2>1. UNCHANGED <<live, last>> /\ caller[c].pc = "backoff"
      BY <1>6 DEF BackoffOver, transcript, At
    <2>2. (Goto(c, "check") /\ UNCHANGED run) \/ ContinueRun(c, live)
      BY <1>6 DEF BackoffOver
    <2>3. Moves(c) /\ caller'[c].pc \in {"check", "running", "settle"} /\ RunFollows
      BY <1>0, <1>1, <2>1, <2>2, GotoIs, ContinueIs, ContinueFollows DEF RunFollows
    <2> QED
      BY <1>4, <2>1, <2>3, CallerStays
  <1>7. CASE CheckCompaction(c)
    <2>1. UNCHANGED <<live, last>> /\ caller[c].pc = "check"
      BY <1>7 DEF CheckCompaction, transcript, At
    <2>2. Finish(c) \/ (UNCHANGED run /\ \E choice : StartAuto(c, choice, "post"))
      BY <1>7 DEF CheckCompaction
    <2>3. Moves(c) /\ caller'[c].pc \in {"cauth", "running", "settle"} /\ RunFollows
      BY <1>0, <2>1, <2>2, FinishIs, FinishFollows, AutoIs DEF RunFollows
    <2> QED
      BY <1>4, <2>1, <2>3, CallerStays
  <1> QED
    BY <1>5, <1>6, <1>7

\* Automatic compaction.
LEMMA AutoEffect ==
    ASSUME BaseInv, ~ overlap, Parts, NEW c \in Callers,
           AutoPrepare(c) \/ AutoSummaryFails(c) \/ AutoCommit(c) \/ AutoDone(c)
    PROVE  Effect
  <1>0. TypeOK /\ TurnInv /\ SummaryInv
    BY DEF BaseInv
  <1>1. caller \in [Callers -> CallType] /\ {"csum", "cemit", "start", "settle"} \subseteq CallerPCs
    BY <1>0 DEF TypeOK, CallType, CallerPCs
  <1>2. caller[c].pc \in {"cauth", "csum", "cemit"}
    BY DEF AutoPrepare, AutoSummaryFails, AutoCommit, AutoDone, At
  <1>3. UNCHANGED <<unsaved, pendingBash, manual, last>>
    BY DEF AutoPrepare, AutoSummaryFails, AutoCommit, AutoDone, transcript, session
  <1>4. ASSUME caller[c].pc \in {"cauth", "csum"}, AutoFails(c), UNCHANGED <<entries, live>> PROVE Effect
    <2>1. Moves(c) /\ caller'[c].pc \in {"start", "running", "settle"} /\ RunFollows
      BY <1>0, <1>4, FailsIs, FailsFollows
    <2> QED
      BY <1>3, <1>4, <2>1, CallerStays
  <1>5. CASE AutoSummaryFails(c)
    BY <1>4, <1>5 DEF AutoSummaryFails, At, transcript
  <1>6. CASE AutoPrepare(c)
    <2>1. UNCHANGED <<entries, live>> /\ caller[c].pc = "cauth"
      BY <1>6 DEF AutoPrepare, transcript, At
    <2>2. ASSUME NEW i \in CutPoints(entries), UNCHANGED run,
                 caller' = [caller EXCEPT ![c] = [@ EXCEPT !.pc = "csum", !.keep = entries[i].n]]
          PROVE  Effect
      <3>1. PICK n \in Nat : n = entries[i].n
        BY <1>0, CutPointIs
      <3>2. Moves(c) /\ caller'[c].pc = "csum" /\ caller'[c].keep = n
        BY <1>1, <2>2, <3>1 DEF Moves, CallType
      <3>3. \E j \in CutPoints(entries) : caller'[c].keep = entries[j].n
        BY <3>1, <3>2
      <3> QED
        BY <1>3, <2>1, <2>2, <3>2, <3>3, CallerStays DEF RunFollows
    <2> QED
      BY <1>4, <1>6, <2>1, <2>2 DEF AutoPrepare
  <1>7. CASE AutoCommit(c)
    <2>1. caller[c].pc = "csum" /\ Commit(caller[c].keep) /\ Goto(c, "cemit") /\ UNCHANGED run
      BY <1>7 DEF AutoCommit, At
    <2>2. Moves(c) /\ caller'[c].pc = "cemit"
      BY <1>0, <1>1, <2>1, GotoIs
    <2>3. Resting
      BY <1>2, <1>3, <2>1, <2>2, CallerRests DEF RunFollows
    <2>4. caller[c].keep \in Nat /\ IsCut(entries, caller[c].keep)
      BY <1>1, <2>1 DEF CallType, Parts, CutsInv
    <2> QED
      BY <1>3, <2>1, <2>3, <2>4 DEF Effect, Commits
  <1>8. CASE AutoDone(c)
    <2>1. PICK ctx : /\ ctx = IF caller[c].retry /\ Last(live).kind \in Failed THEN Front(live) ELSE live
                     /\ live' = ctx /\ UNCHANGED entries
                     /\ \/ Goto(c, "start") /\ UNCHANGED run
                        \/ ContinueRun(c, ctx)
                        \/ Goto(c, "settle") /\ UNCHANGED run
      BY <1>8 DEF AutoDone
    <2>2. Moves(c) /\ caller'[c].pc \in {"start", "running", "settle"} /\ RunFollows
      BY <1>0, <1>1, <1>2, <2>1, GotoIs, ContinueIs, ContinueFollows DEF RunFollows
    <2>3. CASE ctx = live
      BY <1>3, <2>1, <2>2, <2>3, CallerStays
    <2>4. CASE Last(live).kind \in Failed /\ ctx = Front(live)
      <3>1. live # <<>>
        BY <2>4 DEF Last, None, Failed, Errors
      <3>2. Resting
        BY <1>2, <1>3, <2>2, CallerRests
      <3> QED
        BY <1>3, <2>1, <2>4, <3>1, <3>2 DEF Effect, Drops
    <2> QED
      BY <2>1, <2>3, <2>4
  <1> QED
    BY <1>5, <1>6, <1>7, <1>8

\* compact(), abort() and what arrives meanwhile.
LEMMA OtherEffect ==
    ASSUME BaseInv, ~ overlap, Parts, CompactStep \/ (Request /\ \A c \in Callers : ~ Prompt(c))
    PROVE  Effect
  <1>0. TypeOK /\ TurnInv /\ AloneInv
    BY DEF BaseInv
  <1>1. UNCHANGED <<unsaved, last, caller>> /\ run'.step = run.step
    <2>1. run'.step = run.step
      BY <1>0, AbortIs DEF CompactStep, CompactBegin, CompactPrepare, CompactEnds, CompactCommit,
                           Request, Abort, Compact, AbortCompaction, Queue, ClearQueue, RecordBash
    <2> QED
      BY <2>1 DEF CompactStep, CompactBegin, CompactPrepare, CompactEnds, CompactCommit, Request, Abort, Compact,
                  AbortCompaction, Queue, ClearQueue, RecordBash, transcript, session
  <1>2. LastFollows
    BY <1>1 DEF LastFollows
  <1>3. ASSUME \A c \in Callers : ~ Driving(c), manual'.pc # "summarize" PROVE Resting
    <2>1. run = NoRun
      <3>1. ASSUME run # NoRun PROVE FALSE
        <4>1. run.by \in Callers /\ caller[run.by].pc = "running"
          BY <1>0, <3>1, OnlyRun
        <4> QED
          BY <1>3, <4>1 DEF Driving
      <3> QED
        BY <3>1
    <2>2. NoPost /\ CutsFollow
      BY <1>1, <1>3 DEF NoPost, CutsFollow, Driving
    <2>3. run'.step = "none" /\ unsaved = None
      BY <1>0, <1>1, <2>1 DEF NoRun, TurnInv
    <2> QED
      BY <1>1, <2>1, <2>2, <2>3 DEF Resting
  <1>4. CASE CompactCommit
    <2>1. /\ manual.pc = "summarize" /\ Commit(manual.keep) /\ manual' = [manual EXCEPT !.pc = "emit"] /\ UNCHANGED pendingBash
      BY <1>4 DEF CompactCommit, session
    <2>2. "manual" \in Busy /\ "manual" \notin Callers
      BY <2>1, BusyIs
    <2>3. \A c \in Callers : caller[c].pc \in {"idle", "input"}
      BY <1>0, <2>2, BusyIs DEF AloneInv
    <2>4. \A c \in Callers : ~ Driving(c)
      BY <2>3 DEF Driving
    <2>5. manual'.pc = "emit" /\ manual.keep \in Nat /\ IsCut(entries, manual.keep)
      BY <1>0, <2>1 DEF TypeOK, Parts, CutsInv
    <2>6. Resting
      BY <1>3, <2>4, <2>5
    <2> QED
      BY <2>1, <2>5, <2>6 DEF Effect, Commits
  <1>5. CASE RecordBash
    <2>1. CASE active
      BY <1>5, <2>1 DEF RecordBash, DefersBash, Effect, Defers
    <2>2. CASE ~ active
      <3>1. \A c \in Callers : ~ Driving(c)
        BY <1>0, <2>2 DEF AloneInv
      <3>2. /\ live' = Append(live, Msg("bash")) /\ entries' = Append(entries, Msg("bash"))
            /\ UNCHANGED <<pendingBash, manual, caller, run, unsaved>>
        BY <1>5, <2>2 DEF RecordBash, DefersBash
      <3>3. run = NoRun /\ unsaved = None /\ NoPost
        <4>1. ASSUME run # NoRun PROVE FALSE
          <5>1. run.by \in Callers /\ caller[run.by].pc = "running"
            BY <1>0, <4>1, OnlyRun
          <5> QED
            BY <3>1, <5>1 DEF Driving
        <4> QED
          BY <1>0, <1>1, <3>1, <4>1 DEF TurnInv, NoPost, Driving
      <3>4. CutsFollow
        BY <3>2 DEF CutsFollow
      <3>5. Resting
        BY <3>2, <3>3, <3>4 DEF Resting, NoRun
      <3> QED
        BY <3>2, <3>5 DEF Effect, Records
    <2> QED
      BY <2>1, <2>2
  <1>6. ASSUME ~ CompactCommit, ~ RecordBash PROVE Effect
    <2>1. UNCHANGED <<entries, live, pendingBash>>
      BY <1>6 DEF CompactStep, CompactBegin, CompactPrepare, CompactEnds, Request, Abort, Compact,
                  AbortCompaction, Queue, ClearQueue, transcript, session
    <2>2. \/ manual'.pc = "summarize" => manual.pc = "summarize" /\ manual'.keep = manual.keep
          \/ \E i \in CutPoints(entries) : manual' = [pc |-> "summarize", keep |-> entries[i].n]
      <3>1. manual \in [pc : ManualPCs, keep : Nat]
        BY <1>0 DEF TypeOK
      <3>2. CASE CompactPrepare
        BY <3>2 DEF CompactPrepare
      <3>3. CASE CompactBegin \/ CompactEnds \/ Compact
        <4>1. manual'.pc # "summarize"
          BY <3>1, <3>3 DEF CompactBegin, CompactEnds, Compact
        <4> QED
          BY <4>1
      <3>4. CASE Abort \/ AbortCompaction \/ Queue \/ ClearQueue
        BY <3>4 DEF Abort, AbortCompaction, Queue, ClearQueue
      <3> QED
        BY <1>6, <3>2, <3>3, <3>4 DEF CompactStep, Request
    <2>3. CutsFollow
      BY <1>1, <2>2 DEF CutsFollow
    <2> QED
      BY <1>1, <1>2, <2>1, <2>3 DEF Effect, Stays
  <1> QED
    BY <1>4, <1>5, <1>6

\* Every step keeps live context and branch in step.
LEMMA NextContext == ASSUME BaseInv, RetryInv, ContextInv, [Next]_vars PROVE ContextInv'
  <1>1. SUFFICES ASSUME ~ overlap' PROVE Parts'
    BY DEF ContextInv
  <1>2. CASE Next
    <2>1. Observe /\ TypeOK
      BY <1>2 DEF Next, BaseInv
    <2>2. ~ overlap /\ Parts
      BY <1>1, <2>1, ObserveIs DEF ContextInv
    <2>3. ASSUME NEW c \in Callers, CallerStep(c) \/ Prompt(c) PROVE Effect
      BY <1>1, <2>1, <2>2, <2>3, PromptEffect, PostEffect, AutoEffect DEF CallerStep
    <2>4. ASSUME CompactStep \/ Request, \A c \in Callers : ~ Prompt(c) PROVE Effect
      BY <2>2, <2>4, OtherEffect
    <2>5. Effect
      BY <1>2, <2>2, <2>3, <2>4, RunEffect DEF Next
    <2> QED
      BY <2>2, <2>5, EffectParts
  <1>3. CASE UNCHANGED vars
    <2>1. UNCHANGED <<entries, live, unsaved, pendingBash, run, last, caller, manual, overlap>>
      BY <1>3 DEF vars, transcript, session
    <2>2. Parts /\ Stays
      BY <1>1, <2>1 DEF ContextInv, Stays, LastFollows, CutsFollow
    <2> QED
      BY <2>2, StaysParts
  <1> QED
    BY <1>2, <1>3

\* Both are empty at first.
LEMMA InitContext == ASSUME Init PROVE ContextInv
  <1>1. /\ entries = <<>> /\ live = <<>> /\ unsaved = None /\ run = NoRun /\ pendingBash = <<>>
        /\ manual.pc = "idle" /\ \A c \in Callers : caller[c].pc = "idle"
    BY DEF Init, NoCall
  <1>2. DOMAIN <<>> = {} /\ Last(<<>>).kind = "none"
    BY DEF Last, None
  <1>3. NumbersInv
    BY <1>1, <1>2 DEF NumbersInv, Numbered, Apart
  <1>4. CutsInv
    BY <1>1, <1>2 DEF CutsInv, Cuts
  <1>5. PairsInv
    BY <1>1, <1>2 DEF PairsInv, Paired, Calls, None, NoRun
  <1>6. LastInv
    BY <1>1 DEF LastInv, NoRun
  <1>7. SameLasting(live, Branch)
    <2>1. LatestCompaction(<<>>) = 0
      BY <1>2 DEF LatestCompaction
    <2>2. Branch = <<>> \o <<>>
      BY <1>1, <2>1 DEF Branch, buildSessionContext
    <2>3. Branch = <<>>
      <3>1. <<>> \in Seq(Messages)
        OBVIOUS
      <3> QED
        BY <2>2, <3>1, NoneIs, AppendIs
    <2> QED
      BY <1>1, <1>2, <2>3 DEF SameLasting, Lasting
  <1> QED
    BY <1>3, <1>4, <1>5, <1>6, <1>7 DEF ContextInv, Parts

\* The inductive invariant for live context and branch, on top of that for the
\* session's control.
THEOREM ContextInvCorrect == Spec => [](IInv /\ ContextInv)
  <1>1. Init => IInv /\ ContextInv
    BY InitInv, InitContext
  <1>2. IInv /\ ContextInv /\ [Next]_vars => (IInv /\ ContextInv)'
    BY NextBase, NextRetry, NextContext DEF IInv
  <1> QED
    BY <1>1, <1>2, PTL DEF Spec

\* Leaving aside failed responses, the agent's live context holds what a reload
\* of the branch would build, each message once and in its order: retries,
\* compactions and deferred shell results neither lose nor repeat one.
THEOREM LiveCorrect == Spec => []LiveIsSessionContext
  <1>1. ContextInv => LiveIsSessionContext
    BY DEF ContextInv, Parts, LiveIsSessionContext
  <1> QED
    BY <1>1, ContextInvCorrect, PTL

\* No shell result comes between a tool call and its result, and no compaction
\* keeps a result without its call, in the live context and in what a reload
\* builds.
THEOREM ToolResultsCorrect == Spec => []ToolResultsFollowCalls
  <1>1. ASSUME IInv, ContextInv PROVE ToolResultsFollowCalls
    <2>1. TypeOK
      BY <1>1 DEF IInv, BaseInv
    <2>2. ASSUME ~ overlap PROVE Paired(live) /\ Paired(buildSessionContext(entries))
      <3>1. PICK s : s = entries
        OBVIOUS
      <3>2. s \in Seq(Messages) /\ Numbered(s) /\ Cuts(s) /\ Paired(s) /\ Paired(live)
        BY <1>1, <2>1, <2>2, <3>1 DEF TypeOK, ContextInv, Parts, NumbersInv, CutsInv, PairsInv
      <3> QED
        BY <3>1, <3>2, BuiltPaired
    <2> QED
      BY <2>2 DEF ToolResultsFollowCalls, Paired
  <1> QED
    BY <1>1, ContextInvCorrect, PTL
=============================================================================
