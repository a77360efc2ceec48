------------------------ MODULE SessionServerProofs ------------------------
(***************************************************************************)
(* Proofs about SessionServer, for every set of connections and any number *)
(* of commands: the session is held by one runtime at a time, no work is   *)
(* lost, no runtime is leaked, the two records of who is attached agree,   *)
(* and every step of the server is one that ExclusiveRuntime allows.       *)
(***************************************************************************)
EXTENDS SessionServer, FiniteSetTheorems, TLAPS

-----------------------------------------------------------------------------
(* The inductive invariant *)

RuntimeType == [status : Statuses, members : SUBSET Conns, ops : Nat,
                busy : BOOLEAN, terminal : {"no", "closing", "done"},
                doomed : SUBSET Conns]
SlotType == [pc : Awaits, conn : Conns \cup {NoConn}, rt : {0} \cup Runtimes]
ConnType == [stage : Stages, has : BOOLEAN]

\* The status of a runtime agrees with the two maps that hold it, and at most
\* one runtime holds the session; one that is not live yet is untouched.
RuntimesInv ==
    /\ \A r \in Runtimes :
         /\ rt[r].status \in {"opening", "checking", "discarding"} <=> opening = r
         /\ rt[r].status \in {"live", "disposing"} =>
              \/ current = r
              \/ srv = "disposing" /\ awaited = r /\ rt[r].status = "disposing"
         /\ rt[r].status \notin {"live", "disposing", "gone"} =>
              /\ rt[r].members = {} /\ rt[r].ops = 0
              /\ rt[r].busy = FALSE /\ rt[r].terminal = "no"
    /\ current # 0 => rt[current].status \in {"live", "disposing"}
    /\ \A q, r \in Held : q = r

\* How far close() has come: no connection is left when it waits for the
\* openings, and no runtime becomes live behind its back.
CloseInv ==
    /\ srv \in {"openings", "disposing", "closed"} =>
         \A c \in Conns : conn[c].stage \in {"new", "closed"}
    /\ srv = "openings" => \A r \in Runtimes : rt[r].status = "checking" => awaited = r
    /\ srv \in {"disposing", "closed"} =>
         /\ current = 0
         /\ \A r \in Runtimes : rt[r].status # "checking"
         /\ \A s \in Slots : slot[s].pc = "disposing" => slot[s].rt = awaited

\* What a command waits for is still to come, or it resumes next.
WaitInv ==
    /\ \A s \in Slots :
         /\ slot[s].pc # "free" => slot[s].conn \in Conns /\ slot[s].rt \in Runtimes
         /\ slot[s].pc = "attach" => current = slot[s].rt
         /\ slot[s].pc = "opening" =>
              \/ current = slot[s].rt
              \/ rt[slot[s].rt].status \in {"opening", "checking", "discarding", "failed"}
         /\ slot[s].pc = "disposing" => rt[slot[s].rt].status \in {"disposing", "gone"}
         /\ slot[s].pc \in {"detach", "operation"} =>
              rt[slot[s].rt].status \in {"live", "disposing", "gone"}
    /\ \A r \in Runtimes : rt[r].status \in {"opening", "checking"} =>
         \E s \in Slots : slot[s].pc = "opening" /\ slot[s].rt = r

Waiting == {s \in Slots : slot[s].pc = "disposing"}
Operations(r) == {s \in Slots : slot[s].pc = "operation" /\ slot[s].rt = r}

\* The runtimes are acquired in order, one for a command at most, so that a
\* command that waits for a disposal still has one to acquire; and the count of
\* operations is the number of commands in one.
CountInv ==
    /\ \E k \in Nat :
         /\ \A r \in Runtimes : rt[r].status # "none" <=> r <= k
         /\ k + Cardinality(Waiting) <= commands
    /\ IsFiniteSet(Waiting)
    /\ \A r \in Runtimes : IsFiniteSet(Operations(r)) /\ rt[r].ops = Cardinality(Operations(r))

\* Who is attached, with or without a runtime for the session.
AttachInv ==
    /\ \A c \in Conns : conn[c].has => conn[c].stage \in {"ready", "closing"}
    /\ \A r \in Runtimes : \A c \in rt[r].members : conn[c].stage # "new"
    /\ ~ raced => /\ \A r \in Runtimes : rt[r].status = "disposing" => rt[r].members = {}
                  /\ current = 0 => \A c \in Conns : ~ conn[c].has

IInv ==
    /\ TypeOK /\ RuntimesInv /\ CloseInv /\ WaitInv /\ CountInv /\ AttachInv
    /\ WorkIsKept /\ NoLeakedRuntime /\ AttachmentsAgree

-----------------------------------------------------------------------------
(* Updates of the runtimes *)

\* The types of the variables, by name.
LEMMA Types ==
    ASSUME TypeOK
    PROVE  /\ conn \in [Conns -> ConnType] /\ slot \in [Slots -> SlotType]
           /\ rt \in [Runtimes -> RuntimeType]
           /\ \A r \in Runtimes : rt[r] \in RuntimeType
           /\ \A s \in Slots : slot[s] \in SlotType
           /\ \A c \in Conns : conn[c] \in ConnType
  BY DEF TypeOK, ConnType, SlotType, RuntimeType

\* Changing one field of one runtime changes nothing else.
LEMMA FieldUpdate ==
    ASSUME NEW rts \in [Runtimes -> RuntimeType], NEW r \in Runtimes,
           NEW st \in Statuses, NEW m \in SUBSET Conns, NEW n \in Nat, NEW b \in BOOLEAN
    PROVE  /\ [rts EXCEPT ![r].status = st] \in [Runtimes -> RuntimeType]
           /\ [rts EXCEPT ![r].status = st][r] = [rts[r] EXCEPT !.status = st]
           /\ [rts EXCEPT ![r].members = m] \in [Runtimes -> RuntimeType]
           /\ [rts EXCEPT ![r].members = m][r] = [rts[r] EXCEPT !.members = m]
           /\ [rts EXCEPT ![r].ops = n] \in [Runtimes -> RuntimeType]
           /\ [rts EXCEPT ![r].ops = n][r] = [rts[r] EXCEPT !.ops = n]
           /\ [rts EXCEPT ![r].busy = b] \in [Runtimes -> RuntimeType]
           /\ [rts EXCEPT ![r].busy = b][r] = [rts[r] EXCEPT !.busy = b]
           /\ \A q \in Runtimes \ {r} :
                /\ [rts EXCEPT ![r].status = st][q] = rts[q]
                /\ [rts EXCEPT ![r].members = m][q] = rts[q]
                /\ [rts EXCEPT ![r].ops = n][q] = rts[q]
                /\ [rts EXCEPT ![r].busy = b][q] = rts[q]
  BY DEF RuntimeType

\* maybeDispose changes the status of its runtime only, and only if nobody
\* uses it.
LEMMA MaybeDispose ==
    ASSUME NEW rts \in [Runtimes -> RuntimeType], NEW r \in Runtimes
    PROVE  /\ maybeDispose(rts, r) \in [Runtimes -> RuntimeType]
           /\ \A q \in Runtimes \ {r} : maybeDispose(rts, r)[q] = rts[q]
           /\ maybeDispose(rts, r)[r] =
                [rts[r] EXCEPT !.status = IF Unused(rts, r) THEN "disposing" ELSE @]
           /\ ~ Unused(maybeDispose(rts, r), r)
  <1>1. CASE Unused(rts, r)
    <2>1. maybeDispose(rts, r) = [rts EXCEPT ![r].status = "disposing"]
      BY <1>1 DEF maybeDispose
    <2>2. "disposing" \in Statuses
      BY DEF Statuses
    <2>3. maybeDispose(rts, r)[r] = [rts[r] EXCEPT !.status = "disposing"]
      BY <2>1
    <2>4. maybeDispose(rts, r)[r].status = "disposing"
      BY <2>3 DEF RuntimeType
    <2> QED
      BY <1>1, <2>1, <2>2, <2>3, <2>4 DEF RuntimeType, Unused
  <1>2. CASE ~ Unused(rts, r)
    <2>1. maybeDispose(rts, r) = rts
      BY <1>2 DEF maybeDispose
    <2> QED
      BY <1>2, <2>1 DEF RuntimeType
  <1> QED
    BY <1>1, <1>2

-----------------------------------------------------------------------------
(* Steps that use one runtime *)

\* What a command, a connection or the runtime itself does to the runtime it
\* uses: the session stays where it is, and the runtime may be let go, but only
\* when nobody is left to use it.
Touches(r) ==
    /\ UNCHANGED <<current, opening, srv, awaited>>
    /\ rt' \in [Runtimes -> RuntimeType]
    /\ \A q \in Runtimes \ {r} : rt'[q] = rt[q]
    /\ rt[r].status \in {"live", "disposing", "gone"}
    /\ \/ rt'[r].status = rt[r].status
       \/ /\ rt[r].status = "live" /\ rt'[r].status = "disposing" /\ ~ closing
          /\ rt'[r].members = {} /\ rt'[r].ops = 0
          /\ rt'[r].terminal = "no" => ~ rt'[r].busy
    /\ rt'[r].ops > rt[r].ops => rt[r].status = "live"
    /\ rt'[r].busy => rt[r].busy \/ rt[r].status = "live"
    /\ rt[r].terminal # "no" => rt'[r].terminal # "no"

SlotKept == slot' = slot
SlotFreed(s, r) ==
    /\ slot[s].pc \in {"attach", "opening", "detach", "operation"} /\ slot[s].rt = r
    /\ slot' = [slot EXCEPT ![s] = Free]
SlotTaken(s, c, r) ==
    /\ slot[s].pc = "free" /\ rt[r].status = "live"
    /\ \E pc \in {"detach", "operation"} :
         slot' = [slot EXCEPT ![s] = [pc |-> pc, conn |-> c, rt |-> r]]

\* The commands keep waiting for what they wait for, except the one that ends.
SlotMoves(r) == SlotKept \/ \E s \in Slots : SlotFreed(s, r) \/ \E c \in Conns : SlotTaken(s, c, r)

\* A connection that is closed or was never opened is not opened by close().
StagesKept ==
    /\ conn' \in [Conns -> ConnType]
    /\ \A c \in Conns : /\ closing /\ conn[c].stage \in {"new", "closed"} =>
                             conn'[c].stage \in {"new", "closed"}
                        /\ conn'[c].has => conn'[c].stage \in {"ready", "closing"}
                        /\ conn[c].stage # "new" => conn'[c].stage # "new"

\* Who is attached stays, or one connection attaches to the session's runtime,
\* or one leaves it; in both records at once.
Attached(r) ==
    \/ /\ raced' = raced /\ rt'[r].members = rt[r].members
       /\ \A c \in Conns : conn'[c].has = conn[c].has
    \/ /\ r = current /\ raced' = (raced \/ rt[r].status # "live")
       /\ \E c \in Conns : /\ rt'[r].members = rt[r].members \cup {c}
                           /\ conn'[c].has = TRUE
                           /\ \A d \in Conns \ {c} : conn'[d].has = conn[d].has
    \/ /\ r = current /\ raced' = raced
       /\ \E c \in Conns : /\ rt'[r].members = rt[r].members \ {c}
                           /\ conn'[c].has = FALSE
                           /\ \A d \in Conns \ {c} : conn'[d].has = conn[d].has

\* The runtime is not left unused without anybody to dispose it.
NotLeaked(r) ==
    Unused(rt, r)' =>
        \/ rt'[r].terminal = "closing"
        \/ /\ Unused(rt, r) /\ rt'[r].terminal = rt[r].terminal
           /\ \A s \in Slots : Resumes(s) => slot'[s] = slot[s]

\* The count of operations follows the commands that start or end one.
Counted(r) ==
    \/ /\ rt'[r].ops = rt[r].ops
       /\ \A s \in Slots : \/ slot'[s] = slot[s]
                           \/ slot[s].pc # "operation" /\ slot'[s].pc # "operation"
    \/ /\ rt'[r].ops = rt[r].ops + 1
       /\ \E s \in Slots : /\ slot[s].pc # "operation" /\ slot'[s].pc = "operation"
                           /\ slot'[s].rt = r
                           /\ \A t \in Slots \ {s} : slot'[t] = slot[t]
    \/ /\ rt'[r].ops = rt[r].ops - 1
       /\ \E s \in Slots : /\ slot[s].pc = "operation" /\ slot'[s].pc # "operation"
                           /\ slot[s].rt = r
                           /\ \A t \in Slots \ {s} : slot'[t] = slot[t]

UseStep(r) ==
    /\ Touches(r) /\ SlotMoves(r) /\ StagesKept /\ Attached(r) /\ NotLeaked(r) /\ Counted(r)
    /\ commands' \in 0..MaxCommands /\ commands' >= commands /\ reader' \in Conns \cup {NoConn}

\* A step that uses a runtime keeps the types.
LEMMA UseStepType ==
    ASSUME IInv, NEW r \in Runtimes, UseStep(r)
    PROVE  TypeOK'
  <1>1. TypeOK /\ WaitInv
    BY DEF IInv
  <1>2. slot' \in [Slots -> SlotType]
    <2>1. Free \in SlotType
      BY DEF Free, SlotType, Awaits
    <2>2. \A pc \in {"detach", "operation"}, c \in Conns : [pc |-> pc, conn |-> c, rt |-> r] \in SlotType
      BY DEF SlotType, Awaits
    <2> QED
      BY <1>1, <2>1, <2>2, Types DEF UseStep, SlotMoves, SlotKept, SlotFreed, SlotTaken
  <1>3. raced' \in BOOLEAN
    BY <1>1 DEF UseStep, Attached, TypeOK
  <1>4. /\ UNCHANGED <<current, opening, srv, awaited>>
        /\ rt' \in [Runtimes -> RuntimeType] /\ conn' \in [Conns -> ConnType]
        /\ commands' \in 0..MaxCommands /\ reader' \in Conns \cup {NoConn}
    BY DEF UseStep, Touches, StagesKept
  <1> QED
    BY <1>1, <1>2, <1>3, <1>4 DEF TypeOK, SlotType, ConnType, RuntimeType

\* A step that uses a runtime keeps one runtime at most on the session, and close() on its way.
LEMMA UseStepRuntimes ==
    ASSUME IInv, NEW r \in Runtimes, UseStep(r)
    PROVE  RuntimesInv' /\ CloseInv'
  <1>1. TypeOK /\ RuntimesInv /\ CloseInv
    BY DEF IInv
  <1>2. UNCHANGED <<current, opening, srv, awaited>>
    BY DEF UseStep, Touches
  <1>3. \A q \in Runtimes :
          /\ rt'[q].status = rt[q].status \/ (q = r /\ rt[q].status = "live" /\ rt'[q].status = "disposing")
          /\ rt'[q] = rt[q] \/ rt[q].status \in {"live", "disposing", "gone"}
    BY DEF UseStep, Touches
  <1>4. Held' = Held
    BY <1>3 DEF Held
  <1>5. RuntimesInv'
    BY <1>1, <1>2, <1>3, <1>4 DEF RuntimesInv, TypeOK
  <1>6. \A s \in Slots : slot'[s].pc = "disposing" => slot[s].pc = "disposing" /\ slot'[s].rt = slot[s].rt
    BY <1>1, Types DEF UseStep, SlotMoves, SlotKept, SlotFreed, SlotTaken, Free
  <1>7. \A c \in Conns : closing /\ conn[c].stage \in {"new", "closed"} =>
                             conn'[c].stage \in {"new", "closed"}
    BY DEF UseStep, StagesKept
  <1>8. CloseInv'
    BY <1>1, <1>2, <1>3, <1>6, <1>7 DEF CloseInv, closing
  <1> QED
    BY <1>5, <1>8

\* A step that uses a runtime leaves every command something to wait for.
LEMMA UseStepWait ==
    ASSUME IInv, NEW r \in Runtimes, UseStep(r)
    PROVE  WaitInv'
  <1>1. TypeOK /\ RuntimesInv /\ WaitInv
    BY DEF IInv
  <1>2. UNCHANGED <<current, opening, srv, awaited>>
    BY DEF UseStep, Touches
  <1>3. \A q \in Runtimes :
          rt'[q].status = rt[q].status \/ (q = r /\ rt[q].status = "live" /\ rt'[q].status = "disposing")
    BY DEF UseStep, Touches
  <1>4. rt[r].status \in {"live", "disposing", "gone"}
    BY DEF UseStep, Touches
  <1>5. ASSUME NEW s \in Slots
        PROVE  \/ slot'[s] = slot[s]
               \/ slot'[s].pc = "free"
               \/ /\ slot'[s].pc \in {"detach", "operation"} /\ slot'[s].rt = r
                  /\ slot'[s].conn \in Conns /\ slot[s].pc = "free"
    BY <1>1, Types DEF UseStep, SlotMoves, SlotKept, SlotFreed, SlotTaken, Free
  <1>6. ASSUME NEW s \in Slots, slot[s].pc = "opening", slot[s].rt # r
        PROVE  slot'[s] = slot[s]
    BY <1>1, <1>6, Types DEF UseStep, SlotMoves, SlotKept, SlotFreed, SlotTaken
  <1>7. ASSUME NEW q \in Runtimes, rt'[q].status \in {"opening", "checking"}
        PROVE  \E s \in Slots : slot'[s].pc = "opening" /\ slot'[s].rt = q
    <2>1. q # r /\ rt[q].status \in {"opening", "checking"}
      BY <1>3, <1>4, <1>7
    <2>2. PICK s \in Slots : slot[s].pc = "opening" /\ slot[s].rt = q
      BY <1>1, <2>1 DEF WaitInv
    <2> QED
      BY <1>6, <2>1, <2>2
  <1>8. ASSUME NEW s \in Slots
        PROVE /\ slot'[s].pc # "free" => slot'[s].conn \in Conns /\ slot'[s].rt \in Runtimes
              /\ slot'[s].pc = "attach" => current' = slot'[s].rt
              /\ slot'[s].pc = "opening" =>
                  \/ current' = slot'[s].rt
                  \/ rt'[slot'[s].rt].status \in {"opening", "checking", "discarding", "failed"}
              /\ slot'[s].pc = "disposing" => rt'[slot'[s].rt].status \in {"disposing", "gone"}
              /\ slot'[s].pc \in {"detach", "operation"} =>
                  rt'[slot'[s].rt].status \in {"live", "disposing", "gone"}
    <2>1. CASE slot'[s] = slot[s]
      BY <1>1, <1>2, <1>3, <2>1 DEF WaitInv
    <2>2. CASE slot'[s].pc = "free"
      BY <2>2
    <2>3. CASE /\ slot'[s].pc \in {"detach", "operation"} /\ slot'[s].rt = r
               /\ slot'[s].conn \in Conns
      BY <1>3, <1>4, <2>3
    <2> QED
      BY <1>5, <2>1, <2>2, <2>3
  <1> QED
    BY <1>7, <1>8 DEF WaitInv

\* A step that uses a runtime keeps the count of operations right.
LEMMA UseStepCount ==
    ASSUME IInv, NEW r \in Runtimes, UseStep(r)
    PROVE  CountInv'
  <1>1. TypeOK /\ CountInv
    BY DEF IInv
  <1>2. \A q \in Runtimes : rt'[q].status # "none" <=> rt[q].status # "none"
    BY DEF UseStep, Touches
  <1>3. Waiting' = Waiting
    BY <1>1, Types DEF Waiting, UseStep, SlotMoves, SlotKept, SlotFreed, SlotTaken, Free
  <1>4. /\ \E k \in Nat : /\ \A q \in Runtimes : rt'[q].status # "none" <=> q <= k
                          /\ k + Cardinality(Waiting') <= commands'
        /\ IsFiniteSet(Waiting')
    <2>1. PICK k \in Nat : /\ \A q \in Runtimes : rt[q].status # "none" <=> q <= k
                           /\ k + Cardinality(Waiting) <= commands
      BY <1>1 DEF CountInv
    <2>2. commands' \in Nat /\ commands \in Nat /\ commands' >= commands /\ Cardinality(Waiting) \in Nat
      BY <1>1, BoundsAssumption, FS_CardinalityType DEF UseStep, TypeOK, CountInv
    <2>3. k + Cardinality(Waiting) <= commands'
      BY <2>1, <2>2
    <2> QED
      BY <1>1, <1>2, <1>3, <2>1, <2>3 DEF CountInv
  <1>5. ASSUME NEW q \in Runtimes
        PROVE  IsFiniteSet(Operations(q)') /\ rt'[q].ops = Cardinality(Operations(q)')
    <2>0. IsFiniteSet(Operations(q)) /\ rt[q].ops = Cardinality(Operations(q))
      BY <1>1 DEF CountInv
    <2>1. CASE /\ rt'[r].ops = rt[r].ops
               /\ \A s \in Slots : \/ slot'[s] = slot[s]
                                   \/ slot[s].pc # "operation" /\ slot'[s].pc # "operation"
      <3>1. Operations(q)' = Operations(q)
        BY <2>1 DEF Operations
      <3>2. rt'[q].ops = rt[q].ops
        BY <2>1 DEF UseStep, Touches
      <3> QED
        BY <2>0, <3>1, <3>2
    <2>2. ASSUME rt'[r].ops = rt[r].ops + 1,
                 NEW s \in Slots, slot[s].pc # "operation", slot'[s].pc = "operation",
                 slot'[s].rt = r, \A t \in Slots \ {s} : slot'[t] = slot[t]
          PROVE  IsFiniteSet(Operations(q)') /\ rt'[q].ops = Cardinality(Operations(q)')
      <3>1. CASE q = r
        <4>1. Operations(q)' = Operations(q) \cup {s} /\ s \notin Operations(q)
          BY <2>2, <3>1 DEF Operations
        <4>2. IsFiniteSet(Operations(q)') /\ Cardinality(Operations(q)') = Cardinality(Operations(q)) + 1
          BY <2>0, <4>1, FS_AddElement
        <4> QED
          BY <2>0, <2>2, <3>1, <4>2
      <3>2. CASE q # r
        <4>1. Operations(q)' = Operations(q)
          BY <2>2, <3>2 DEF Operations
        <4> QED
          BY <2>0, <3>2, <4>1 DEF UseStep, Touches
      <3> QED
        BY <3>1, <3>2
    <2>3. ASSUME rt'[r].ops = rt[r].ops - 1,
                 NEW s \in Slots, slot[s].pc = "operation", slot'[s].pc # "operation",
                 slot[s].rt = r, \A t \in Slots \ {s} : slot'[t] = slot[t]
          PROVE  IsFiniteSet(Operations(q)') /\ rt'[q].ops = Cardinality(Operations(q)')
      <3>1. CASE q = r
        <4>1. Operations(q)' = Operations(q) \ {s} /\ s \in Operations(q)
          BY <2>3, <3>1 DEF Operations
        <4> QED
          BY <2>0, <2>3, <3>1, <4>1, FS_RemoveElement
      <3>2. CASE q # r
        <4>1. Operations(q)' = Operations(q)
          BY <2>3, <3>2 DEF Operations
        <4> QED
          BY <2>0, <3>2, <4>1 DEF UseStep, Touches
      <3> QED
        BY <3>1, <3>2
    <2> QED
      BY <2>1, <2>2, <2>3 DEF UseStep, Counted
  <1> QED
    BY <1>4, <1>5 DEF CountInv, Waiting, Operations

\* A step that uses a runtime keeps the two records of who is attached the same.
LEMMA UseStepAttach ==
    ASSUME IInv, NEW r \in Runtimes, UseStep(r)
    PROVE  AttachInv' /\ AttachmentsAgree'
  <1>1. TypeOK /\ RuntimesInv /\ AttachInv /\ AttachmentsAgree
    BY DEF IInv
  <1>2. current' = current /\ \A q \in Runtimes \ {r} : rt'[q] = rt[q]
    BY DEF UseStep, Touches
  <1>3. rt'[r].status = "disposing" => rt[r].status = "disposing" \/ rt'[r].members = {}
    BY DEF UseStep, Touches
  <1>4. /\ \A c \in Conns : conn'[c].has => conn'[c].stage \in {"ready", "closing"}
        /\ \A c \in Conns : conn[c].stage # "new" => conn'[c].stage # "new"
        /\ \A q \in Runtimes : \A c \in rt[q].members : conn'[c].stage # "new"
    BY <1>1, Types DEF UseStep, StagesKept, AttachInv, RuntimeType
  <1>5. current # 0 => current \in Runtimes
    BY <1>1 DEF TypeOK
  <1>6. r # 0
    BY DEF Runtimes
  <1>7. /\ rt[r].members \in SUBSET Conns /\ rt'[r].members \in SUBSET Conns
        /\ raced \in BOOLEAN
        /\ \A c \in Conns : conn[c].has \in BOOLEAN /\ conn'[c].has \in BOOLEAN
    BY <1>1, Types DEF UseStep, Touches, StagesKept, RuntimeType, ConnType, TypeOK
  <1>8. CASE /\ raced' = raced /\ rt'[r].members = rt[r].members
             /\ \A c \in Conns : conn'[c].has = conn[c].has
    <2>1. \A q \in Runtimes : rt'[q].members = rt[q].members
      BY <1>2, <1>8
    <2>2. AttachmentsAgree'
      BY <1>1, <1>2, <1>5, <1>8, <2>1 DEF AttachmentsAgree
    <2> QED
      BY <1>1, <1>2, <1>3, <1>4, <1>8, <2>1, <2>2 DEF AttachInv
  <1>9. ASSUME r = current, raced' = (raced \/ rt[r].status # "live"),
               NEW c \in Conns, rt'[r].members = rt[r].members \cup {c},
               conn'[c].has = TRUE,
               \A d \in Conns \ {c} : conn'[d].has = conn[d].has
        PROVE  AttachInv' /\ AttachmentsAgree'
    <2>1. ~ raced' => ~ raced /\ rt[r].status = "live"
      BY <1>7, <1>9
    <2>2. AttachmentsAgree'
      BY <1>1, <1>2, <1>7, <1>9, <2>1 DEF AttachmentsAgree
    <2> QED
      BY <1>1, <1>2, <1>3, <1>4, <1>6, <1>9, <2>1, <2>2 DEF AttachInv
  <1>10. ASSUME r = current, raced' = raced,
                NEW c \in Conns, rt'[r].members = rt[r].members \ {c},
                conn'[c].has = FALSE,
                \A d \in Conns \ {c} : conn'[d].has = conn[d].has
         PROVE  AttachInv' /\ AttachmentsAgree'
    <2>2. AttachmentsAgree'
      BY <1>1, <1>2, <1>7, <1>10 DEF AttachmentsAgree
    <2> QED
      BY <1>1, <1>2, <1>3, <1>4, <1>6, <1>10, <2>2 DEF AttachInv
  <1> QED
    BY <1>8, <1>9, <1>10 DEF UseStep, Attached

\* A step that uses a runtime neither loses work nor leaks the runtime.
LEMMA UseStepWork ==
    ASSUME IInv, NEW r \in Runtimes, UseStep(r)
    PROVE  WorkIsKept' /\ NoLeakedRuntime'
  <1>1. TypeOK /\ WaitInv /\ WorkIsKept /\ NoLeakedRuntime /\ TypeOK'
    BY UseStepType DEF IInv
  <1>2. UNCHANGED srv /\ \A q \in Runtimes \ {r} : rt'[q] = rt[q]
    BY DEF UseStep, Touches
  <1>3. WorkIsKept'
    <2>1. rt[r].ops \in Nat /\ rt'[r].ops \in Nat
      BY <1>1 DEF TypeOK
    <2> QED
      BY <1>1, <1>2, <2>1 DEF WorkIsKept, closing, UseStep, Touches
  <1>4. ASSUME NEW q \in Runtimes, Unused(rt, q)'
        PROVE  \/ \E s \in Slots : Resumes(s)' /\ slot'[s].rt = q
               \/ rt'[q].terminal = "closing"
    <2>1. ASSUME Unused(rt, q), rt'[q].terminal = rt[q].terminal,
                 \A s \in Slots : Resumes(s) /\ slot[s].rt = q => slot'[s] = slot[s]
          PROVE  \/ \E s \in Slots : Resumes(s)' /\ slot'[s].rt = q
                 \/ rt'[q].terminal = "closing"
      <3>1. CASE rt[q].terminal = "closing"
        BY <2>1, <3>1
      <3>2. ASSUME NEW s \in Slots, Resumes(s), slot[s].rt = q
            PROVE  Resumes(s)' /\ slot'[s].rt = q
        <4>1. rt[q].status = "live" /\ rt'[q].status = "live" /\ slot'[s] = slot[s]
          BY <1>4, <2>1, <3>2 DEF Unused
        <4> QED
          BY <3>2, <4>1 DEF Resumes
      <3> QED
        BY <1>1, <2>1, <3>1, <3>2 DEF NoLeakedRuntime
    <2>2. CASE q = r
      BY <1>4, <2>1, <2>2 DEF UseStep, NotLeaked
    <2>3. CASE q # r
      <3>1. rt'[q] = rt[q]
        BY <1>2, <2>3
      <3>2. Unused(rt, q)
        BY <1>2, <1>4, <3>1 DEF Unused, closing
      <3>3. \A s \in Slots : Resumes(s) /\ slot[s].rt = q => slot'[s] = slot[s]
        BY <1>1, <2>3, Types DEF UseStep, SlotMoves, SlotKept, SlotFreed, SlotTaken, Resumes
      <3> QED
        BY <2>1, <3>1, <3>2, <3>3
    <2> QED
      BY <2>2, <2>3
  <1> QED
    BY <1>3, <1>4 DEF NoLeakedRuntime

\* A step that uses one runtime keeps the invariant.
LEMMA UseStepKeeps ==
    ASSUME IInv, NEW r \in Runtimes, UseStep(r)
    PROVE  IInv'
  BY UseStepType, UseStepRuntimes, UseStepWait, UseStepCount, UseStepAttach, UseStepWork DEF IInv

-----------------------------------------------------------------------------
(* The actions that use one runtime *)

\* A step that ends in maybeDispose touches its runtime and does not leak it.
LEMMA DisposeTouches ==
    ASSUME NEW r \in Runtimes, NEW rts \in [Runtimes -> RuntimeType], TypeOK,
           \A q \in Runtimes \ {r} : rts[q] = rt[q],
           rts[r].status = rt[r].status, rt[r].status \in {"live", "disposing", "gone"},
           rts[r].ops <= rt[r].ops, rts[r].busy => rt[r].busy,
           rt[r].terminal # "no" => rts[r].terminal # "no",
           rt' = maybeDispose(rts, r), UNCHANGED <<current, opening, srv, awaited>>
    PROVE  /\ Touches(r) /\ NotLeaked(r)
           /\ rt'[r].members = rts[r].members /\ rt'[r].ops = rts[r].ops
  <1>1. /\ rt' \in [Runtimes -> RuntimeType]
        /\ \A q \in Runtimes \ {r} : rt'[q] = rts[q]
        /\ rt'[r] = [rts[r] EXCEPT !.status = IF Unused(rts, r) THEN "disposing" ELSE @]
        /\ ~ Unused(rt', r)
    BY MaybeDispose
  <1>2. /\ rt'[r].members = rts[r].members /\ rt'[r].ops = rts[r].ops
        /\ rt'[r].busy = rts[r].busy /\ rt'[r].terminal = rts[r].terminal
        /\ rt'[r].status = IF Unused(rts, r) THEN "disposing" ELSE rts[r].status
    BY <1>1 DEF RuntimeType
  <1>3. ~ Unused(rt, r)'
    BY <1>1 DEF Unused, closing
  <1>4. NotLeaked(r)
    BY <1>3 DEF NotLeaked
  <1>5. rts[r].ops \in Nat /\ rt[r].ops \in Nat
    BY Types DEF RuntimeType
  <1>6. ~ (rt'[r].ops > rt[r].ops)
    BY <1>2, <1>5
  <1>7. Touches(r)
    BY <1>1, <1>2, <1>6 DEF Touches, Unused
  <1> QED
    BY <1>2, <1>4, <1>7

\* The two ways to leave the connections alone.
LEMMA ConnSame == ASSUME TypeOK, AttachInv, UNCHANGED conn PROVE StagesKept
  BY Types DEF StagesKept, AttachInv

\* DetachDone, in an event of the snapshot.
LEMMA DetachDoneUses ==
    ASSUME IInv, NEW s \in Slots, DetachDone(s), reader' = NoConn
    PROVE  \E r \in Runtimes : UseStep(r)
  <1>0. PICK r \in Runtimes : r = slot[s].rt
    BY DEF IInv, WaitInv, DetachDone
  <1>1. /\ TypeOK /\ WaitInv /\ AttachInv
        /\ slot[s].pc = "detach" /\ rt' \in {rt, maybeDispose(rt, r)}
        /\ slot' = [slot EXCEPT ![s] = Free]
        /\ UNCHANGED <<conn, current, opening, srv, awaited, commands, raced>>
    BY <1>0 DEF IInv, DetachDone
  <1>2. r \in Runtimes /\ rt[r].status \in {"live", "disposing", "gone"} /\ rt[r] \in RuntimeType
    BY <1>0, <1>1, Types DEF WaitInv
  <1>3. Touches(r) /\ NotLeaked(r) /\ rt'[r].members = rt[r].members /\ rt'[r].ops = rt[r].ops
    <2>1. CASE rt' = maybeDispose(rt, r)
      <3>1. rt[r].ops \in Nat
        BY <1>2 DEF RuntimeType
      <3>2. rt[r].ops <= rt[r].ops
        BY <3>1
      <3>3. rt \in [Runtimes -> RuntimeType] /\ UNCHANGED <<current, opening, srv, awaited>>
        BY <1>1, Types
      <3> HIDE DEF Touches, NotLeaked
      <3> QED
        BY <1>1, <1>2, <2>1, <3>2, <3>3, DisposeTouches
    <2>2. CASE rt' = rt
      <3>1. Touches(r)
        BY <1>1, <1>2, <2>2, Types DEF Touches, RuntimeType
      <3>2. \A t \in Slots : Resumes(t) => slot'[t] = slot[t]
        BY <1>1, Types DEF Resumes
      <3>3. Unused(rt, r)' => Unused(rt, r)
        BY <1>1, <2>2 DEF Unused, closing
      <3>4. rt'[r] = rt[r]
        BY <2>2
      <3>5. NotLeaked(r)
        BY <3>2, <3>3, <3>4 DEF NotLeaked
      <3> QED
        BY <3>1, <3>4, <3>5
    <2> QED
      BY <1>1, <2>1, <2>2
  <1>4. SlotMoves(r)
    BY <1>0, <1>1 DEF SlotMoves, SlotFreed
  <1>5. Counted(r)
    BY <1>1, <1>3, Types DEF Counted, Free
  <1>6. Attached(r) /\ StagesKept
    BY <1>1, <1>3, ConnSame DEF Attached
  <1>7. commands' \in 0..MaxCommands /\ commands' >= commands /\ reader' \in Conns \cup {NoConn}
    BY <1>1 DEF TypeOK
  <1> QED
    BY <1>2, <1>3, <1>4, <1>5, <1>6, <1>7 DEF UseStep

\* OperationDone: the operation of a command ends.
LEMMA OperationDoneUses ==
    ASSUME IInv, NEW s \in Slots, OperationDone(s), reader' = NoConn
    PROVE  \E r \in Runtimes : UseStep(r)
  <1>0. PICK r \in Runtimes : r = slot[s].rt
    BY DEF IInv, WaitInv, OperationDone
  <1> DEFINE rts == [rt EXCEPT ![r].ops = rt[r].ops - 1]
  <1>1. /\ TypeOK /\ WaitInv /\ AttachInv /\ CountInv
        /\ slot[s].pc = "operation" /\ rt' = maybeDispose(rts, r)
        /\ slot' = [slot EXCEPT ![s] = Free]
        /\ UNCHANGED <<conn, current, opening, srv, awaited, commands, raced>>
    BY <1>0 DEF IInv, OperationDone
  <1>2. r \in Runtimes /\ rt[r].status \in {"live", "disposing", "gone"} /\ rt[r] \in RuntimeType
    BY <1>0, <1>1, Types DEF WaitInv
  <1>3. rt[r].ops \in Nat /\ rt[r].ops - 1 \in Nat
    <2>1. s \in Operations(r)
      BY <1>0, <1>1 DEF Operations
    <2>2. IsFiniteSet(Operations(r)) /\ rt[r].ops = Cardinality(Operations(r))
      BY <1>1, <1>2 DEF CountInv
    <2>3. Cardinality(Operations(r)) # 0 /\ Cardinality(Operations(r)) \in Nat
      BY <2>1, <2>2, FS_EmptySet, FS_CardinalityType
    <2> QED
      BY <2>2, <2>3
  <1>4. /\ rts \in [Runtimes -> RuntimeType] /\ \A q \in Runtimes \ {r} : rts[q] = rt[q]
        /\ rts[r].status = rt[r].status /\ rts[r].ops = rt[r].ops - 1 /\ rts[r].busy = rt[r].busy
        /\ rts[r].terminal = rt[r].terminal /\ rts[r].members = rt[r].members
    BY <1>1, <1>2, <1>3, Types DEF RuntimeType
  <1> HIDE DEF rts
  <1>5. Touches(r) /\ NotLeaked(r) /\ rt'[r].members = rt[r].members /\ rt'[r].ops = rt[r].ops - 1
    <2>1. rts[r].ops <= rt[r].ops
      BY <1>3, <1>4
    <2> QED
      BY <1>1, <1>2, <1>4, <2>1, DisposeTouches
  <1>6. SlotMoves(r)
    BY <1>0, <1>1 DEF SlotMoves, SlotFreed
  <1>7. Counted(r)
    <2>1. slot'[s].pc # "operation" /\ \A t \in Slots \ {s} : slot'[t] = slot[t]
      BY <1>1, Types DEF Free
    <2> QED
      BY <1>0, <1>1, <1>5, <2>1 DEF Counted
  <1>8. Attached(r) /\ StagesKept
    BY <1>1, <1>5, ConnSame DEF Attached
  <1>9. commands' \in 0..MaxCommands /\ commands' >= commands /\ reader' \in Conns \cup {NoConn}
    BY <1>1 DEF TypeOK
  <1> QED
    BY <1>2, <1>5, <1>6, <1>7, <1>8, <1>9 DEF UseStep

\* The rest of Resume: a command attaches its connection, or lets the runtime
\* go because the connection has gone meanwhile.
LEMMA AttachUses ==
    ASSUME IInv, NEW s \in Slots, Resumes(s), slot[s].pc # "disposing",
           rt[slot[s].rt].status # "failed", attach(s),
           slot' = [slot EXCEPT ![s] = Free],
           UNCHANGED <<current, opening, srv, awaited, commands>>, reader' = NoConn
    PROVE  \E r \in Runtimes : UseStep(r)
  <1>1. TypeOK /\ WaitInv /\ RuntimesInv /\ AttachInv
    BY DEF IInv
  <1>2. /\ slot[s].pc \in {"attach", "opening"}
        /\ slot[s].rt \in Runtimes /\ slot[s].conn \in Conns
    BY <1>1 DEF Resumes, WaitInv
  <1>3. PICK r \in Runtimes, c \in Conns : r = slot[s].rt /\ c = slot[s].conn
    BY <1>2
  <1>4. current = r /\ current # 0 /\ rt[r].status \in {"live", "disposing"} /\ rt[r] \in RuntimeType
    <2>1. current = r
      BY <1>1, <1>2, <1>3 DEF WaitInv, Resumes
    <2>2. r # 0
      BY DEF Runtimes
    <2> QED
      BY <1>1, <2>1, <2>2, Types DEF RuntimesInv
  <1>5. rt[r].ops \in Nat /\ rt[r].ops <= rt[r].ops
    BY <1>4 DEF RuntimeType
  <1>6. /\ conn' = [conn EXCEPT ![c].has = @ \/ conn[c].stage = "ready"]
        /\ rt' = IF conn[c].stage = "ready" THEN [rt EXCEPT ![r].members = @ \cup {c}]
                 ELSE maybeDispose(rt, r)
        /\ raced' = (raced \/ (conn[c].stage = "ready" /\ rt[r].status # "live"))
    BY <1>3 DEF attach
  <1>7. StagesKept
    <2>1. conn' \in [Conns -> ConnType] /\ \A d \in Conns : conn'[d].stage = conn[d].stage
      BY <1>1, <1>6, Types DEF ConnType
    <2>2. \A d \in Conns \ {c} : conn'[d].has = conn[d].has
      BY <1>1, <1>6, Types
    <2>3. conn'[c].has = (conn[c].has \/ conn[c].stage = "ready")
      BY <1>1, <1>6, Types DEF ConnType
    <2> QED
      BY <1>1, <2>1, <2>2, <2>3 DEF StagesKept, AttachInv
  <1>8. /\ Touches(r) /\ NotLeaked(r) /\ Attached(r) /\ rt'[r].ops = rt[r].ops
    <2>1. CASE conn[c].stage = "ready"
      <3>1. /\ rt' \in [Runtimes -> RuntimeType] /\ \A q \in Runtimes \ {r} : rt'[q] = rt[q]
            /\ rt'[r].status = rt[r].status /\ rt'[r].ops = rt[r].ops /\ rt'[r].busy = rt[r].busy
            /\ rt'[r].terminal = rt[r].terminal /\ rt'[r].members = rt[r].members \cup {c}
        BY <1>1, <1>6, <2>1, Types DEF RuntimeType
      <3>2. Touches(r)
        BY <1>4, <1>5, <3>1 DEF Touches
      <3>3. rt'[r].members # {}
        BY <3>1
      <3>4. NotLeaked(r)
        BY <3>3 DEF NotLeaked, Unused
      <3>5. conn'[c].has = TRUE /\ \A d \in Conns \ {c} : conn'[d].has = conn[d].has
        BY <1>1, <1>6, <2>1, Types DEF ConnType
      <3>6. raced' = (raced \/ rt[r].status # "live")
        BY <1>6, <2>1
      <3> QED
        BY <1>4, <3>1, <3>2, <3>4, <3>5, <3>6 DEF Attached
    <2>2. CASE conn[c].stage # "ready"
      <3>1. /\ Touches(r) /\ NotLeaked(r)
            /\ rt'[r].members = rt[r].members /\ rt'[r].ops = rt[r].ops
        BY <1>1, <1>4, <1>5, <1>6, <2>2, Types, DisposeTouches
      <3>2. \A d \in Conns : conn'[d].has = conn[d].has
        BY <1>1, <1>6, <2>2, Types DEF ConnType
      <3>3. raced' = raced
        BY <1>1, <1>6, <2>2 DEF TypeOK
      <3> QED
        BY <3>1, <3>2, <3>3 DEF Attached
    <2> QED
      BY <2>1, <2>2
  <1>9. SlotMoves(r)
    BY <1>2, <1>3 DEF SlotMoves, SlotFreed
  <1>10. Counted(r)
    BY <1>1, <1>2, <1>8, Types DEF Counted, Free
  <1>11. commands' \in 0..MaxCommands /\ commands' >= commands /\ reader' \in Conns \cup {NoConn}
    BY <1>1 DEF TypeOK
  <1> QED
    BY <1>7, <1>8, <1>9, <1>10, <1>11 DEF UseStep

\* What every command does when it is dispatched.
LEMMA Dispatched ==
    ASSUME TypeOK, NEW s \in Slots, NEW c \in Conns, Dispatch(s, c)
    PROVE  /\ slot[s].pc = "free" /\ conn[c].stage = "ready"
           /\ commands' = commands + 1
           /\ commands' \in 0..MaxCommands /\ commands' >= commands /\ reader' \in Conns \cup {NoConn}
           /\ UNCHANGED <<current, srv, awaited, raced>>
  BY BoundsAssumption DEF TypeOK, Dispatch, Free

\* OperationCommand: a command starts an operation on the live runtime.
LEMMA OperationCommandUses ==
    ASSUME IInv, NEW s \in Slots, NEW c \in Conns, OperationCommand(s, c)
    PROVE  \E r \in Runtimes : UseStep(r)
  <1>1. TypeOK /\ AttachInv /\ Dispatch(s, c) /\ requireAttached(c)
    BY DEF IInv, OperationCommand
  <1>2. PICK r \in Runtimes : r = current
    BY <1>1 DEF TypeOK, requireAttached
  <1>3. rt[r].status = "live" /\ rt[r] \in RuntimeType /\ rt[r].ops \in Nat
    BY <1>1, <1>2, Types DEF requireAttached, RuntimeType
  <1>4. /\ rt' = [rt EXCEPT ![r].ops = rt[r].ops + 1]
        /\ slot' = [slot EXCEPT ![s] = [pc |-> "operation", conn |-> c, rt |-> r]]
        /\ UNCHANGED <<conn, opening>>
    BY <1>2 DEF OperationCommand, Take
  <1>5. /\ slot[s].pc = "free" /\ UNCHANGED <<current, srv, awaited, raced>>
        /\ commands' \in 0..MaxCommands /\ commands' >= commands /\ reader' \in Conns \cup {NoConn}
    BY <1>1, Dispatched
  <1>6. /\ rt' \in [Runtimes -> RuntimeType] /\ \A q \in Runtimes \ {r} : rt'[q] = rt[q]
        /\ rt'[r].status = rt[r].status /\ rt'[r].ops = rt[r].ops + 1 /\ rt'[r].busy = rt[r].busy
        /\ rt'[r].terminal = rt[r].terminal /\ rt'[r].members = rt[r].members
    BY <1>1, <1>3, <1>4, Types DEF RuntimeType
  <1>7. Touches(r)
    BY <1>3, <1>4, <1>5, <1>6 DEF Touches
  <1>8. NotLeaked(r)
    <2>1. rt'[r].ops # 0
      BY <1>3, <1>6
    <2> QED
      BY <2>1 DEF NotLeaked, Unused
  <1>9. SlotMoves(r)
    BY <1>3, <1>4, <1>5 DEF SlotMoves, SlotTaken
  <1>10. Counted(r)
    <2>1. slot'[s].pc = "operation" /\ slot'[s].rt = r /\ \A t \in Slots \ {s} : slot'[t] = slot[t]
      BY <1>1, <1>4, Types
    <2> QED
      BY <1>5, <1>6, <2>1 DEF Counted
  <1>11. Attached(r) /\ StagesKept
    BY <1>1, <1>4, <1>5, <1>6, ConnSame DEF Attached
  <1> QED
    BY <1>5, <1>7, <1>8, <1>9, <1>10, <1>11 DEF UseStep

\* A connection leaves the session's runtime: what it was a member of.
LEMMA Leave ==
    ASSUME TypeOK, NEW r \in Runtimes, NEW c \in Conns
    PROVE  LET left == [rt EXCEPT ![r].members = @ \ {c}] IN
           /\ left \in [Runtimes -> RuntimeType] /\ \A q \in Runtimes \ {r} : left[q] = rt[q]
           /\ left[r].status = rt[r].status /\ left[r].ops = rt[r].ops /\ left[r].busy = rt[r].busy
           /\ left[r].terminal = rt[r].terminal /\ left[r].members = rt[r].members \ {c}
           /\ rt[r].ops \in Nat /\ rt[r].ops <= rt[r].ops
  <1>1. rt[r].ops \in Nat
    BY DEF TypeOK
  <1> QED
    BY <1>1, Types DEF RuntimeType

\* DetachCommand, for a session that is live or being disposed.
LEMMA DetachCommandUses ==
    ASSUME IInv, NEW s \in Slots, NEW c \in Conns, DetachCommand(s, c), current # 0
    PROVE  \E r \in Runtimes : UseStep(r)
  <1>1. TypeOK /\ AttachInv /\ RuntimesInv /\ Dispatch(s, c)
    BY DEF IInv, DetachCommand
  <1>2. PICK r \in Runtimes : r = current
    BY <1>1 DEF TypeOK
  <1> DEFINE left == [rt EXCEPT ![r].members = @ \ {c}]
  <1>3. rt[r].status \in {"live", "disposing"}
    BY <1>1, <1>2 DEF RuntimesInv
  <1>4. /\ left \in [Runtimes -> RuntimeType] /\ \A q \in Runtimes \ {r} : left[q] = rt[q]
        /\ left[r].status = rt[r].status /\ left[r].ops = rt[r].ops /\ left[r].busy = rt[r].busy
        /\ left[r].terminal = rt[r].terminal /\ left[r].members = rt[r].members \ {c}
        /\ rt[r].ops \in Nat /\ rt[r].ops <= rt[r].ops
    BY <1>1, Leave
  <1>5. /\ conn' = [conn EXCEPT ![c].has = FALSE]
        /\ \/ /\ left[r].members # {} /\ rt[r].status = "live" /\ rt' = left
              /\ slot' = [slot EXCEPT ![s] = [pc |-> "detach", conn |-> c, rt |-> r]]
           \/ rt' = maybeDispose(left, r) /\ slot' = slot
        /\ UNCHANGED opening
    BY <1>2 DEF DetachCommand, Take
  <1> HIDE DEF left
  <1>6. /\ slot[s].pc = "free" /\ UNCHANGED <<current, srv, awaited, raced>>
        /\ commands' \in 0..MaxCommands /\ commands' >= commands /\ reader' \in Conns \cup {NoConn}
    BY <1>1, Dispatched
  <1>7. /\ Touches(r) /\ NotLeaked(r) /\ rt'[r].members = rt[r].members \ {c}
        /\ rt'[r].ops = rt[r].ops
    <2>1. CASE rt' = left /\ left[r].members # {}
      <3>0. /\ rt' \in [Runtimes -> RuntimeType] /\ \A q \in Runtimes \ {r} : rt'[q] = rt[q]
            /\ rt'[r].status = rt[r].status /\ rt'[r].ops = rt[r].ops /\ rt'[r].busy = rt[r].busy
            /\ rt'[r].terminal = rt[r].terminal
        BY <1>4, <2>1
      <3>1. Touches(r)
        BY <1>3, <1>4, <1>5, <1>6, <3>0 DEF Touches
      <3>2. NotLeaked(r)
        BY <2>1 DEF NotLeaked, Unused
      <3> QED
        BY <1>4, <2>1, <3>1, <3>2
    <2>2. CASE rt' = maybeDispose(left, r)
      BY <1>1, <1>3, <1>4, <1>5, <1>6, <2>2, DisposeTouches
    <2> QED
      BY <1>5, <2>1, <2>2
  <1>8. SlotMoves(r)
    BY <1>5, <1>6 DEF SlotMoves, SlotKept, SlotTaken
  <1>9. Counted(r)
    <2>1. \A t \in Slots : \/ slot'[t] = slot[t]
                           \/ slot[t].pc # "operation" /\ slot'[t].pc # "operation"
      BY <1>1, <1>5, <1>6, Types
    <2> QED
      BY <1>7, <2>1 DEF Counted
  <1>10. /\ conn' \in [Conns -> ConnType] /\ \A d \in Conns : conn'[d].stage = conn[d].stage
         /\ conn'[c].has = FALSE /\ \A d \in Conns \ {c} : conn'[d].has = conn[d].has
    BY <1>1, <1>5, Types DEF ConnType
  <1>11. Attached(r) /\ StagesKept
    BY <1>1, <1>2, <1>6, <1>7, <1>10 DEF Attached, StagesKept, AttachInv
  <1> QED
    BY <1>6, <1>7, <1>8, <1>9, <1>11 DEF UseStep

\* disconnect of an attached connection.
LEMMA DisconnectUses ==
    ASSUME IInv, NEW c \in Conns, disconnect(c), conn[c].has, current # 0, reader' = NoConn
    PROVE  \E r \in Runtimes : UseStep(r)
  <1>1. TypeOK /\ AttachInv /\ RuntimesInv
    BY DEF IInv
  <1>2. PICK r \in Runtimes : r = current
    BY <1>1 DEF TypeOK
  <1> DEFINE left == [rt EXCEPT ![r].members = @ \ {c}]
  <1>3. rt[r].status \in {"live", "disposing"}
    BY <1>1, <1>2 DEF RuntimesInv
  <1>4. /\ left \in [Runtimes -> RuntimeType] /\ \A q \in Runtimes \ {r} : left[q] = rt[q]
        /\ left[r].status = rt[r].status /\ left[r].ops = rt[r].ops /\ left[r].busy = rt[r].busy
        /\ left[r].terminal = rt[r].terminal /\ left[r].members = rt[r].members \ {c}
        /\ rt[r].ops \in Nat /\ rt[r].ops <= rt[r].ops
    BY <1>1, Leave
  <1>5. /\ conn' = [conn EXCEPT ![c] = [stage |-> "closed", has |-> FALSE]]
        /\ rt' = maybeDispose(left, r)
        /\ UNCHANGED <<slot, current, opening, srv, awaited, commands, raced>>
    BY <1>2 DEF disconnect
  <1> HIDE DEF left
  <1>6. /\ Touches(r) /\ NotLeaked(r) /\ rt'[r].members = rt[r].members \ {c}
        /\ rt'[r].ops = rt[r].ops
    BY <1>1, <1>3, <1>4, <1>5, DisposeTouches
  <1>7. SlotMoves(r) /\ Counted(r)
    BY <1>5, <1>6 DEF SlotMoves, SlotKept, Counted
  <1>8. /\ conn' \in [Conns -> ConnType] /\ conn'[c].stage = "closed"
        /\ conn'[c].has = FALSE /\ \A d \in Conns \ {c} : conn'[d] = conn[d]
    BY <1>1, <1>5, Types DEF ConnType, Stages
  <1>9. Attached(r) /\ StagesKept
    BY <1>1, <1>2, <1>5, <1>6, <1>8 DEF Attached, StagesKept, AttachInv
  <1>10. commands' \in 0..MaxCommands /\ commands' >= commands /\ reader' \in Conns \cup {NoConn}
    BY <1>1, <1>5 DEF TypeOK
  <1> QED
    BY <1>6, <1>7, <1>9, <1>10 DEF UseStep

\* The runtime's own events: it starts or ends its work, fails, and is let go.
LEMMA RuntimeUses ==
    ASSUME IInv, NEW r \in Runtimes, Runtime(r), reader' = NoConn
    PROVE  UseStep(r)
  <1>1. TypeOK /\ AttachInv /\ RuntimesInv /\ rt[r] \in RuntimeType /\ rt \in [Runtimes -> RuntimeType]
    BY Types DEF IInv
  <1>2. UNCHANGED <<slot, current, opening, srv, awaited, commands, raced>>
    BY DEF Runtime, RuntimeWorks, RuntimeIdles, terminate, terminateDone
  <1>3. rt[r].ops \in Nat /\ rt[r].ops <= rt[r].ops
    BY <1>1 DEF RuntimeType
  <1>4. /\ Touches(r) /\ NotLeaked(r) /\ rt'[r].members = rt[r].members /\ rt'[r].ops = rt[r].ops
    <2>1. CASE RuntimeWorks(r)
      <3>1. /\ rt' \in [Runtimes -> RuntimeType] /\ \A q \in Runtimes \ {r} : rt'[q] = rt[q]
            /\ rt'[r].status = rt[r].status /\ rt'[r].ops = rt[r].ops /\ rt'[r].busy = TRUE
            /\ rt'[r].terminal = rt[r].terminal /\ rt'[r].members = rt[r].members
        BY <1>1, <2>1 DEF RuntimeWorks, RuntimeType
      <3>2. Touches(r)
        BY <1>2, <1>3, <2>1, <3>1 DEF Touches, RuntimeWorks
      <3>3. rt'[r].ops # 0
        BY <1>3, <2>1, <3>1 DEF RuntimeWorks
      <3> QED
        BY <3>1, <3>2, <3>3 DEF NotLeaked, Unused
    <2>2. CASE RuntimeIdles(r)
      <3> DEFINE idle == [rt EXCEPT ![r].busy = FALSE]
      <3>1. /\ idle \in [Runtimes -> RuntimeType] /\ \A q \in Runtimes \ {r} : idle[q] = rt[q]
            /\ idle[r].status = rt[r].status /\ idle[r].ops = rt[r].ops /\ idle[r].busy = FALSE
            /\ idle[r].terminal = rt[r].terminal /\ idle[r].members = rt[r].members
        BY <1>1 DEF RuntimeType
      <3>2. rt' = IF rt[r].status = "live" /\ rt[r].terminal = "no" THEN maybeDispose(idle, r) ELSE idle
        BY <2>2 DEF RuntimeIdles
      <3> HIDE DEF idle
      <3>3. rt[r].status \in {"live", "disposing", "gone"}
        BY <1>1, <2>2 DEF RuntimesInv, RuntimeIdles
      <3>4. CASE rt[r].status = "live" /\ rt[r].terminal = "no"
        BY <1>1, <1>2, <1>3, <3>1, <3>2, <3>3, <3>4, DisposeTouches
      <3>5. CASE ~ (rt[r].status = "live" /\ rt[r].terminal = "no")
        <4>1. rt' = idle
          BY <3>2, <3>5
        <4>2. Touches(r)
          BY <1>2, <1>3, <3>1, <3>3, <4>1 DEF Touches
        <4>3. Unused(rt, r)' => rt[r].status = "live" /\ Unused(rt, r)
          BY <1>2, <3>1, <3>5, <4>1 DEF Unused, closing
        <4>4. \A s \in Slots : slot'[s] = slot[s]
          BY <1>2
        <4> QED
          BY <3>1, <4>1, <4>2, <4>3, <4>4 DEF NotLeaked
      <3> QED
        BY <3>4, <3>5
    <2>3. CASE terminate(r)
      <3>1. /\ rt' \in [Runtimes -> RuntimeType] /\ \A q \in Runtimes \ {r} : rt'[q] = rt[q]
            /\ rt'[r].status = rt[r].status /\ rt'[r].ops = rt[r].ops /\ rt'[r].busy = rt[r].busy
            /\ rt'[r].terminal = "closing" /\ rt'[r].members = rt[r].members
        BY <1>1, <2>3 DEF terminate, RuntimeType
      <3>2. Touches(r)
        BY <1>2, <1>3, <2>3, <3>1 DEF Touches, terminate
      <3> QED
        BY <3>1, <3>2 DEF NotLeaked
    <2>4. CASE terminateDone(r)
      <3> DEFINE done == [rt EXCEPT ![r].terminal = "done", ![r].doomed = {}]
      <3>1. /\ done \in [Runtimes -> RuntimeType] /\ \A q \in Runtimes \ {r} : done[q] = rt[q]
            /\ done[r].status = rt[r].status /\ done[r].ops = rt[r].ops /\ done[r].busy = rt[r].busy
            /\ done[r].terminal = "done" /\ done[r].members = rt[r].members
        BY <1>1 DEF RuntimeType
      <3>2. rt' = maybeDispose(done, r)
        BY <2>4 DEF terminateDone
      <3> HIDE DEF done
      <3>3. rt[r].status \in {"live", "disposing", "gone"}
        BY <1>1, <2>4 DEF RuntimesInv, terminateDone
      <3> QED
        BY <1>1, <1>2, <1>3, <3>1, <3>2, <3>3, DisposeTouches
    <2> QED
      BY <2>1, <2>2, <2>3, <2>4 DEF Runtime
  <1>5. StagesKept /\ \A c \in Conns : conn'[c].has = conn[c].has
    <2>1. CASE UNCHANGED conn
      BY <1>1, <2>1, ConnSame
    <2>2. CASE terminate(r)
      <3>1. /\ conn' \in [Conns -> ConnType]
            /\ \A c \in Conns : /\ conn'[c].has = conn[c].has
                                /\ \/ conn'[c].stage = conn[c].stage
                                   \/ conn'[c].stage = "closing" /\ conn[c].stage # "closed" /\ c \in rt[r].members
        BY <1>1, <2>2, Types DEF terminate, ConnType, Stages
      <3> QED
        BY <1>1, <3>1 DEF StagesKept, AttachInv
    <2> QED
      BY <2>1, <2>2 DEF Runtime, RuntimeWorks, RuntimeIdles, terminateDone
  <1>6. SlotMoves(r) /\ Counted(r) /\ Attached(r)
    BY <1>2, <1>4, <1>5 DEF SlotMoves, SlotKept, Counted, Attached
  <1>7. commands' \in 0..MaxCommands /\ commands' >= commands /\ reader' \in Conns \cup {NoConn}
    BY <1>1, <1>2 DEF TypeOK
  <1> QED
    BY <1>4, <1>5, <1>6, <1>7 DEF UseStep

-----------------------------------------------------------------------------
(* Steps that leave the runtimes alone *)

\* A connection comes or goes without being attached, or a command fails: it
\* waited for a disposal or an opening that is over.
PlainStep ==
    /\ UNCHANGED <<rt, current, opening, srv, awaited, raced>>
    /\ StagesKept
    /\ \A c \in Conns : conn'[c].has => conn[c].has
    /\ current = 0 \/ \A c \in Conns : conn'[c].has = conn[c].has
    /\ \/ SlotKept
       \/ \E s \in Slots : /\ slot[s].pc \in {"disposing", "opening"}
                           /\ rt[slot[s].rt].status \in {"gone", "failed"}
                           /\ slot' = [slot EXCEPT ![s] = Free]
    /\ commands' \in 0..MaxCommands /\ commands' >= commands /\ reader' \in Conns \cup {NoConn}

\* A step that leaves the runtimes alone keeps the invariant.
LEMMA PlainStepKeeps == ASSUME IInv, PlainStep PROVE IInv'
  <1>1. /\ TypeOK /\ RuntimesInv /\ CloseInv /\ WaitInv /\ CountInv /\ AttachInv
        /\ WorkIsKept /\ NoLeakedRuntime /\ AttachmentsAgree
    BY DEF IInv
  <1>2. UNCHANGED <<rt, current, opening, srv, awaited, raced>>
    BY DEF PlainStep
  <1>3. Free \in SlotType /\ Free.pc = "free"
    BY DEF Free, SlotType, Awaits
  <1>4. \A s \in Slots : \/ slot'[s] = slot[s]
                         \/ /\ slot'[s].pc = "free" /\ slot[s].pc \in {"disposing", "opening"}
                            /\ rt[slot[s].rt].status \in {"gone", "failed"}
    BY <1>1, <1>3, Types DEF PlainStep, SlotKept
  <1>5. slot' \in [Slots -> SlotType]
    BY <1>1, <1>3, Types DEF PlainStep, SlotKept
  <1>6. TypeOK'
    BY <1>1, <1>2, <1>5 DEF PlainStep, StagesKept, TypeOK, SlotType, ConnType
  <1>7. RuntimesInv' /\ CloseInv'
    <2>1. \A s \in Slots : slot'[s].pc = "disposing" => slot'[s] = slot[s]
      BY <1>4
    <2>2. \A c \in Conns : closing /\ conn[c].stage \in {"new", "closed"} =>
                             conn'[c].stage \in {"new", "closed"}
      BY DEF PlainStep, StagesKept
    <2>3. CloseInv'
      BY <1>1, <1>2, <2>1, <2>2 DEF CloseInv, closing
    <2>4. RuntimesInv'
      BY <1>1, <1>2 DEF RuntimesInv, Held
    <2> QED
      BY <2>3, <2>4
  <1>8. WaitInv'
    <2>1. \A r \in Runtimes : rt[r].status \in {"opening", "checking"} =>
            \E s \in Slots : slot'[s].pc = "opening" /\ slot'[s].rt = r
      BY <1>1, <1>4 DEF WaitInv
    <2> QED
      BY <1>1, <1>2, <1>4, <2>1 DEF WaitInv
  <1>9. CountInv'
    <2>1. \A r \in Runtimes : Operations(r)' = Operations(r)
      BY <1>4 DEF Operations
    <2>2. IsFiniteSet(Waiting') /\ Cardinality(Waiting') <= Cardinality(Waiting)
          /\ Cardinality(Waiting) \in Nat /\ Cardinality(Waiting') \in Nat
      <3>1. Waiting' \subseteq Waiting
        BY <1>4 DEF Waiting
      <3> QED
        BY <1>1, <3>1, FS_Subset, FS_CardinalityType DEF CountInv
    <2>3. PICK k \in Nat : /\ \A r \in Runtimes : rt[r].status # "none" <=> r <= k
                           /\ k + Cardinality(Waiting) <= commands
      BY <1>1 DEF CountInv
    <2>4. k + Cardinality(Waiting') <= commands'
      <3>1. commands \in Nat /\ commands' \in Nat /\ commands' >= commands
        BY <1>1, <1>6, BoundsAssumption DEF PlainStep, TypeOK
      <3> QED
        BY <2>2, <2>3, <3>1
    <2> QED
      BY <1>1, <1>2, <2>1, <2>2, <2>3, <2>4 DEF CountInv
  <1>10. AttachInv'
    BY <1>1, <1>2, Types DEF PlainStep, StagesKept, AttachInv, RuntimeType
  <1>11. AttachmentsAgree'
    BY <1>1, <1>2 DEF PlainStep, AttachmentsAgree
  <1>12. WorkIsKept'
    BY <1>1, <1>2 DEF WorkIsKept, closing
  <1>13. NoLeakedRuntime'
    <2> SUFFICES ASSUME NEW r \in Runtimes, Unused(rt, r)'
                 PROVE  \/ \E s \in Slots : Resumes(s)' /\ slot'[s].rt = r
                        \/ rt'[r].terminal = "closing"
      BY DEF NoLeakedRuntime
    <2>1. Unused(rt, r) /\ rt[r].status = "live"
      BY <1>2 DEF Unused, closing
    <2>2. ASSUME NEW s \in Slots, Resumes(s), slot[s].rt = r
          PROVE  Resumes(s)' /\ slot'[s].rt = r
      <3>1. slot'[s] = slot[s]
        BY <1>4, <2>1, <2>2
      <3> QED
        BY <1>2, <2>2, <3>1 DEF Resumes
    <2> QED
      BY <1>1, <1>2, <2>1, <2>2 DEF NoLeakedRuntime
  <1> QED
    BY <1>6, <1>7, <1>8, <1>9, <1>10, <1>11, <1>12, <1>13 DEF IInv

\* The connections' own steps.
LEMMA StagePlain ==
    ASSUME IInv, NEW c \in Conns, reader' = NoConn,
           \/ accept(c) \/ hello(c) \/ finishHandshake(c) \/ failProtocol(c)
           \/ disconnect(c) /\ ~ (conn[c].has /\ current # 0)
    PROVE  PlainStep
  <1>1. TypeOK /\ AttachInv /\ conn \in [Conns -> ConnType] /\ conn[c] \in ConnType
    BY Types DEF IInv
  <1>2. UNCHANGED <<rt, slot, current, opening, srv, awaited, commands, raced>>
    BY DEF accept, hello, finishHandshake, failProtocol, Stage, disconnect
  <1>3. /\ commands' \in 0..MaxCommands /\ commands' >= commands /\ reader' \in Conns \cup {NoConn}
        /\ SlotKept
    BY <1>1, <1>2 DEF TypeOK, SlotKept
  <1>4. CASE accept(c) \/ hello(c) \/ finishHandshake(c) \/ failProtocol(c)
    <2>1. PICK to \in Stages : /\ conn' = [conn EXCEPT ![c].stage = to]
                               /\ to \notin {"new", "closed"} /\ conn[c].stage # "closed"
                               /\ conn[c].stage = "new" => ~ closing
                               /\ conn[c].stage = "ready" => to = "closing"
                               /\ conn[c].stage # "closing"
      BY <1>4 DEF accept, hello, finishHandshake, failProtocol, Stage, Stages
    <2>2. /\ conn' \in [Conns -> ConnType] /\ conn'[c].stage = to
          /\ \A d \in Conns \ {c} : conn'[d] = conn[d]
          /\ \A d \in Conns : conn'[d].has = conn[d].has
      BY <1>1, <2>1 DEF ConnType
    <2>3. StagesKept
      BY <1>1, <2>1, <2>2 DEF StagesKept, AttachInv
    <2> QED
      BY <1>2, <1>3, <2>2, <2>3 DEF PlainStep
  <1>5. CASE disconnect(c) /\ ~ (conn[c].has /\ current # 0)
    <2>1. /\ conn' = [conn EXCEPT ![c] = [stage |-> "closed", has |-> FALSE]]
          /\ conn[c].stage # "new"
      BY <1>5 DEF disconnect
    <2>2. /\ conn' \in [Conns -> ConnType] /\ conn'[c].stage = "closed" /\ conn'[c].has = FALSE
          /\ \A d \in Conns \ {c} : conn'[d] = conn[d]
      BY <1>1, <2>1 DEF ConnType, Stages
    <2>3. StagesKept
      BY <1>1, <2>2 DEF StagesKept, AttachInv
    <2>4. conn[c].has \in BOOLEAN
      BY <1>1 DEF ConnType
    <2>5. UNCHANGED rt
      BY <1>5 DEF disconnect
    <2> QED
      BY <1>2, <1>3, <1>5, <2>2, <2>3, <2>4, <2>5 DEF PlainStep
  <1> QED
    BY <1>4, <1>5

\* A detach that finds no session.
LEMMA DetachPlain ==
    ASSUME IInv, NEW s \in Slots, NEW c \in Conns, DetachCommand(s, c), current = 0
    PROVE  PlainStep
  <1>1. TypeOK /\ AttachInv /\ conn \in [Conns -> ConnType] /\ conn[c] \in ConnType
    BY Types DEF IInv
  <1>2. /\ conn' = [conn EXCEPT ![c].has = FALSE]
        /\ UNCHANGED <<rt, slot, opening>>
    BY DEF DetachCommand
  <1>3. /\ UNCHANGED <<current, srv, awaited, raced>>
        /\ commands' \in 0..MaxCommands /\ commands' >= commands /\ reader' \in Conns \cup {NoConn}
    BY <1>1, Dispatched DEF DetachCommand
  <1>4. /\ conn' \in [Conns -> ConnType] /\ conn'[c].stage = conn[c].stage /\ conn'[c].has = FALSE
        /\ \A d \in Conns \ {c} : conn'[d] = conn[d]
    BY <1>1, <1>2 DEF ConnType
  <1>5. StagesKept
    BY <1>1, <1>4 DEF StagesKept, AttachInv
  <1> QED
    BY <1>2, <1>3, <1>4, <1>5 DEF PlainStep, SlotKept

-----------------------------------------------------------------------------
(* The steps of close() that only wait *)

\* close(), and its waiting for the connections, the openings and the disposal.
LEMMA CloseKeeps ==
    ASSUME IInv, reader' = NoConn,
           close \/ closeConnections \/ awaitOpenings \/ closed
    PROVE  IInv'
  <1>1. /\ TypeOK /\ RuntimesInv /\ CloseInv /\ WaitInv /\ CountInv /\ AttachInv
        /\ AttachmentsAgree
    BY DEF IInv
  <1>2. UNCHANGED <<rt, slot, current, opening, commands, raced>>
    BY DEF close, closeConnections, awaitOpenings, closed
  <1>3. /\ conn' \in [Conns -> ConnType]
        /\ \A c \in Conns : /\ conn'[c].has = conn[c].has
                            /\ \/ conn'[c].stage = conn[c].stage
                               \/ conn'[c].stage = "closing" /\ conn[c].stage \notin {"new", "closed"}
        /\ srv # "listeners" => conn' = conn
    BY <1>1, Types DEF close, closeConnections, awaitOpenings, closed, ConnType, Stages
  <1>4. /\ srv' \in {"listeners", "connections", "openings", "closed"}
        /\ awaited' \in {0} \cup Runtimes
    BY <1>1 DEF close, closeConnections, awaitOpenings, closed, TypeOK
  <1>5. TypeOK'
    BY <1>1, <1>2, <1>3, <1>4 DEF TypeOK, ConnType
  <1>6. RuntimesInv'
    <2>1. \A r \in Runtimes : rt[r].status \in {"live", "disposing"} => current = r
      BY <1>1 DEF RuntimesInv, close, closeConnections, awaitOpenings, closed, Runtimes
    <2> QED
      BY <1>1, <1>2, <2>1 DEF RuntimesInv, Held
  <1>7. CloseInv'
    <2>1. CASE close \/ closeConnections
      BY <2>1 DEF close, closeConnections, CloseInv
    <2>2. CASE awaitOpenings
      BY <1>1, <1>2, <2>2 DEF awaitOpenings, CloseInv, RuntimesInv
    <2>3. CASE closed
      BY <1>1, <1>2, <2>3 DEF closed, CloseInv
    <2> QED
      BY <2>1, <2>2, <2>3
  <1>8. WaitInv' /\ CountInv'
    BY <1>1, <1>2 DEF WaitInv, CountInv, Waiting, Operations
  <1>9. AttachInv' /\ AttachmentsAgree'
    <2>1. AttachInv'
      BY <1>1, <1>2, <1>3, Types DEF AttachInv, RuntimeType
    <2>2. AttachmentsAgree'
      BY <1>1, <1>2, <1>3 DEF AttachmentsAgree
    <2> QED
      BY <2>1, <2>2
  <1>10. WorkIsKept' /\ NoLeakedRuntime'
    BY <1>4 DEF WorkIsKept, NoLeakedRuntime, Unused, closing
  <1> QED
    BY <1>5, <1>6, <1>7, <1>8, <1>9, <1>10 DEF IInv

-----------------------------------------------------------------------------
(* The life of a runtime *)

\* Only the status of one runtime changes.
StatusStep(r, from, to) ==
    /\ rt[r].status = from
    /\ rt' = [rt EXCEPT ![r].status = to]

\* What that leaves as it was.
LEMMA StatusEffect ==
    ASSUME TypeOK, NEW r \in Runtimes, NEW from, NEW to \in Statuses, StatusStep(r, from, to)
    PROVE  /\ rt' \in [Runtimes -> RuntimeType]
           /\ \A q \in Runtimes \ {r} : rt'[q] = rt[q]
           /\ rt[r].status = from /\ rt'[r].status = to
           /\ \A q \in Runtimes : /\ rt'[q].members = rt[q].members /\ rt'[q].ops = rt[q].ops
                                  /\ rt'[q].busy = rt[q].busy /\ rt'[q].terminal = rt[q].terminal
  BY Types DEF StatusStep, RuntimeType

\* An opening comes to its end, or to the check of its first snapshot.
LEMMA OpeningKeeps ==
    ASSUME IInv, NEW r \in Runtimes, NEW from \in {"opening", "checking", "discarding"},
           NEW to \in {"checking", "discarding", "failed"}, StatusStep(r, from, to),
           to = "checking" => from = "opening" /\ ~ closing,
           opening' = IF to = "failed" THEN 0 ELSE opening,
           UNCHANGED <<conn, slot, current, srv, awaited, commands, raced>>, reader' = NoConn
    PROVE  IInv'
  <1>1. /\ TypeOK /\ RuntimesInv /\ CloseInv /\ WaitInv /\ CountInv /\ AttachInv
        /\ WorkIsKept /\ NoLeakedRuntime /\ AttachmentsAgree
    BY DEF IInv
  <1>2. /\ rt' \in [Runtimes -> RuntimeType]
        /\ \A q \in Runtimes \ {r} : rt'[q] = rt[q]
        /\ rt[r].status = from /\ rt'[r].status = to
        /\ \A q \in Runtimes : /\ rt'[q].members = rt[q].members /\ rt'[q].ops = rt[q].ops
                               /\ rt'[q].busy = rt[q].busy /\ rt'[q].terminal = rt[q].terminal
    <2>1. to \in Statuses
      BY DEF Statuses
    <2> QED
      BY <1>1, <2>1, StatusEffect
  <1>3. opening = r /\ r # 0
    BY <1>1, <1>2 DEF RuntimesInv, Runtimes
  <1>4. TypeOK'
    BY <1>1, <1>2 DEF TypeOK, RuntimeType
  <1>5. Held' \subseteq Held /\ current # r
    BY <1>1, <1>2 DEF Held, RuntimesInv, TypeOK, Runtimes
  <1>6. RuntimesInv'
    <2>1. \A q \in Runtimes \ {r} : rt[q].status \notin {"opening", "checking", "discarding"}
      BY <1>1, <1>3 DEF RuntimesInv
    <2>2. \A q \in Runtimes : rt'[q].status \in {"opening", "checking", "discarding"} <=> opening' = q
      BY <1>2, <1>3, <2>1 DEF Runtimes
    <2>3. \A q \in Runtimes : rt'[q].status \in {"live", "disposing"} =>
             \/ current' = q
             \/ srv' = "disposing" /\ awaited' = q /\ rt'[q].status = "disposing"
      BY <1>1, <1>2 DEF RuntimesInv
    <2>4. \A q \in Runtimes : rt'[q].status \notin {"live", "disposing", "gone"} =>
             /\ rt'[q].members = {} /\ rt'[q].ops = 0
             /\ rt'[q].busy = FALSE /\ rt'[q].terminal = "no"
      BY <1>1, <1>2 DEF RuntimesInv
    <2>5. current' # 0 => rt'[current'].status \in {"live", "disposing"}
      BY <1>1, <1>2, <1>5 DEF RuntimesInv, TypeOK
    <2>6. \A q, p \in Held' : q = p
      BY <1>1, <1>5 DEF RuntimesInv
    <2> QED
      BY <2>2, <2>3, <2>4, <2>5, <2>6 DEF RuntimesInv
  <1>7. CloseInv'
    BY <1>1, <1>2 DEF CloseInv, closing
  <1>8. WaitInv'
    BY <1>1, <1>2, <1>5 DEF WaitInv
  <1>9. CountInv'
    <2>1. \A q \in Runtimes : rt'[q].status # "none" <=> rt[q].status # "none"
      BY <1>2
    <2>2. Waiting' = Waiting /\ \A q \in Runtimes : Operations(q)' = Operations(q)
      BY DEF Waiting, Operations
    <2> QED
      BY <1>1, <1>2, <2>1, <2>2 DEF CountInv
  <1>10. AttachInv' /\ AttachmentsAgree'
    BY <1>1, <1>2 DEF AttachInv, AttachmentsAgree, TypeOK
  <1>11. WorkIsKept'
    BY <1>1, <1>2 DEF WorkIsKept, closing, RuntimesInv
  <1>12. NoLeakedRuntime'
    <2> SUFFICES ASSUME NEW q \in Runtimes, Unused(rt, q)'
                 PROVE  \/ \E s \in Slots : Resumes(s)' /\ slot'[s].rt = q
                        \/ rt'[q].terminal = "closing"
      BY DEF NoLeakedRuntime
    <2>1. q # r
      BY <1>2 DEF Unused
    <2>2. rt'[q] = rt[q] /\ Unused(rt, q)
      BY <1>2, <2>1 DEF Unused, closing
    <2>3. ASSUME NEW s \in Slots, Resumes(s), slot[s].rt = q PROVE Resumes(s)' /\ slot'[s].rt = q
      BY <2>2, <2>3 DEF Resumes
    <2> QED
      BY <1>1, <2>2, <2>3 DEF NoLeakedRuntime
  <1> QED
    BY <1>4, <1>6, <1>7, <1>8, <1>9, <1>10, <1>11, <1>12 DEF IInv

\* Nothing waits for the session's runtime while no promise is settled.
LEMMA NotPending ==
    ASSUME IInv, ~ Pending, NEW s \in Slots
    PROVE  /\ slot[s].pc # "attach"
           /\ slot[s].pc = "opening" =>
                rt[slot[s].rt].status \in {"opening", "checking", "discarding"}
           /\ slot[s].pc = "disposing" => rt[slot[s].rt].status = "disposing"
  <1>1. ~ Resumes(s)
    BY DEF Pending
  <1>2. WaitInv /\ RuntimesInv
    BY DEF IInv
  <1>3. slot[s].pc = "opening" /\ current = slot[s].rt => rt[slot[s].rt].status \in {"live", "disposing"}
    BY <1>2 DEF WaitInv, RuntimesInv, Runtimes
  <1> QED
    BY <1>1, <1>2, <1>3 DEF WaitInv, Resumes

\* The first snapshot arrives: the session has a live runtime.
LEMMA LiveKeeps ==
    ASSUME IInv, ~ Pending, NEW r \in Runtimes, StatusStep(r, "checking", "live"),
           current' = r, opening' = 0,
           UNCHANGED <<conn, slot, srv, awaited, commands, raced>>, reader' = NoConn
    PROVE  IInv'
  <1>1. /\ TypeOK /\ RuntimesInv /\ CloseInv /\ WaitInv /\ CountInv /\ AttachInv
        /\ WorkIsKept /\ NoLeakedRuntime /\ AttachmentsAgree
    BY DEF IInv
  <1>2. /\ rt' \in [Runtimes -> RuntimeType]
        /\ \A q \in Runtimes \ {r} : rt'[q] = rt[q]
        /\ rt[r].status = "checking" /\ rt'[r].status = "live"
        /\ \A q \in Runtimes : /\ rt'[q].members = rt[q].members /\ rt'[q].ops = rt[q].ops
                               /\ rt'[q].busy = rt[q].busy /\ rt'[q].terminal = rt[q].terminal
    <2>1. "live" \in Statuses
      BY DEF Statuses
    <2> QED
      BY <1>1, <2>1, StatusEffect
  <1>3. /\ \A q \in Runtimes \ {r} : rt[q].status \in {"none", "failed", "gone"}
        /\ opening = r /\ r # 0 /\ current = 0 /\ srv \notin {"disposing", "closed"}
    <2>1. r \in Held
      BY <1>2 DEF Held
    <2>2. \A q \in Runtimes \ {r} : q \notin Held
      BY <1>1, <2>1 DEF RuntimesInv
    <2>3. current = 0
      <3>1. current # 0 => current \in Held /\ current # r
        BY <1>1, <1>2 DEF RuntimesInv, Held, TypeOK
      <3> QED
        BY <1>1, <2>2, <3>1 DEF TypeOK
    <2> QED
      BY <1>1, <1>2, <2>2, <2>3, Types DEF RuntimesInv, Held, Runtimes, CloseInv, RuntimeType, Statuses
  <1>4. TypeOK'
    BY <1>1, <1>2 DEF TypeOK, RuntimeType
  <1>5. Held' = {r}
    BY <1>2, <1>3 DEF Held
  <1>6. RuntimesInv'
    <2>1. \A q \in Runtimes : rt'[q].status \notin {"opening", "checking", "discarding"} /\ opening' # q
      BY <1>2, <1>3 DEF Runtimes
    <2>2. \A q \in Runtimes : rt'[q].status \in {"live", "disposing"} => current' = q
      BY <1>2, <1>3
    <2>3. \A q \in Runtimes : rt'[q].status \notin {"live", "disposing", "gone"} =>
             /\ rt'[q].members = {} /\ rt'[q].ops = 0
             /\ rt'[q].busy = FALSE /\ rt'[q].terminal = "no"
      BY <1>1, <1>2 DEF RuntimesInv
    <2>4. rt'[current'].status \in {"live", "disposing"} /\ \A q, p \in Held' : q = p
      BY <1>2, <1>5
    <2> QED
      BY <2>1, <2>2, <2>3, <2>4 DEF RuntimesInv
  <1>7. CloseInv'
    BY <1>1, <1>2, <1>3 DEF CloseInv
  <1>8. WaitInv'
    <2>1. \A q \in Runtimes : rt'[q].status \notin {"opening", "checking"}
      BY <1>2, <1>3
    <2>2. ASSUME NEW s \in Slots
          PROVE  /\ slot[s].pc = "opening" => slot[s].rt = r
                 /\ slot[s].pc # "attach" /\ slot[s].pc # "disposing"
      BY <1>1, <1>2, <1>3, NotPending DEF WaitInv
    <2> QED
      BY <1>1, <1>2, <1>3, <2>1, <2>2 DEF WaitInv
  <1>9. CountInv'
    <2>1. \A q \in Runtimes : rt'[q].status # "none" <=> rt[q].status # "none"
      BY <1>2
    <2>2. Waiting' = Waiting /\ \A q \in Runtimes : Operations(q)' = Operations(q)
      BY DEF Waiting, Operations
    <2> QED
      BY <1>1, <1>2, <2>1, <2>2 DEF CountInv
  <1>10. AttachInv' /\ AttachmentsAgree'
    <2>1. rt'[r].members = {}
      BY <1>1, <1>2 DEF RuntimesInv
    <2> QED
      BY <1>1, <1>2, <1>3, <2>1 DEF AttachInv, AttachmentsAgree, TypeOK
  <1>11. WorkIsKept'
    BY <1>1, <1>2 DEF WorkIsKept, closing
  <1>12. NoLeakedRuntime'
    <2> SUFFICES ASSUME NEW q \in Runtimes, Unused(rt, q)'
                 PROVE  \E s \in Slots : Resumes(s)' /\ slot'[s].rt = q
      BY DEF NoLeakedRuntime
    <2>1. q = r
      BY <1>2, <1>3 DEF Unused
    <2>2. PICK s \in Slots : slot[s].pc = "opening" /\ slot[s].rt = r
      BY <1>1, <1>2 DEF WaitInv
    <2> QED
      BY <1>2, <2>1, <2>2 DEF Resumes
  <1> QED
    BY <1>4, <1>6, <1>7, <1>8, <1>9, <1>10, <1>11, <1>12 DEF IInv

\* The disposal of the session's runtime is over.
LEMMA GoneKeeps ==
    ASSUME IInv, ~ Pending, NEW r \in Runtimes, StatusStep(r, "disposing", "gone"),
           current' = IF current = r THEN 0 ELSE current,
           UNCHANGED <<conn, slot, opening, srv, awaited, commands, raced>>, reader' = NoConn
    PROVE  IInv'
  <1>1. /\ TypeOK /\ RuntimesInv /\ CloseInv /\ WaitInv /\ CountInv /\ AttachInv
        /\ WorkIsKept /\ NoLeakedRuntime /\ AttachmentsAgree
    BY DEF IInv
  <1>2. /\ rt' \in [Runtimes -> RuntimeType]
        /\ \A q \in Runtimes \ {r} : rt'[q] = rt[q]
        /\ rt[r].status = "disposing" /\ rt'[r].status = "gone"
        /\ \A q \in Runtimes : /\ rt'[q].members = rt[q].members /\ rt'[q].ops = rt[q].ops
                               /\ rt'[q].busy = rt[q].busy /\ rt'[q].terminal = rt[q].terminal
    <2>1. "gone" \in Statuses
      BY DEF Statuses
    <2> QED
      BY <1>1, <2>1, StatusEffect
  <1>3. /\ \A q \in Runtimes \ {r} : rt[q].status \in {"none", "failed", "gone"}
        /\ opening = 0 /\ r # 0 /\ current' = 0
    <2>1. \A q \in Runtimes \ {r} : q \notin Held
      BY <1>1, <1>2 DEF RuntimesInv, Held
    <2>2. \A q \in Runtimes \ {r} : rt[q].status \in {"none", "failed", "gone"}
      BY <2>1 DEF Held
    <2>3. opening = 0
      BY <1>1, <1>2, <2>2 DEF RuntimesInv, TypeOK
    <2>4. current = r \/ current = 0
      BY <1>1, <1>2 DEF RuntimesInv, CloseInv
    <2> QED
      BY <2>2, <2>3, <2>4 DEF Runtimes
  <1>4. TypeOK'
    BY <1>1, <1>2, <1>3 DEF TypeOK, RuntimeType
  <1>5. Held' = {}
    BY <1>2, <1>3 DEF Held
  <1>6. RuntimesInv'
    <2>1. \A q \in Runtimes : /\ rt'[q].status \in {"none", "failed", "gone"}
                              /\ opening' # q
      BY <1>2, <1>3 DEF Runtimes
    <2>2. \A q \in Runtimes : rt'[q].status \notin {"live", "disposing", "gone"} =>
             /\ rt'[q].members = {} /\ rt'[q].ops = 0
             /\ rt'[q].busy = FALSE /\ rt'[q].terminal = "no"
      BY <1>1, <1>2 DEF RuntimesInv
    <2> QED
      BY <1>3, <1>5, <2>1, <2>2 DEF RuntimesInv
  <1>7. CloseInv'
    BY <1>1, <1>2, <1>3 DEF CloseInv
  <1>8. WaitInv'
    <2>1. \A q \in Runtimes : rt'[q].status \notin {"opening", "checking"}
      BY <1>2, <1>3
    <2>2. ASSUME NEW s \in Slots
          PROVE  slot[s].pc # "opening" /\ slot[s].pc # "attach"
      BY <1>1, <1>2, <1>3, NotPending DEF WaitInv
    <2>3. ASSUME NEW s \in Slots
          PROVE  /\ slot[s].pc = "disposing" => rt'[slot[s].rt].status \in {"disposing", "gone"}
                 /\ slot[s].pc \in {"detach", "operation"} =>
                      rt'[slot[s].rt].status \in {"live", "disposing", "gone"}
      BY <1>1, <1>2 DEF WaitInv
    <2> QED
      BY <1>1, <2>1, <2>2, <2>3 DEF WaitInv
  <1>9. CountInv'
    <2>1. \A q \in Runtimes : rt'[q].status # "none" <=> rt[q].status # "none"
      BY <1>2
    <2>2. Waiting' = Waiting /\ \A q \in Runtimes : Operations(q)' = Operations(q)
      BY DEF Waiting, Operations
    <2> QED
      BY <1>1, <1>2, <2>1, <2>2 DEF CountInv
  <1>10. AttachInv' /\ AttachmentsAgree'
    <2>1. ~ raced => \A c \in Conns : ~ conn[c].has
      BY <1>1, <1>2, <1>3, Types DEF AttachInv, AttachmentsAgree, ConnType
    <2> QED
      BY <1>1, <1>2, <1>3, <2>1 DEF AttachInv, AttachmentsAgree
  <1>11. WorkIsKept'
    BY <1>1, <1>2 DEF WorkIsKept, closing
  <1>12. NoLeakedRuntime'
    BY <1>2, <1>3 DEF NoLeakedRuntime, Unused
  <1> QED
    BY <1>4, <1>6, <1>7, <1>8, <1>9, <1>10, <1>11, <1>12 DEF IInv

\* close() starts the disposal of the session's runtime, whoever uses it.
LEMMA DisposeLiveKeeps ==
    ASSUME IInv, ~ Pending, disposeLive, reader' = NoConn
    PROVE  IInv'
  <1>1. /\ TypeOK /\ RuntimesInv /\ CloseInv /\ WaitInv /\ CountInv /\ AttachInv
        /\ AttachmentsAgree
    BY DEF IInv
  <1>2. /\ srv = "openings" /\ srv' = "disposing" /\ awaited' = current /\ current' = 0
        /\ awaited # 0 => rt[awaited].status \notin {"opening", "checking", "discarding"}
        /\ UNCHANGED <<conn, slot, opening, commands, raced>>
    BY DEF disposeLive
  <1>3. /\ rt' \in [Runtimes -> RuntimeType]
        /\ \A q \in Runtimes : /\ rt'[q].members = rt[q].members /\ rt'[q].ops = rt[q].ops
                               /\ rt'[q].busy = rt[q].busy /\ rt'[q].terminal = rt[q].terminal
                               /\ rt'[q].status = IF rt[q].status = "live" /\ current = q
                                                  THEN "disposing" ELSE rt[q].status
    <2>1. CASE current # 0 /\ rt[current].status = "live"
      <3>1. PICK r \in Runtimes : r = current
        BY <1>1, <2>1 DEF TypeOK
      <3>2. StatusStep(r, "live", "disposing") /\ "disposing" \in Statuses
        BY <2>1, <3>1 DEF disposeLive, StatusStep, Statuses
      <3>3. /\ rt' \in [Runtimes -> RuntimeType]
            /\ \A q \in Runtimes \ {r} : rt'[q] = rt[q]
            /\ rt[r].status = "live" /\ rt'[r].status = "disposing"
            /\ \A q \in Runtimes : /\ rt'[q].members = rt[q].members /\ rt'[q].ops = rt[q].ops
                                   /\ rt'[q].busy = rt[q].busy /\ rt'[q].terminal = rt[q].terminal
        BY <1>1, <3>2, StatusEffect
      <3> QED
        BY <3>1, <3>3
    <2>2. CASE ~ (current # 0 /\ rt[current].status = "live")
      <3>1. rt' = rt
        BY <2>2 DEF disposeLive
      <3> QED
        BY <1>1, <2>2, <3>1, Types DEF Runtimes
    <2> QED
      BY <2>1, <2>2
  <1>4. TypeOK'
    BY <1>1, <1>2, <1>3 DEF TypeOK, RuntimeType
  <1>5. \A q \in Runtimes : rt[q].status \in {"live", "disposing"} => current = q
    BY <1>1, <1>2 DEF RuntimesInv
  <1>6. RuntimesInv'
    <2>1. Held' = Held
      BY <1>3 DEF Held
    <2>2. \A q \in Runtimes : rt'[q].status \in {"opening", "checking", "discarding"} <=> opening' = q
      BY <1>1, <1>2, <1>3 DEF RuntimesInv
    <2>3. \A q \in Runtimes : rt'[q].status \in {"live", "disposing"} =>
             srv' = "disposing" /\ awaited' = q /\ rt'[q].status = "disposing"
      BY <1>2, <1>3, <1>5
    <2>4. \A q \in Runtimes : rt'[q].status \notin {"live", "disposing", "gone"} =>
             /\ rt'[q].members = {} /\ rt'[q].ops = 0
             /\ rt'[q].busy = FALSE /\ rt'[q].terminal = "no"
      BY <1>1, <1>3 DEF RuntimesInv
    <2>5. \A q, p \in Held' : q = p
      BY <1>1, <2>1 DEF RuntimesInv
    <2> QED
      BY <1>2, <2>2, <2>3, <2>4, <2>5 DEF RuntimesInv
  <1>7. CloseInv'
    <2>1. \A q \in Runtimes : rt'[q].status # "checking"
      BY <1>1, <1>2, <1>3 DEF CloseInv, Runtimes
    <2>2. \A s \in Slots : slot[s].pc = "disposing" => slot[s].rt = current
      BY <1>1, <1>5, NotPending DEF WaitInv
    <2> QED
      BY <1>1, <1>2, <2>1, <2>2 DEF CloseInv
  <1>8. WaitInv'
    <2>1. ASSUME NEW s \in Slots
          PROVE  /\ slot[s].pc # "attach"
                 /\ slot[s].pc = "opening" =>
                      rt'[slot[s].rt].status \in {"opening", "checking", "discarding", "failed"}
                 /\ slot[s].pc = "disposing" => rt'[slot[s].rt].status \in {"disposing", "gone"}
                 /\ slot[s].pc \in {"detach", "operation"} =>
                      rt'[slot[s].rt].status \in {"live", "disposing", "gone"}
      BY <1>1, <1>3, NotPending DEF WaitInv
    <2>2. \A r \in Runtimes : rt'[r].status \in {"opening", "checking"} =>
            \E s \in Slots : slot[s].pc = "opening" /\ slot[s].rt = r
      BY <1>1, <1>3 DEF WaitInv
    <2> QED
      BY <1>1, <1>2, <2>1, <2>2 DEF WaitInv
  <1>9. CountInv'
    <2>1. \A q \in Runtimes : rt'[q].status # "none" <=> rt[q].status # "none"
      BY <1>3
    <2>2. Waiting' = Waiting /\ \A q \in Runtimes : Operations(q)' = Operations(q)
      BY <1>2 DEF Waiting, Operations
    <2> QED
      BY <1>1, <1>2, <1>3, <2>1, <2>2 DEF CountInv
  <1>10. AttachInv' /\ AttachmentsAgree'
    <2>1. \A c \in Conns : ~ conn[c].has
      BY <1>1, <1>2 DEF CloseInv, AttachInv
    <2>2. ~ raced => \A q \in Runtimes : rt'[q].status = "disposing" => rt'[q].members = {}
      <3>1. ~ raced /\ current # 0 => rt[current].members = {}
        BY <1>1, <2>1, Types DEF AttachmentsAgree, TypeOK, RuntimeType
      <3> QED
        BY <1>1, <1>3, <3>1 DEF AttachInv, Runtimes
    <2> QED
      BY <1>1, <1>2, <1>3, <2>1, <2>2 DEF AttachInv, AttachmentsAgree
  <1>11. WorkIsKept' /\ NoLeakedRuntime'
    BY <1>2 DEF WorkIsKept, NoLeakedRuntime, Unused, closing
  <1> QED
    BY <1>4, <1>6, <1>7, <1>8, <1>9, <1>10, <1>11 DEF IInv

-----------------------------------------------------------------------------
(* Acquiring *)

\* A command is in acquire(): it has just been dispatched, or the disposal that
\* it waited for is over.
Acquiring(s, c) ==
    \/ /\ slot[s].pc = "disposing" /\ rt[slot[s].rt].status = "gone"
       /\ commands' = commands
    \/ /\ slot[s].pc = "free" /\ conn[c].stage = "ready"
       /\ commands < MaxCommands /\ commands' = commands + 1

\* The runtime that acquire() opens next.
NextRuntime == CHOOSE n \in Runtimes : /\ rt[n].status = "none"
                                       /\ \A m \in 1..(n - 1) : rt[m].status # "none"

\* When a command acquires a runtime, nothing holds the session any more, also
\* while close() disposes of what did; and the next runtime is there.
LEMMA NothingHeld ==
    ASSUME IInv, NEW s \in Slots, NEW c \in Conns, Acquiring(s, c), current = 0, opening = 0
    PROVE  /\ Held = {}
           /\ \E k \in Nat :
                /\ \A r \in Runtimes : rt[r].status # "none" <=> r <= k
                /\ k + 1 \in Runtimes
                /\ k + 1 = NextRuntime
                /\ k + 1 + Cardinality(IF slot[s].pc = "disposing" THEN Waiting \ {s} ELSE Waiting)
                     <= commands'
  <1>1. TypeOK /\ RuntimesInv /\ CloseInv /\ WaitInv /\ CountInv
    BY DEF IInv
  <1>2. \A r \in Runtimes : rt[r].status \notin {"opening", "checking", "discarding", "live"}
    BY <1>1 DEF RuntimesInv, Runtimes
  <1>3. \A r \in Runtimes : rt[r].status # "disposing"
    <2>1. SUFFICES ASSUME NEW r \in Runtimes, rt[r].status = "disposing" PROVE FALSE
      OBVIOUS
    <2>2. srv = "disposing" /\ awaited = r
      BY <1>1, <2>1 DEF RuntimesInv, Runtimes
    <2>3. conn[c].stage # "ready"
      BY <1>1, <2>2 DEF CloseInv
    <2>4. slot[s].pc = "disposing" /\ rt[slot[s].rt].status = "gone"
      BY <2>3 DEF Acquiring
    <2>5. slot[s].rt = r
      BY <1>1, <2>2, <2>4 DEF CloseInv
    <2> QED
      BY <2>1, <2>4, <2>5
  <1>4. Held = {}
    BY <1>1, <1>2, <1>3, Types DEF Held, RuntimeType, Statuses
  <1>5. PICK k \in Nat : /\ \A r \in Runtimes : rt[r].status # "none" <=> r <= k
                         /\ k + Cardinality(Waiting) <= commands
    BY <1>1 DEF CountInv
  <1>6. commands \in Nat /\ commands <= MaxCommands /\ MaxCommands \in Nat /\ Cardinality(Waiting) \in Nat
    BY <1>1, BoundsAssumption, FS_CardinalityType DEF TypeOK, CountInv
  <1>7. k + 1 + Cardinality(IF slot[s].pc = "disposing" THEN Waiting \ {s} ELSE Waiting) <= commands'
    <2>1. CASE slot[s].pc = "disposing"
      <3>1. s \in Waiting
        BY <2>1 DEF Waiting
      <3>2. Cardinality(Waiting \ {s}) = Cardinality(Waiting) - 1
        BY <1>1, <3>1, FS_RemoveElement DEF CountInv
      <3>3. commands' = commands
        BY <2>1 DEF Acquiring
      <3> QED
        BY <1>5, <1>6, <2>1, <3>2, <3>3
    <2>2. CASE slot[s].pc # "disposing"
      BY <1>5, <1>6, <2>2 DEF Acquiring
    <2> QED
      BY <2>1, <2>2
  <1>8. k + 1 <= MaxCommands
    <2>1. CASE slot[s].pc = "disposing"
      <3>1. Cardinality(Waiting) # 0
        <4>1. s \in Waiting
          BY <2>1 DEF Waiting
        <4> QED
          BY <1>1, <4>1, FS_EmptySet DEF CountInv
      <3> QED
        BY <1>5, <1>6, <3>1
    <2>2. CASE slot[s].pc # "disposing"
      BY <1>5, <1>6, <2>2 DEF Acquiring
    <2> QED
      BY <2>1, <2>2
  <1>9. k + 1 \in Runtimes
    BY <1>6, <1>8 DEF Runtimes
  <1>10. k + 1 = NextRuntime
    <2> DEFINE First(n) == rt[n].status = "none" /\ \A m \in 1..(n - 1) : rt[m].status # "none"
    <2>1. First(k + 1)
      <3>1. rt[k + 1].status = "none"
        BY <1>5, <1>9
      <3>2. \A m \in 1..k : m \in Runtimes /\ m <= k
        BY <1>6, <1>8 DEF Runtimes
      <3>3. (k + 1) - 1 = k
        OBVIOUS
      <3> QED
        BY <1>5, <3>1, <3>2, <3>3
    <2>2. ASSUME NEW n \in Runtimes, First(n) PROVE n = k + 1
      <3>1. n \in Nat /\ n > k
        BY <1>5, <2>2 DEF Runtimes
      <3>2. n > k + 1 => k + 1 \in 1..(n - 1)
        BY <3>1
      <3>3. rt[k + 1].status = "none"
        BY <2>1
      <3> QED
        BY <2>2, <3>1, <3>2, <3>3
    <2> HIDE DEF First
    <2>3. k + 1 = CHOOSE n \in Runtimes : First(n)
      BY <1>9, <2>1, <2>2
    <2> QED
      BY <2>3 DEF First, NextRuntime
  <1> QED
    BY <1>4, <1>5, <1>7, <1>9, <1>10

\* A command that has to wait, or is refused, keeps the invariant.
LEMMA AcquireWaits ==
    ASSUME IInv, NEW s \in Slots, NEW c \in Conns, Acquiring(s, c),
           UNCHANGED <<rt, opening, conn, current, srv, awaited, raced>>,
           reader' \in Conns \cup {NoConn},
           NEW w \in SlotType, slot' = [slot EXCEPT ![s] = w],
           \/ w = Free
           \/ /\ w.conn = c /\ w.rt = current /\ current # 0
              /\ w.pc \in {"attach", "disposing"}
              /\ w.pc = "disposing" => rt[current].status = "disposing"
           \/ /\ w.conn = c /\ w.rt = opening /\ current = 0 /\ opening # 0
              /\ w.pc = "opening"
    PROVE  IInv'
  <1>1. /\ TypeOK /\ RuntimesInv /\ CloseInv /\ WaitInv /\ CountInv /\ AttachInv
        /\ WorkIsKept /\ NoLeakedRuntime /\ AttachmentsAgree
    BY DEF IInv
  <1>2. /\ slot' \in [Slots -> SlotType] /\ slot'[s] = w
        /\ \A t \in Slots \ {s} : slot'[t] = slot[t]
    BY <1>1, Types
  <1>3. commands' \in 0..MaxCommands /\ commands \in Nat /\ slot[s].pc \in {"free", "disposing"}
    BY <1>1, BoundsAssumption DEF TypeOK, Acquiring
  <1>4. TypeOK'
    BY <1>1, <1>2, <1>3 DEF TypeOK, SlotType
  <1>5. w.pc \in {"free", "attach", "disposing", "opening"}
    BY DEF Free
  <1>6. RuntimesInv'
    BY <1>1 DEF RuntimesInv, Held
  <1>7. CloseInv'
    <2>1. srv \in {"disposing", "closed"} => w.pc # "disposing"
      BY <1>1 DEF CloseInv, Free
    <2>2. \A t \in Slots : slot'[t].pc = "disposing" /\ srv \in {"disposing", "closed"} =>
            slot'[t] = slot[t]
      BY <1>2, <2>1
    <2> QED
      BY <1>1, <2>2 DEF CloseInv
  <1>8. WaitInv'
    <2>1. /\ w.pc # "free" => w.conn \in Conns /\ w.rt \in Runtimes
          /\ w.pc = "attach" => current = w.rt
          /\ w.pc = "opening" =>
               \/ current = w.rt
               \/ rt[w.rt].status \in {"opening", "checking", "discarding", "failed"}
          /\ w.pc = "disposing" => rt[w.rt].status \in {"disposing", "gone"}
          /\ w.pc \notin {"detach", "operation"}
      <3>1. (current # 0 => current \in Runtimes) /\ (opening # 0 => opening \in Runtimes)
        BY <1>1 DEF TypeOK
      <3>2. opening # 0 => rt[opening].status \in {"opening", "checking", "discarding"}
        BY <1>1, <3>1 DEF RuntimesInv
      <3> QED
        BY <3>1, <3>2 DEF Free
    <2>2. \A r \in Runtimes : rt[r].status \in {"opening", "checking"} =>
            \E t \in Slots : slot'[t].pc = "opening" /\ slot'[t].rt = r
      <3> SUFFICES ASSUME NEW r \in Runtimes, rt[r].status \in {"opening", "checking"}
                   PROVE  \E t \in Slots : slot'[t].pc = "opening" /\ slot'[t].rt = r
        OBVIOUS
      <3>1. PICK t \in Slots : slot[t].pc = "opening" /\ slot[t].rt = r
        BY <1>1 DEF WaitInv
      <3>2. t # s
        BY <1>3, <3>1
      <3> QED
        BY <1>2, <3>1, <3>2
    <2>3. ASSUME NEW t \in Slots
          PROVE  /\ slot'[t].pc # "free" => slot'[t].conn \in Conns /\ slot'[t].rt \in Runtimes
                 /\ slot'[t].pc = "attach" => current' = slot'[t].rt
                 /\ slot'[t].pc = "opening" =>
                     \/ current' = slot'[t].rt
                     \/ rt'[slot'[t].rt].status \in {"opening", "checking", "discarding", "failed"}
                 /\ slot'[t].pc = "disposing" => rt'[slot'[t].rt].status \in {"disposing", "gone"}
                 /\ slot'[t].pc \in {"detach", "operation"} =>
                     rt'[slot'[t].rt].status \in {"live", "disposing", "gone"}
      <3>1. CASE t = s
        BY <1>2, <2>1, <3>1
      <3>2. CASE t # s
        BY <1>1, <1>2, <3>2 DEF WaitInv
      <3> QED
        BY <3>1, <3>2
    <2> QED
      BY <2>2, <2>3 DEF WaitInv
  <1>9. CountInv'
    <2>1. \A r \in Runtimes : Operations(r)' = Operations(r)
      BY <1>2, <1>3, <1>5 DEF Operations
    <2>2. PICK k \in Nat : /\ \A r \in Runtimes : rt[r].status # "none" <=> r <= k
                           /\ k + Cardinality(Waiting) <= commands
      BY <1>1 DEF CountInv
    <2>3. IsFiniteSet(Waiting) /\ Cardinality(Waiting) \in Nat
      BY <1>1, FS_CardinalityType DEF CountInv
    <2>4. IsFiniteSet(Waiting') /\ k + Cardinality(Waiting') <= commands'
      <3>1. CASE slot[s].pc = "disposing"
        <4>1. Waiting' \subseteq Waiting
          BY <1>2, <3>1 DEF Waiting
        <4>2. IsFiniteSet(Waiting') /\ Cardinality(Waiting') \in Nat /\ Cardinality(Waiting') <= Cardinality(Waiting)
          BY <2>3, <4>1, FS_Subset, FS_CardinalityType
        <4>3. commands' = commands
          BY <3>1 DEF Acquiring
        <4> QED
          BY <1>3, <2>2, <2>3, <4>2, <4>3
      <3>2. CASE slot[s].pc # "disposing"
        <4>1. Waiting' \subseteq Waiting \cup {s}
          BY <1>2 DEF Waiting
        <4>2. /\ IsFiniteSet(Waiting \cup {s})
              /\ Cardinality(Waiting \cup {s}) \in Nat
              /\ Cardinality(Waiting \cup {s}) <= Cardinality(Waiting) + 1
          <5>1. /\ IsFiniteSet(Waiting \cup {s})
                /\ Cardinality(Waiting \cup {s}) =
                     IF s \in Waiting THEN Cardinality(Waiting) ELSE Cardinality(Waiting) + 1
            BY <2>3, FS_AddElement
          <5> QED
            BY <2>3, <5>1
        <4>3. /\ IsFiniteSet(Waiting') /\ Cardinality(Waiting') \in Nat
              /\ Cardinality(Waiting') <= Cardinality(Waiting \cup {s})
          BY <4>1, <4>2, FS_Subset, FS_CardinalityType
        <4>4. commands' = commands + 1
          BY <3>2 DEF Acquiring
        <4> QED
          BY <1>3, <2>2, <2>3, <4>2, <4>3, <4>4
      <3> QED
        BY <3>1, <3>2
    <2> QED
      BY <1>1, <2>1, <2>2, <2>4 DEF CountInv
  <1>10. AttachInv' /\ AttachmentsAgree' /\ WorkIsKept'
    BY <1>1 DEF AttachInv, AttachmentsAgree, WorkIsKept, closing
  <1>11. NoLeakedRuntime'
    <2> SUFFICES ASSUME NEW r \in Runtimes, Unused(rt, r)'
                 PROVE  \/ \E t \in Slots : Resumes(t)' /\ slot'[t].rt = r
                        \/ rt'[r].terminal = "closing"
      BY DEF NoLeakedRuntime
    <2>1. Unused(rt, r) /\ rt[r].status = "live"
      BY DEF Unused, closing
    <2>2. ASSUME NEW t \in Slots, Resumes(t), slot[t].rt = r
          PROVE  Resumes(t)' /\ slot'[t].rt = r
      <3>1. t # s
        BY <1>3, <2>1, <2>2 DEF Acquiring, Resumes
      <3> QED
        BY <1>2, <2>2, <3>1 DEF Resumes
    <2> QED
      BY <1>1, <2>1, <2>2 DEF NoLeakedRuntime
  <1> QED
    BY <1>4, <1>6, <1>7, <1>8, <1>9, <1>10, <1>11 DEF IInv

\* A command acquires the next runtime.
OpenStep(s, c, r) ==
    /\ Acquiring(s, c) /\ current = 0 /\ opening = 0
    /\ UNCHANGED <<conn, current, srv, awaited, raced>> /\ reader' \in Conns \cup {NoConn}
    /\ r = NextRuntime
    /\ rt' = [rt EXCEPT ![r].status = "opening"] /\ opening' = r
    /\ slot' = [slot EXCEPT ![s] = [pc |-> "opening", conn |-> c, rt |-> r]]

\* A command that acquires a runtime keeps the invariant.
LEMMA AcquireOpens ==
    ASSUME IInv, NEW s \in Slots, NEW c \in Conns, NEW r, OpenStep(s, c, r)
    PROVE  IInv' /\ Held = {} /\ Held' = {r} /\ rt'[r].status = "opening" /\ rt'[r].ops = 0
  <1>0. /\ Acquiring(s, c) /\ current = 0 /\ opening = 0
        /\ UNCHANGED <<conn, current, srv, awaited, raced>> /\ reader' \in Conns \cup {NoConn}
        /\ r = NextRuntime
        /\ rt' = [rt EXCEPT ![r].status = "opening"] /\ opening' = r
        /\ slot' = [slot EXCEPT ![s] = [pc |-> "opening", conn |-> c, rt |-> r]]
    BY DEF OpenStep
  <1> USE <1>0
  <1>1. /\ TypeOK /\ RuntimesInv /\ CloseInv /\ WaitInv /\ CountInv /\ AttachInv
        /\ WorkIsKept /\ NoLeakedRuntime /\ AttachmentsAgree
    BY DEF IInv
  <1>2. /\ Held = {}
        /\ \E k \in Nat :
             /\ \A q \in Runtimes : rt[q].status # "none" <=> q <= k
             /\ k + 1 \in Runtimes /\ r = k + 1
             /\ k + 1 + Cardinality(IF slot[s].pc = "disposing" THEN Waiting \ {s} ELSE Waiting)
                  <= commands'
    BY NothingHeld
  <1>3. PICK k \in Nat :
             /\ \A q \in Runtimes : rt[q].status # "none" <=> q <= k
             /\ k + 1 \in Runtimes /\ r = k + 1
             /\ k + 1 + Cardinality(IF slot[s].pc = "disposing" THEN Waiting \ {s} ELSE Waiting)
                  <= commands'
    BY <1>2
  <1>4. r \in Runtimes /\ r # 0 /\ rt[r].status = "none"
    BY <1>3 DEF Runtimes
  <1>5. /\ rt' \in [Runtimes -> RuntimeType]
        /\ \A q \in Runtimes \ {r} : rt'[q] = rt[q]
        /\ rt[r].status = "none" /\ rt'[r].status = "opening"
        /\ \A q \in Runtimes : /\ rt'[q].members = rt[q].members /\ rt'[q].ops = rt[q].ops
                               /\ rt'[q].busy = rt[q].busy /\ rt'[q].terminal = rt[q].terminal
    <2>1. "opening" \in Statuses /\ StatusStep(r, "none", "opening")
      BY <1>4 DEF Statuses, StatusStep
    <2> QED
      BY <1>1, <1>4, <2>1, StatusEffect
  <1>6. \A q \in Runtimes : rt[q].status \in {"none", "failed", "gone"}
    BY <1>2 DEF Held
  <1>7. /\ slot' \in [Slots -> SlotType]
        /\ slot'[s].pc = "opening" /\ slot'[s].conn = c /\ slot'[s].rt = r
        /\ \A t \in Slots \ {s} : slot'[t] = slot[t]
    <2>1. [pc |-> "opening", conn |-> c, rt |-> r] \in SlotType
      BY <1>4 DEF SlotType, Awaits
    <2> QED
      BY <1>1, <2>1, Types
  <1>8. commands' \in 0..MaxCommands /\ slot[s].pc \in {"free", "disposing"}
    BY <1>1, BoundsAssumption DEF TypeOK, Acquiring
  <1>9. TypeOK'
    BY <1>1, <1>4, <1>5, <1>7, <1>8 DEF TypeOK, SlotType, RuntimeType
  <1>10. Held' = {r}
    BY <1>4, <1>5, <1>6 DEF Held
  <1>11. RuntimesInv'
    <2>1. \A q \in Runtimes : rt'[q].status \in {"opening", "checking", "discarding"} <=> opening' = q
      BY <1>4, <1>5, <1>6
    <2>2. \A q \in Runtimes : rt'[q].status \notin {"live", "disposing"}
      BY <1>5, <1>6
    <2>3. \A q \in Runtimes : rt'[q].status \notin {"live", "disposing", "gone"} =>
             /\ rt'[q].members = {} /\ rt'[q].ops = 0
             /\ rt'[q].busy = FALSE /\ rt'[q].terminal = "no"
      BY <1>1, <1>5 DEF RuntimesInv
    <2> QED
      BY <1>10, <2>1, <2>2, <2>3 DEF RuntimesInv
  <1>12. CloseInv'
    <2>1. \A q \in Runtimes : rt'[q].status # "checking"
      BY <1>5, <1>6
    <2>2. \A t \in Slots : slot'[t].pc = "disposing" => slot'[t] = slot[t]
      BY <1>7
    <2> QED
      BY <1>1, <2>1, <2>2 DEF CloseInv
  <1>13. WaitInv'
    <2>1. ASSUME NEW t \in Slots
          PROVE  /\ slot'[t].pc # "free" => slot'[t].conn \in Conns /\ slot'[t].rt \in Runtimes
                 /\ slot'[t].pc = "attach" => current' = slot'[t].rt
                 /\ slot'[t].pc = "opening" =>
                     \/ current' = slot'[t].rt
                     \/ rt'[slot'[t].rt].status \in {"opening", "checking", "discarding", "failed"}
                 /\ slot'[t].pc = "disposing" => rt'[slot'[t].rt].status \in {"disposing", "gone"}
                 /\ slot'[t].pc \in {"detach", "operation"} =>
                     rt'[slot'[t].rt].status \in {"live", "disposing", "gone"}
      <3>1. CASE t = s
        BY <1>4, <1>5, <1>7, <3>1
      <3>2. CASE t # s
        BY <1>1, <1>5, <1>7, <3>2 DEF WaitInv
      <3> QED
        BY <3>1, <3>2
    <2>2. \A q \in Runtimes : rt'[q].status \in {"opening", "checking"} => q = r
      BY <1>5, <1>6
    <2> QED
      BY <1>7, <2>1, <2>2 DEF WaitInv
  <1>14. CountInv'
    <2>1. \A q \in Runtimes : Operations(q)' = Operations(q)
      BY <1>7, <1>8 DEF Operations
    <2>2. Waiting' = IF slot[s].pc = "disposing" THEN Waiting \ {s} ELSE Waiting
      BY <1>7 DEF Waiting
    <2>3. IsFiniteSet(Waiting')
      BY <1>1, <2>2, FS_RemoveElement DEF CountInv
    <2>4. \A q \in Runtimes : rt'[q].status # "none" <=> q <= k + 1
      <3>1. \A q \in Runtimes : q \in Nat
        BY DEF Runtimes
      <3> QED
        BY <1>3, <1>5, <3>1
    <2>5. k + 1 \in Nat /\ k + 1 + Cardinality(Waiting') <= commands'
      BY <1>3, <2>2
    <2> QED
      BY <1>1, <1>5, <2>1, <2>3, <2>4, <2>5 DEF CountInv
  <1>15. AttachInv' /\ AttachmentsAgree'
    BY <1>1, <1>5 DEF AttachInv, AttachmentsAgree
  <1>16. WorkIsKept' /\ rt'[r].ops = 0
    BY <1>1, <1>5 DEF WorkIsKept, RuntimesInv, closing
  <1>17. NoLeakedRuntime'
    BY <1>5, <1>6 DEF NoLeakedRuntime, Unused
  <1> QED
    BY <1>2, <1>5, <1>9, <1>10, <1>11, <1>12, <1>13, <1>14, <1>15, <1>16, <1>17 DEF IInv

-----------------------------------------------------------------------------
(* The invariant *)

\* The steps of the lemmas above, by name.
OpeningStep(r, from, to) ==
    /\ StatusStep(r, from, to)
    /\ to = "checking" => from = "opening" /\ ~ closing
    /\ opening' = IF to = "failed" THEN 0 ELSE opening
    /\ UNCHANGED <<conn, slot, current, srv, awaited, commands, raced>> /\ reader' = NoConn
LiveStep(r) ==
    /\ ~ Pending /\ StatusStep(r, "checking", "live") /\ current' = r /\ opening' = 0
    /\ UNCHANGED <<conn, slot, srv, awaited, commands, raced>> /\ reader' = NoConn
GoneStep(r) ==
    /\ ~ Pending /\ StatusStep(r, "disposing", "gone")
    /\ current' = IF current = r THEN 0 ELSE current
    /\ UNCHANGED <<conn, slot, opening, srv, awaited, commands, raced>> /\ reader' = NoConn
CloseStep == reader' = NoConn /\ (close \/ closeConnections \/ awaitOpenings \/ closed)
DisposeStep == ~ Pending /\ disposeLive /\ reader' = NoConn
WaitStep(s, c, w) ==
    /\ Acquiring(s, c)
    /\ UNCHANGED <<rt, opening, conn, current, srv, awaited, raced>>
    /\ reader' \in Conns \cup {NoConn}
    /\ slot' = [slot EXCEPT ![s] = w]
    /\ \/ w = Free
       \/ /\ w.conn = c /\ w.rt = current /\ current # 0
          /\ w.pc \in {"attach", "disposing"}
          /\ w.pc = "disposing" => rt[current].status = "disposing"
       \/ /\ w.conn = c /\ w.rt = opening /\ current = 0 /\ opening # 0
          /\ w.pc = "opening"

\* One round of acquire() either waits, or opens the next runtime.
LEMMA AcquireKinds ==
    ASSUME IInv, NEW s \in Slots, NEW c \in Conns, Acquiring(s, c), acquire(s, c),
           UNCHANGED <<conn, current, srv, awaited, raced>>, reader' \in Conns \cup {NoConn}
    PROVE  \/ \E w \in SlotType : WaitStep(s, c, w)
           \/ \E r : OpenStep(s, c, r)
  <1>1. TypeOK /\ Free \in SlotType
    BY DEF IInv, Free, SlotType, Awaits
  <1>2. CASE /\ slot' = [slot EXCEPT ![s] = Free]
             /\ UNCHANGED <<rt, opening>>
    <2>1. WaitStep(s, c, Free)
      BY <1>2 DEF WaitStep
    <2> QED
      BY <1>1, <2>1
  <1>3. CASE /\ current # 0
             /\ Take(s, IF rt[current].status = "disposing" THEN "disposing" ELSE "attach", c, current)
             /\ UNCHANGED <<rt, opening>>
    <2> DEFINE pc == IF rt[current].status = "disposing" THEN "disposing" ELSE "attach"
               w == [pc |-> pc, conn |-> c, rt |-> current]
    <2>1. w \in SlotType
      BY <1>1 DEF SlotType, Awaits, TypeOK
    <2>2. /\ w.conn = c /\ w.rt = current /\ w.pc \in {"attach", "disposing"}
          /\ w.pc = "disposing" => rt[current].status = "disposing"
      OBVIOUS
    <2>3. slot' = [slot EXCEPT ![s] = w]
      BY <1>3 DEF Take
    <2> HIDE DEF w
    <2>4. WaitStep(s, c, w)
      BY <1>3, <2>2, <2>3 DEF WaitStep
    <2> QED
      BY <2>1, <2>4
  <1>4. CASE /\ current = 0 /\ opening # 0
             /\ Take(s, "opening", c, opening)
             /\ UNCHANGED <<rt, opening>>
    <2> DEFINE w == [pc |-> "opening", conn |-> c, rt |-> opening]
    <2>1. w \in SlotType
      BY <1>1 DEF SlotType, Awaits, TypeOK
    <2>2. w.conn = c /\ w.rt = opening /\ w.pc = "opening"
      OBVIOUS
    <2>3. slot' = [slot EXCEPT ![s] = w]
      BY <1>4 DEF Take
    <2> HIDE DEF w
    <2>4. WaitStep(s, c, w)
      BY <1>4, <2>2, <2>3 DEF WaitStep
    <2> QED
      BY <2>1, <2>4
  <1>5. CASE /\ current = 0 /\ opening = 0
             /\ rt' = [rt EXCEPT ![NextRuntime].status = "opening"]
             /\ opening' = NextRuntime
             /\ Take(s, "opening", c, NextRuntime)
    <2>1. OpenStep(s, c, NextRuntime)
      BY <1>5 DEF OpenStep, Take
    <2> QED
      BY <2>1
  <1> QED
    BY <1>2, <1>3, <1>4, <1>5 DEF acquire, NextRuntime

\* Every step of the server is one of these.
LEMMA StepKinds ==
    ASSUME IInv, Next
    PROVE  \/ \E r \in Runtimes : UseStep(r) \/ LiveStep(r) \/ GoneStep(r)
           \/ \E r \in Runtimes, from \in {"opening", "checking", "discarding"},
                 to \in {"checking", "discarding", "failed"} : OpeningStep(r, from, to)
           \/ PlainStep \/ CloseStep \/ DisposeStep
           \/ \E s \in Slots, c \in Conns : \/ \E w \in SlotType : WaitStep(s, c, w)
                                            \/ \E r : OpenStep(s, c, r)
  <1>1. TypeOK /\ WaitInv /\ RuntimesInv /\ AttachInv
    BY DEF IInv
  <1>2. ASSUME NEW s \in Slots, Resume(s)
        PROVE  \/ \E r \in Runtimes : UseStep(r)
               \/ PlainStep
               \/ \E c \in Conns : \/ \E w \in SlotType : WaitStep(s, c, w)
                                   \/ \E r : OpenStep(s, c, r)
    <2>1. Resumes(s) /\ reader' = NoConn /\ UNCHANGED <<current, srv, awaited, commands>>
      BY <1>2 DEF Resume
    <2>2. CASE slot[s].pc = "disposing" /\ acquire(s, slot[s].conn) /\ UNCHANGED <<conn, raced>>
      <3>1. PICK c \in Conns : c = slot[s].conn
        BY <1>1, <2>2 DEF WaitInv
      <3>2. Acquiring(s, c)
        BY <2>1, <2>2 DEF Acquiring, Resumes
      <3> QED
        BY <2>1, <2>2, <3>1, <3>2, AcquireKinds
    <2>3. CASE /\ slot[s].pc = "disposing" \/ rt[slot[s].rt].status = "failed"
               /\ slot' = [slot EXCEPT ![s] = Free]
               /\ UNCHANGED <<conn, rt, opening, raced>>
      <3>1. /\ slot[s].pc \in {"disposing", "opening"}
            /\ rt[slot[s].rt].status \in {"gone", "failed"}
        BY <1>1, <2>1, <2>3 DEF Resumes, WaitInv, RuntimesInv, Runtimes
      <3>2. StagesKept
        BY <1>1, <2>3, ConnSame
      <3>3. commands' \in 0..MaxCommands /\ commands' >= commands /\ reader' \in Conns \cup {NoConn}
        BY <1>1, <2>1 DEF TypeOK
      <3> QED
        BY <2>1, <2>3, <3>1, <3>2, <3>3 DEF PlainStep
    <2>4. CASE /\ slot[s].pc # "disposing" /\ rt[slot[s].rt].status # "failed"
               /\ attach(s)
               /\ slot' = [slot EXCEPT ![s] = Free]
               /\ UNCHANGED opening
      BY <2>1, <2>4, AttachUses
    <2> QED
      BY <1>2, <2>2, <2>3, <2>4 DEF Resume
  <1>3. ASSUME NEW s \in Slots, NEW c \in Conns, Command(s, c)
        PROVE  \/ \E r \in Runtimes : UseStep(r)
               \/ PlainStep
               \/ \E w \in SlotType : WaitStep(s, c, w)
               \/ \E r : OpenStep(s, c, r)
    <2>1. CASE AttachCommand(s, c)
      <3>1. Dispatch(s, c) /\ acquire(s, c) /\ UNCHANGED conn
        BY <2>1 DEF AttachCommand
      <3>2. /\ slot[s].pc = "free" /\ conn[c].stage = "ready" /\ commands' = commands + 1
            /\ reader' \in Conns \cup {NoConn} /\ UNCHANGED <<current, srv, awaited, raced>>
        BY <1>1, <3>1, Dispatched
      <3>3. Acquiring(s, c)
        BY <3>1, <3>2 DEF Acquiring, Dispatch
      <3> QED
        BY <3>1, <3>2, <3>3, AcquireKinds
    <2>2. CASE DetachCommand(s, c)
      BY <2>2, DetachPlain, DetachCommandUses
    <2>3. CASE OperationCommand(s, c)
      BY <2>3, OperationCommandUses
    <2> QED
      BY <1>3, <2>1, <2>2, <2>3 DEF Command
  <1>4. ASSUME NEW r \in Runtimes, Service(r), ~ Pending, reader' = NoConn
        PROVE  \/ LiveStep(r) \/ GoneStep(r)
               \/ \E from \in {"opening", "checking", "discarding"},
                     to \in {"checking", "discarding", "failed"} : OpeningStep(r, from, to)
    <2>1. CASE OpenDone(r)
      <3>1. opening = r
        BY <1>1, <2>1 DEF OpenDone, RuntimesInv
      <3>2. CASE closing /\ rt' = [rt EXCEPT ![r].status = "discarding"] /\ UNCHANGED opening
        <4>1. OpeningStep(r, "opening", "discarding")
          BY <1>4, <2>1, <3>2 DEF OpeningStep, StatusStep, OpenDone
        <4> QED
          BY <4>1
      <3>3. CASE ~ closing /\ rt' = [rt EXCEPT ![r].status = "checking"] /\ UNCHANGED opening
        <4>1. OpeningStep(r, "opening", "checking")
          BY <1>4, <2>1, <3>3 DEF OpeningStep, StatusStep, OpenDone
        <4> QED
          BY <4>1
      <3>4. CASE rt' = [rt EXCEPT ![r].status = "failed"] /\ opening' = 0
        <4>1. OpeningStep(r, "opening", "failed")
          BY <1>4, <2>1, <3>4 DEF OpeningStep, StatusStep, OpenDone
        <4> QED
          BY <4>1
      <3> QED
        BY <2>1, <3>2, <3>3, <3>4 DEF OpenDone
    <2>2. CASE Checked(r)
      <3>1. CASE rt' = [rt EXCEPT ![r].status = "live"] /\ current' = r /\ opening' = 0
        BY <1>4, <2>2, <3>1 DEF LiveStep, StatusStep, Checked
      <3>2. CASE rt' = [rt EXCEPT ![r].status = "discarding"] /\ UNCHANGED <<current, opening>>
        <4>1. OpeningStep(r, "checking", "discarding")
          BY <1>4, <2>2, <3>2 DEF OpeningStep, StatusStep, Checked
        <4> QED
          BY <4>1
      <3> QED
        BY <2>2, <3>1, <3>2 DEF Checked
    <2>3. CASE DisposeDone(r)
      <3>1. CASE rt[r].status = "disposing"
        BY <1>4, <2>3, <3>1 DEF GoneStep, StatusStep, DisposeDone
      <3>2. CASE rt[r].status = "discarding"
        <4>1. opening = r
          BY <1>1, <3>2 DEF RuntimesInv
        <4>2. OpeningStep(r, "discarding", "failed")
          BY <1>4, <2>3, <3>2, <4>1 DEF OpeningStep, StatusStep, DisposeDone
        <4> QED
          BY <4>2
      <3> QED
        BY <2>3, <3>1, <3>2 DEF DisposeDone
    <2> QED
      BY <1>4, <2>1, <2>2, <2>3 DEF Service
  <1>5. ASSUME NEW c \in Conns, reader' = NoConn,
               accept(c) \/ hello(c) \/ finishHandshake(c) \/ failProtocol(c) \/ disconnect(c)
        PROVE  PlainStep \/ \E r \in Runtimes : UseStep(r)
    BY <1>5, StagePlain, DisconnectUses
  <1>6. ASSUME NEW s \in Slots, Settles(s), reader' = NoConn
        PROVE  \E r \in Runtimes : UseStep(r)
    BY <1>6, DetachDoneUses, OperationDoneUses DEF Settles
  <1>7. ASSUME NEW r \in Runtimes, Runtime(r), reader' = NoConn
        PROVE  UseStep(r)
    BY <1>7, RuntimeUses
  <1>8. ASSUME close \/ Closing, ~ Pending, reader' = NoConn
        PROVE  CloseStep \/ DisposeStep
    BY <1>8 DEF Closing, CloseStep, DisposeStep
  <1> QED
    BY <1>2, <1>3, <1>4, <1>5, <1>6, <1>7, <1>8 DEF Next, Event

\* The invariant is inductive.
LEMMA InvStep == IInv /\ [Next]_vars => IInv'
  <1> SUFFICES ASSUME IInv, [Next]_vars PROVE IInv'
    OBVIOUS
  <1>1. CASE UNCHANGED vars
    <2>1. TypeOK' /\ RuntimesInv' /\ CloseInv' /\ WaitInv' /\ AttachInv'
      BY <1>1 DEF IInv, vars, TypeOK, RuntimesInv, Held, CloseInv, WaitInv, AttachInv
    <2>2. CountInv'
      BY <1>1 DEF IInv, vars, CountInv, Waiting, Operations
    <2>3. WorkIsKept' /\ AttachmentsAgree'
      BY <1>1 DEF IInv, vars, WorkIsKept, closing, AttachmentsAgree
    <2>4. NoLeakedRuntime'
      BY <1>1 DEF IInv, vars, NoLeakedRuntime, Unused, closing, Resumes
    <2> QED
      BY <2>1, <2>2, <2>3, <2>4 DEF IInv
  <1>2. CASE Next
    <2>1. ASSUME NEW r \in Runtimes, UseStep(r) PROVE IInv'
      BY <2>1, UseStepKeeps
    <2>2. ASSUME NEW r \in Runtimes, LiveStep(r) PROVE IInv'
      BY <2>2, LiveKeeps DEF LiveStep
    <2>3. ASSUME NEW r \in Runtimes, GoneStep(r) PROVE IInv'
      BY <2>3, GoneKeeps DEF GoneStep
    <2>4. ASSUME NEW r \in Runtimes, NEW from \in {"opening", "checking", "discarding"},
                 NEW to \in {"checking", "discarding", "failed"}, OpeningStep(r, from, to)
          PROVE  IInv'
      BY <2>4, OpeningKeeps DEF OpeningStep
    <2>5. CASE PlainStep
      BY <2>5, PlainStepKeeps
    <2>6. CASE CloseStep
      BY <2>6, CloseKeeps DEF CloseStep
    <2>7. CASE DisposeStep
      BY <2>7, DisposeLiveKeeps DEF DisposeStep
    <2>8. ASSUME NEW s \in Slots, NEW c \in Conns, NEW w \in SlotType, WaitStep(s, c, w) PROVE IInv'
      BY <2>8, AcquireWaits DEF WaitStep
    <2>9. ASSUME NEW s \in Slots, NEW c \in Conns, NEW r, OpenStep(s, c, r) PROVE IInv'
      BY <2>9, AcquireOpens
    <2> QED
      BY <1>2, <2>1, <2>2, <2>3, <2>4, <2>5, <2>6, <2>7, <2>8, <2>9, StepKinds
  <1> QED
    BY <1>1, <1>2

\* The invariant holds at the start.
LEMMA InvInit == Init => IInv
  <1> SUFFICES ASSUME Init PROVE IInv
    OBVIOUS
  <1>1. /\ NoRuntime \in RuntimeType /\ Free \in SlotType /\ [stage |-> "new", has |-> FALSE] \in ConnType
        /\ NoRuntime.status = "none" /\ NoRuntime.members = {} /\ NoRuntime.ops = 0
        /\ NoRuntime.busy = FALSE /\ NoRuntime.terminal = "no" /\ Free.pc = "free"
    BY DEF NoRuntime, RuntimeType, Free, SlotType, ConnType, Statuses, Awaits, Stages
  <1>2. TypeOK
    <2>1. conn \in [Conns -> ConnType] /\ slot \in [Slots -> SlotType] /\ rt \in [Runtimes -> RuntimeType]
      BY <1>1 DEF Init
    <2>2. /\ current = 0 /\ opening = 0 /\ awaited = 0 /\ srv = "up" /\ reader = NoConn
          /\ commands \in 0..MaxCommands
      BY BoundsAssumption DEF Init
    <2>3. raced \in BOOLEAN
      BY DEF Init
    <2> QED
      BY <2>1, <2>2, <2>3 DEF TypeOK, RuntimeType, SlotType, ConnType
  <1>3. /\ \A r \in Runtimes : /\ rt[r].status = "none" /\ rt[r].members = {} /\ rt[r].ops = 0
                               /\ rt[r].busy = FALSE /\ rt[r].terminal = "no"
        /\ \A s \in Slots : slot[s].pc = "free"
        /\ \A c \in Conns : conn[c].stage = "new" /\ conn[c].has = FALSE
        /\ current = 0 /\ opening = 0 /\ srv = "up" /\ commands = 0
    BY <1>1 DEF Init
  <1>4. RuntimesInv /\ CloseInv /\ WaitInv /\ AttachInv
    BY <1>3 DEF RuntimesInv, Held, CloseInv, WaitInv, AttachInv, Runtimes
  <1>5. CountInv
    <2>1. Waiting = {} /\ \A r \in Runtimes : Operations(r) = {}
      BY <1>3 DEF Waiting, Operations
    <2>2. \A r \in Runtimes : rt[r].status # "none" <=> r <= 0
      BY <1>3 DEF Runtimes
    <2> QED
      BY <1>3, <2>1, <2>2, FS_EmptySet DEF CountInv
  <1>6. WorkIsKept /\ NoLeakedRuntime /\ AttachmentsAgree
    BY <1>3 DEF WorkIsKept, NoLeakedRuntime, Unused, AttachmentsAgree
  <1> QED
    BY <1>2, <1>4, <1>5, <1>6 DEF IInv

\* The inductive invariant holds in every state.
THEOREM InvCorrect == Spec => []IInv
  BY InvInit, InvStep, PTL DEF Spec

-----------------------------------------------------------------------------
(* What the server promises *)

\* The variables always have their types: the count of operations in progress
\* never goes below zero, and no more runtimes are acquired than commands ask.
THEOREM TypeCorrect == Spec => []TypeOK
  <1>1. IInv => TypeOK
    BY DEF IInv
  <1> QED
    BY <1>1, InvCorrect, PTL

\* maybeDispose() never lets a runtime go under an operation or under work in
\* progress, whichever connections come, go and fail meanwhile.
THEOREM WorkKept == Spec => []WorkIsKept
  <1>1. IInv => WorkIsKept
    BY DEF IInv
  <1> QED
    BY <1>1, InvCorrect, PTL

\* Every path on which the last user of a runtime leaves ends in maybeDispose():
\* no runtime is left live with nobody to dispose it.
THEOREM NothingLeaked == Spec => []NoLeakedRuntime
  <1>1. IInv => NoLeakedRuntime
    BY DEF IInv
  <1> QED
    BY <1>1, InvCorrect, PTL

\* ConnectionState.sessionIds and LiveSession.connections agree on who is
\* attached, unless a connection was attached to a runtime being disposed.
THEOREM AttachmentsCorrect == Spec => []AttachmentsAgree
  <1>1. IInv => AttachmentsAgree
    BY DEF IInv
  <1> QED
    BY <1>1, InvCorrect, PTL

-----------------------------------------------------------------------------
(* The server implements the contract of its service *)

\* What the contract sees is the one runtime that holds the session.
SeenIsHeld ==
    /\ Held = {} => Phase = "free" /\ Work = 0
    /\ \A r \in Held :
         /\ rt[r].status \in {"opening", "checking"} => Phase = "acquiring" /\ Work = 0
         /\ rt[r].status = "live" => Phase = "held" /\ Work = rt[r].ops
         /\ rt[r].status \notin {"opening", "checking", "live"} => Phase = "releasing" /\ Work = 0

\* It follows from there being one at most.
LEMMA PhaseIs == RuntimesInv => SeenIsHeld
  <1> SUFFICES ASSUME RuntimesInv PROVE SeenIsHeld
    OBVIOUS
  <1>1. \A q, r \in Held : q = r
    BY DEF RuntimesInv
  <1>2. Held = {} => Phase = "free" /\ Work = 0
    BY DEF Phase, Work
  <1>3. ASSUME NEW r \in Held
        PROVE  /\ rt[r].status \in {"opening", "checking"} => Phase = "acquiring" /\ Work = 0
               /\ rt[r].status = "live" => Phase = "held" /\ Work = rt[r].ops
               /\ rt[r].status \notin {"opening", "checking", "live"} => Phase = "releasing" /\ Work = 0
    <2>1. Held = {r}
      BY <1>1
    <2>2. (\E q \in Held : rt[q].status \in {"opening", "checking"}) <=> rt[r].status \in {"opening", "checking"}
      BY <2>1
    <2>3. (\E q \in Held : rt[q].status = "live") <=> rt[r].status = "live"
      BY <2>1
    <2>4. rt[r].status = "live" => (CHOOSE q \in Held : rt[q].status = "live") = r
      BY <2>1
    <2>5. rt[r].status = "live" => Work = rt[r].ops
      BY <2>3, <2>4 DEF Work
    <2>6. rt[r].status # "live" => Work = 0
      BY <2>3 DEF Work
    <2>7. /\ rt[r].status \in {"opening", "checking"} => Phase = "acquiring"
          /\ rt[r].status = "live" => Phase = "held"
          /\ rt[r].status \notin {"opening", "checking", "live"} => Phase = "releasing"
      BY <2>1, <2>2, <2>3 DEF Phase
    <2> QED
      BY <2>5, <2>6, <2>7
  <1> QED
    BY <1>2, <1>3 DEF SeenIsHeld

\* The same after a step.
LEMMA PhaseIsNext == RuntimesInv' => SeenIsHeld'
  BY PhaseIs, PTL

\* The contract sees the runtimes only.
LEMMA SeenIs == rt' = rt => Phase' = Phase /\ Work' = Work
  BY DEF Phase, Work, Held

\* A step that changes one runtime, which holds the session before or after it,
\* shows as the change of that runtime.
LEMMA SeenChange ==
    ASSUME IInv, IInv', NEW r \in Runtimes, \A q \in Runtimes \ {r} : rt'[q] = rt[q]
    PROVE  /\ rt[r].status \in {"opening", "checking"} => Phase = "acquiring" /\ Work = 0
           /\ rt[r].status = "live" => Phase = "held" /\ Work = rt[r].ops
           /\ rt[r].status \in {"discarding", "disposing"} => Phase = "releasing" /\ Work = 0
           /\ rt'[r].status \in {"opening", "checking"} => Phase' = "acquiring" /\ Work' = 0
           /\ rt'[r].status = "live" => Phase' = "held" /\ Work' = rt'[r].ops
           /\ rt'[r].status \in {"discarding", "disposing"} => Phase' = "releasing" /\ Work' = 0
           /\ rt[r].status \in {"opening", "checking", "discarding", "live", "disposing"}
                /\ rt'[r].status \in {"failed", "gone"} => Phase' = "free" /\ Work' = 0
  <1>1. RuntimesInv /\ RuntimesInv'
    BY DEF IInv
  <1>2. /\ rt[r].status \in {"opening", "checking", "discarding", "live", "disposing"} => r \in Held
        /\ rt'[r].status \in {"opening", "checking", "discarding", "live", "disposing"} => r \in Held'
    BY DEF Held
  <1>3. ASSUME r \in Held, rt'[r].status \in {"failed", "gone"}
        PROVE  Held' = {}
    <2>1. \A q \in Held : q = r
      BY <1>1, <1>3 DEF RuntimesInv
    <2>2. \A q \in Runtimes \ {r} : q \notin Held'
      BY <2>1 DEF Held
    <2>3. r \notin Held' /\ Held' \subseteq Runtimes
      BY <1>3 DEF Held
    <2> QED
      BY <2>2, <2>3
  <1> QED
    BY <1>1, <1>2, <1>3, PhaseIs, PhaseIsNext DEF SeenIsHeld

\* Using the session's runtime begins or ends an operation, or lets it go when
\* none runs.
LEMMA UseImplements ==
    ASSUME IInv, IInv', NEW r \in Runtimes, UseStep(r)
    PROVE  Contract!Next \/ UNCHANGED <<Phase, Work, closing>>
  <1>1. /\ \A q \in Runtimes \ {r} : rt'[q] = rt[q]
        /\ rt[r].status \in {"live", "disposing", "gone"}
        /\ closing' = closing
    BY DEF UseStep, Touches, closing
  <1>2. rt[r].ops \in Nat /\ rt'[r].ops \in Nat
    BY Types DEF IInv, UseStep, Touches, RuntimeType
  <1>3. rt'[r].ops \in {rt[r].ops, rt[r].ops + 1, rt[r].ops - 1}
    BY DEF UseStep, Counted
  <1>4. CASE rt[r].status # "live" /\ rt'[r].status = rt[r].status
    <2>1. Held' = Held
      BY <1>1, <1>4 DEF Held
    <2>2. CASE Held = {}
      BY <1>1, <2>1, <2>2, PhaseIs, PhaseIsNext DEF IInv, SeenIsHeld
    <2>3. CASE \E q \in Held : TRUE
      <3>1. PICK q \in Held : TRUE
        BY <2>3
      <3>2. rt'[q].status = rt[q].status /\ (rt[q].status = "live" => rt'[q].ops = rt[q].ops)
        BY <1>1, <1>4 DEF Held
      <3> QED
        BY <1>1, <2>1, <3>2, PhaseIs, PhaseIsNext DEF IInv, SeenIsHeld
    <2> QED
      BY <2>2, <2>3
  <1>5. CASE rt[r].status = "live" /\ rt'[r].status = "live"
    <2>1. Phase = "held" /\ Phase' = "held" /\ Work = rt[r].ops /\ Work' = rt'[r].ops
      BY <1>1, <1>5, SeenChange
    <2>2. CASE rt'[r].ops = rt[r].ops
      BY <1>1, <2>1, <2>2
    <2>3. CASE rt'[r].ops = rt[r].ops + 1
      BY <1>1, <2>1, <2>3 DEF Contract!Next, Contract!Begin
    <2>4. CASE rt'[r].ops = rt[r].ops - 1
      BY <1>1, <1>2, <2>1, <2>4 DEF Contract!Next, Contract!End
    <2> QED
      BY <1>3, <2>2, <2>3, <2>4
  <1>6. CASE rt[r].status = "live" /\ rt'[r].status = "disposing" /\ rt'[r].ops = 0
    <2>1. Phase = "held" /\ Phase' = "releasing" /\ Work = rt[r].ops /\ Work' = 0
      BY <1>1, <1>6, SeenChange
    <2>2. CASE rt[r].ops = 0
      BY <1>1, <2>1, <2>2 DEF Contract!Next, Contract!Release
    <2>3. CASE rt[r].ops = 1
      BY <1>1, <2>1, <2>3 DEF Contract!Next, Contract!End
    <2> QED
      BY <1>2, <1>3, <1>6, <2>2, <2>3
  <1> QED
    BY <1>1, <1>4, <1>5, <1>6 DEF UseStep, Touches

\* Every step of the server is one that the contract allows, or none of its
\* business.
LEMMA StepImplements ==
    ASSUME IInv, IInv', [Next]_vars
    PROVE  Contract!Next \/ UNCHANGED <<Phase, Work, closing>>
  <1>1. CASE UNCHANGED vars
    BY <1>1, SeenIs DEF vars, closing
  <1>2. CASE Next
    <2>1. ASSUME NEW r \in Runtimes, UseStep(r)
          PROVE  Contract!Next \/ UNCHANGED <<Phase, Work, closing>>
      BY <2>1, UseImplements
    <2>2. ASSUME NEW r \in Runtimes, LiveStep(r) PROVE Contract!Next
      <3>1. /\ \A q \in Runtimes \ {r} : rt'[q] = rt[q]
            /\ rt[r].status = "checking" /\ rt'[r].status = "live" /\ rt'[r].ops = rt[r].ops
        BY <2>2, StatusEffect DEF LiveStep, IInv, Statuses
      <3>2. rt[r].ops = 0
        BY <3>1 DEF IInv, RuntimesInv
      <3>3. Phase = "acquiring" /\ Work = 0 /\ Phase' = "held" /\ Work' = 0
        BY <3>1, <3>2, SeenChange
      <3>4. closing' = closing
        BY <2>2 DEF LiveStep, closing
      <3> QED
        BY <3>3, <3>4 DEF Contract!Next, Contract!Acquired
    <2>3. ASSUME NEW r \in Runtimes, GoneStep(r) PROVE Contract!Next
      <3>1. /\ \A q \in Runtimes \ {r} : rt'[q] = rt[q]
            /\ rt[r].status = "disposing" /\ rt'[r].status = "gone"
        BY <2>3, StatusEffect DEF GoneStep, IInv, Statuses
      <3>2. Phase = "releasing" /\ Work = 0 /\ Phase' = "free" /\ Work' = 0
        BY <3>1, SeenChange
      <3>3. closing' = closing
        BY <2>3 DEF GoneStep, closing
      <3> QED
        BY <3>2, <3>3 DEF Contract!Next, Contract!Released
    <2>4. ASSUME NEW r \in Runtimes, NEW from \in {"opening", "checking", "discarding"},
                 NEW to \in {"checking", "discarding", "failed"}, OpeningStep(r, from, to)
          PROVE  Contract!Next \/ UNCHANGED <<Phase, Work, closing>>
      <3>1. /\ \A q \in Runtimes \ {r} : rt'[q] = rt[q]
            /\ rt[r].status = from /\ rt'[r].status = to
        BY <2>4, StatusEffect DEF OpeningStep, IInv, Statuses
      <3>2. closing' = closing /\ (to = "checking" => from = "opening")
        BY <2>4 DEF OpeningStep, closing
      <3>3. CASE from \in {"opening", "checking"} /\ to = "checking"
        BY <3>1, <3>2, <3>3, SeenChange
      <3>4. CASE from \in {"opening", "checking"} /\ to \in {"discarding", "failed"}
        <4>1. Phase = "acquiring" /\ Work = 0 /\ Phase' \in {"releasing", "free"} /\ Work' = 0
          BY <3>1, <3>4, SeenChange
        <4> QED
          BY <3>2, <4>1 DEF Contract!Next, Contract!Acquired
      <3>5. CASE from = "discarding" /\ to = "discarding"
        BY <3>1, <3>2, <3>5, SeenChange
      <3>6. CASE from = "discarding" /\ to = "failed"
        <4>1. Phase = "releasing" /\ Work = 0 /\ Phase' = "free" /\ Work' = 0
          BY <3>1, <3>6, SeenChange
        <4> QED
          BY <3>2, <4>1 DEF Contract!Next, Contract!Released
      <3> QED
        BY <3>2, <3>3, <3>4, <3>5, <3>6
    <2>5. CASE PlainStep
      BY <2>5, SeenIs DEF PlainStep, closing
    <2>6. CASE CloseStep
      <3>1. rt' = rt
        BY <2>6 DEF CloseStep, close, closeConnections, awaitOpenings, closed
      <3>2. Phase' = Phase /\ Work' = Work
        BY <3>1, SeenIs
      <3>3. closing' = TRUE
        BY <2>6 DEF CloseStep, close, closeConnections, awaitOpenings, closed, closing
      <3>4. CASE closing
        <4>1. closing' = closing
          BY <3>3, <3>4 DEF closing
        <4> QED
          BY <3>2, <4>1
      <3>5. CASE ~ closing
        BY <3>2, <3>3, <3>5 DEF Contract!Next, Contract!Shut
      <3> QED
        BY <3>4, <3>5
    <2>7. CASE DisposeStep
      <3>1. srv = "openings" /\ srv' = "disposing"
        BY <2>7 DEF DisposeStep, disposeLive
      <3>2. closing = TRUE /\ closing' = TRUE
        BY <3>1 DEF closing
      <3>3. CASE current # 0 /\ rt[current].status = "live"
        <4>1. PICK r \in Runtimes : r = current
          BY <3>3 DEF IInv, TypeOK
        <4>2. StatusStep(r, "live", "disposing")
          BY <2>7, <3>3, <4>1 DEF DisposeStep, disposeLive, StatusStep
        <4>3. /\ \A q \in Runtimes \ {r} : rt'[q] = rt[q]
              /\ rt[r].status = "live" /\ rt'[r].status = "disposing"
          BY <4>2, StatusEffect DEF IInv, Statuses
        <4>4. Phase = "held" /\ Phase' = "releasing" /\ Work' = 0
          BY <4>3, SeenChange
        <4> QED
          BY <3>2, <4>4 DEF Contract!Next, Contract!Release
      <3>4. CASE ~ (current # 0 /\ rt[current].status = "live")
        BY <2>7, <3>2, <3>4, SeenIs DEF DisposeStep, disposeLive
      <3> QED
        BY <3>3, <3>4
    <2>8. ASSUME NEW s \in Slots, NEW c \in Conns, NEW w \in SlotType, WaitStep(s, c, w)
          PROVE  UNCHANGED <<Phase, Work, closing>>
      BY <2>8, SeenIs DEF WaitStep, closing
    <2>9. ASSUME NEW s \in Slots, NEW c \in Conns, NEW r, OpenStep(s, c, r)
          PROVE  Contract!Next
      <3>1. Held = {} /\ Held' = {r} /\ rt'[r].status = "opening"
        BY <2>9, AcquireOpens
      <3>2. Phase = "free" /\ Work = 0 /\ Phase' = "acquiring" /\ Work' = 0
        BY <3>1, PhaseIs, PhaseIsNext DEF IInv, SeenIsHeld
      <3>3. closing' = closing
        BY <2>9 DEF OpenStep, closing
      <3> QED
        BY <3>2, <3>3 DEF Contract!Next, Contract!Acquire
    <2> QED
      BY <1>2, <2>1, <2>2, <2>3, <2>4, <2>5, <2>6, <2>7, <2>8, <2>9, StepKinds
  <1> QED
    BY <1>1, <1>2

\* The server keeps the safety part of what PiServerService asks of it: it
\* never opens a session that it still holds, runs operations on the runtime
\* that holds it only, and gives it up under none of them unless it shuts down.
THEOREM ServerImplementsContract == Spec => Contract!Safe
  <1>1. Init => Contract!Init
    <2> SUFFICES ASSUME Init PROVE Contract!Init
      OBVIOUS
    <2>1. Held = {}
      BY DEF Init, Held, NoRuntime
    <2>2. RuntimesInv
      BY InvInit DEF IInv
    <2>3. Phase = "free" /\ Work = 0
      BY <2>1, <2>2, PhaseIs DEF SeenIsHeld
    <2>4. closing = FALSE
      BY DEF Init, closing
    <2> QED
      BY <2>3, <2>4 DEF Contract!Init
  <1>2. IInv /\ IInv' /\ [Next]_vars => [Contract!Next]_(Contract!vars)
    <2>1. UNCHANGED <<Phase, Work, closing>> => UNCHANGED Contract!vars
      BY DEF Contract!vars
    <2> QED
      BY <2>1, StepImplements
  <1> QED
    BY <1>1, <1>2, InvCorrect, PTL DEF Spec, Contract!Safe

=============================================================================
