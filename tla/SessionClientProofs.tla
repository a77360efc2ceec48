------------------------ MODULE SessionClientProofs ------------------------
(***************************************************************************)
(* Proofs about SessionClient: the books agree with the leases that exist  *)
(* (IInv), and client and server agree on the attachment (AttachInv).      *)
(***************************************************************************)
EXTENDS SessionClient, FiniteSetTheorems, SequenceTheorems, TLAPS

-----------------------------------------------------------------------------
(* The leases: the inductive invariant *)

JobType == [of : {"lease", "attach", "reconcile"}, lease : {0} \cup Leases, ok : BOOLEAN]
MessageType == [type : {"ok", "error", "event", "removed"}, request : Requests, snapshot : Snapshots]

AtMostOne(q, T) == \A i, k \in DOMAIN q : q[i] \in T /\ q[k] \in T => i = k
IsOf(j, l) == j.of = "lease" /\ j.lease = l
JobsOf(l) == {j \in JobType : IsOf(j, l)}
DetachAnswers == {m \in MessageType : m.type \in {"ok", "error"} /\ m.request = "detach"}

\* There are no more reservations than calls, no lease is of a generation yet
\* to come or was there before its call, and one that is resumed is a lease.
CountsInv ==
    /\ count <= used.leases
    /\ \A l \in Leases : lease[l].generation <= generation
    /\ \A l \in Leases : l > used.leases => lease[l].pc = "none"
    /\ \A j \in Range(jobs) : j.of = "lease" => j.lease \in Leases

\* The pending detach is that of the lease being released; it is on its way to
\* the server, or its one answer is on its way back, or that has settled it.
DetachInv ==
    /\ \A l \in Leases : lease[l].pc = "releasing" <=> detachment = l
    /\ AtMostOne(inbox, DetachAnswers)
    /\ Range(inbox) \cap DetachAnswers # {} => inflight["detach"] = "handled"
    /\ inflight["detach"] # "no" =>
         detachment # 0 /\ \A j \in Range(jobs) : ~ IsOf(j, detachment)

\* Whoever waits for a promise waits for one that is pending, or has a turn
\* coming; a pending promise has a request in flight, or its turn is coming.
HasJob(l) == \E j \in Range(jobs) : IsOf(j, l)
Pending(k) == inflight[k] # "no" \/ \E j \in Range(jobs) : j.of = k
WaitInv ==
    /\ \A l \in Leases :
         /\ lease[l].pc = "detachment" => detachment # 0 \/ HasJob(l)
         /\ lease[l].pc = "reconciliation" => reconciliation \/ HasJob(l)
         /\ lease[l].pc = "attachment" => attachment \/ HasJob(l)
    /\ detachment # 0 => inflight["detach"] # "no" \/ HasJob(detachment)
    /\ reconciliation => Pending("reconcile")
    /\ attachment => Pending("attach")
    /\ \A k \in Requests : inflight[k] # "no" => link = "connected"

\* While nothing was torn, a detach that succeeds is that of a lease of this
\* generation.
CurrentInv ==
    ~ torn =>
      /\ link = "connected" => \A l \in Leases :
           lease[l].pc = "releasing" => lease[l].generation = generation
      /\ \A j \in Range(jobs) : \A l \in Leases :
           IsOf(j, l) /\ j.ok /\ lease[l].pc = "releasing" => lease[l].generation = generation

\* The books are exact, or the connection was lost: then they are empty, and
\* the calls under way are all about to fail.
Exact ==
    /\ count = Cardinality(Reserved)
    /\ exclusive = 0 \/ Reserved = {exclusive}
    /\ \A l \in Reserved : mode[l] = "exclusive" => exclusive = l
Doomed ==
    /\ \A l \in Leases : lease[l].pc \in {"active", "releasing"} => lease[l].generation # generation
    /\ \A j \in Range(jobs) : j.of # "lease" => ~ j.ok
    /\ \A j \in Range(jobs) : \A l \in Leases :
         IsOf(j, l) /\ lease[l].pc \in {"reconciliation", "attachment"} => ~ j.ok
    /\ \A l \in Leases : lease[l].pc = "detachment" =>
         /\ AtMostOne(jobs, JobsOf(l))
         /\ detachment # 0 => ~ HasJob(l)
Emptied ==
    /\ link # "connected" /\ count = 0 /\ exclusive = 0 /\ ~ attached /\ ~ cleanup
    /\ Doomed
BooksInv == ~ torn => Exact \/ Emptied

IInv == TypeOK /\ CountsInv /\ DetachInv /\ WaitInv /\ CurrentInv /\ BooksInv

-----------------------------------------------------------------------------
(* Sequences as sets, and elements that occur once *)

\* What is in a sequence that grew.
LEMMA RangeAppend ==
    ASSUME NEW S, NEW s \in Seq(S), NEW x \in S
    PROVE  Append(s, x) \in Seq(S) /\ Range(Append(s, x)) = Range(s) \cup {x}
  <1>1. /\ Append(s, x) \in Seq(S) /\ Len(Append(s, x)) = Len(s) + 1 /\ Len(s) \in Nat
        /\ Append(s, x)[Len(s) + 1] = x
        /\ \A i \in 1..Len(s) : Append(s, x)[i] = s[i]
    OBVIOUS
  <1>2. DOMAIN s = 1..Len(s) /\ DOMAIN Append(s, x) = 1..(Len(s) + 1)
    BY <1>1
  <1>3. \A i : i \in 1..(Len(s) + 1) <=> i \in 1..Len(s) \/ i = Len(s) + 1
    BY <1>1
  <1> QED
    BY <1>1, <1>2, <1>3 DEF Range

\* What is in two sequences.
LEMMA RangeConcat ==
    ASSUME NEW S, NEW s \in Seq(S), NEW t \in Seq(S)
    PROVE  s \o t \in Seq(S) /\ Range(s \o t) = Range(s) \cup Range(t)
  <1>1. PICK u : u = s \o t
    OBVIOUS
  <1>2. /\ u \in Seq(S) /\ Len(u) = Len(s) + Len(t) /\ Len(s) \in Nat /\ Len(t) \in Nat
        /\ \A i \in 1..(Len(s) + Len(t)) : u[i] = IF i <= Len(s) THEN s[i] ELSE t[i - Len(s)]
    BY <1>1, ConcatProperties
  <1>3. DOMAIN s = 1..Len(s) /\ DOMAIN t = 1..Len(t) /\ DOMAIN u = 1..(Len(s) + Len(t))
    BY <1>2
  <1>4. ASSUME NEW i \in 1..(Len(s) + Len(t)) PROVE u[i] \in Range(s) \cup Range(t)
    <2>1. i <= Len(s) => i \in 1..Len(s)
      BY <1>2
    <2>2. ~ (i <= Len(s)) => i - Len(s) \in 1..Len(t)
      BY <1>2
    <2> QED
      BY <1>2, <1>3, <2>1, <2>2 DEF Range
  <1>5. ASSUME NEW i \in 1..Len(s) PROVE s[i] \in Range(u)
    <2>1. i \in 1..(Len(s) + Len(t)) /\ i <= Len(s)
      BY <1>2
    <2> QED
      BY <1>2, <1>3, <2>1 DEF Range
  <1>6. ASSUME NEW i \in 1..Len(t) PROVE t[i] \in Range(u)
    <2>1. PICK k : k = i + Len(s)
      OBVIOUS
    <2>2. k \in 1..(Len(s) + Len(t)) /\ ~ (k <= Len(s)) /\ k - Len(s) = i
      BY <1>2, <2>1
    <2> QED
      BY <1>2, <1>3, <2>2 DEF Range
  <1>7. Range(u) = Range(s) \cup Range(t)
    BY <1>3, <1>4, <1>5, <1>6 DEF Range
  <1> QED
    BY <1>1, <1>2, <1>7

\* The first one and the others.
LEMMA RangeTail ==
    ASSUME NEW S, NEW s \in Seq(S), s # <<>>
    PROVE  Head(s) \in S /\ Tail(s) \in Seq(S) /\ Range(s) = {Head(s)} \cup Range(Tail(s))
  <1>1. PICK t : t = Tail(s)
    OBVIOUS
  <1>2. /\ Head(s) \in S /\ t \in Seq(S) /\ Len(t) = Len(s) - 1 /\ Len(s) \in Nat \ {0} /\ Head(s) = s[1]
        /\ \A i \in 1..Len(t) : t[i] = s[i + 1]
    BY <1>1, HeadTailProperties, EmptySeq
  <1>3. DOMAIN s = 1..Len(s) /\ DOMAIN t = 1..(Len(s) - 1)
    BY <1>2
  <1>4. ASSUME NEW i \in 1..Len(s) PROVE s[i] \in {Head(s)} \cup Range(t)
    <2>1. CASE i = 1
      BY <1>2, <2>1
    <2>2. CASE i # 1
      <3>1. i - 1 \in 1..(Len(s) - 1) /\ (i - 1) + 1 = i
        BY <1>2, <2>2
      <3> QED
        BY <1>2, <1>3, <3>1 DEF Range
    <2> QED
      BY <2>1, <2>2
  <1>5. ASSUME NEW i \in 1..(Len(s) - 1) PROVE t[i] \in Range(s)
    <2>1. i + 1 \in 1..Len(s)
      BY <1>2
    <2> QED
      BY <1>2, <1>3, <2>1 DEF Range
  <1>6. Head(s) \in Range(s)
    <2>1. 1 \in 1..Len(s)
      BY <1>2
    <2> QED
      BY <1>2, <1>3, <2>1 DEF Range
  <1>7. Range(s) = {Head(s)} \cup Range(t)
    BY <1>3, <1>4, <1>5, <1>6 DEF Range
  <1> QED
    BY <1>1, <1>2, <1>7

\* An element that occurs once is gone when it was the first, and still occurs
\* once when it was not.
LEMMA OnceTail ==
    ASSUME NEW S, NEW s \in Seq(S), s # <<>>, NEW T, AtMostOne(s, T)
    PROVE  AtMostOne(Tail(s), T) /\ (Head(s) \in T => Range(Tail(s)) \cap T = {})
  <1>1. PICK t : t = Tail(s)
    OBVIOUS
  <1>2. /\ t \in Seq(S) /\ Len(t) = Len(s) - 1 /\ Len(s) \in Nat \ {0} /\ Head(s) = s[1]
        /\ \A i \in 1..Len(t) : t[i] = s[i + 1]
    BY <1>1, HeadTailProperties, EmptySeq
  <1>3. DOMAIN s = 1..Len(s) /\ DOMAIN t = 1..(Len(s) - 1)
    BY <1>2
  <1>4. \A i \in 1..(Len(s) - 1) : i + 1 \in 1..Len(s) /\ t[i] = s[i + 1] /\ i + 1 # 1
    BY <1>2
  <1>5. 1 \in 1..Len(s)
    BY <1>2
  <1>6. AtMostOne(t, T)
    <2> SUFFICES ASSUME NEW i \in 1..(Len(s) - 1), NEW k \in 1..(Len(s) - 1), t[i] \in T, t[k] \in T
                 PROVE  i = k
      BY <1>3 DEF AtMostOne
    <2>1. i + 1 = k + 1
      BY <1>3, <1>4 DEF AtMostOne
    <2> QED
      BY <2>1, <1>2
  <1>7. Head(s) \in T => Range(t) \cap T = {}
    BY <1>2, <1>3, <1>4, <1>5 DEF AtMostOne, Range
  <1> QED
    BY <1>1, <1>6, <1>7

\* What occurs once in a sequence occurs once in that sequence followed by one
\* without it, and the other way round.
LEMMA OnceConcat ==
    ASSUME NEW S, NEW s \in Seq(S), NEW t \in Seq(S), NEW T
    PROVE  /\ AtMostOne(s, T) /\ Range(t) \cap T = {} => AtMostOne(s \o t, T)
           /\ AtMostOne(t, T) /\ Range(s) \cap T = {} => AtMostOne(s \o t, T)
  <1>1. PICK u : u = s \o t
    OBVIOUS
  <1>2. /\ u \in Seq(S) /\ Len(u) = Len(s) + Len(t) /\ Len(s) \in Nat /\ Len(t) \in Nat
        /\ \A i \in 1..(Len(s) + Len(t)) : u[i] = IF i <= Len(s) THEN s[i] ELSE t[i - Len(s)]
    BY <1>1, ConcatProperties
  <1>3. DOMAIN s = 1..Len(s) /\ DOMAIN t = 1..Len(t) /\ DOMAIN u = 1..(Len(s) + Len(t))
    BY <1>2
  <1>4. ASSUME NEW i \in DOMAIN u, u[i] \in T
        PROVE  \/ i \in 1..Len(s) /\ s[i] \in T
               \/ i - Len(s) \in 1..Len(t) /\ t[i - Len(s)] \in T /\ i \in Int
    <2>1. i <= Len(s) => i \in 1..Len(s)
      BY <1>2, <1>3
    <2>2. ~ (i <= Len(s)) => i - Len(s) \in 1..Len(t) /\ i \in Int
      BY <1>2, <1>3
    <2> QED
      BY <1>2, <1>3, <1>4, <2>1, <2>2
  <1>5. ASSUME AtMostOne(s, T), Range(t) \cap T = {} PROVE AtMostOne(u, T)
    BY <1>3, <1>4, <1>5 DEF AtMostOne, Range
  <1>6. ASSUME AtMostOne(t, T), Range(s) \cap T = {} PROVE AtMostOne(u, T)
    <2> SUFFICES ASSUME NEW i \in DOMAIN u, NEW k \in DOMAIN u, u[i] \in T, u[k] \in T PROVE i = k
      BY DEF AtMostOne
    <2>1. \A j \in 1..Len(s) : s[j] \notin T
      BY <1>3, <1>6 DEF Range
    <2>2. /\ i - Len(s) \in 1..Len(t) /\ t[i - Len(s)] \in T /\ i \in Int
          /\ k - Len(s) \in 1..Len(t) /\ t[k - Len(s)] \in T /\ k \in Int
      BY <1>4, <2>1
    <2>3. i - Len(s) = k - Len(s)
      BY <1>3, <1>6, <2>2 DEF AtMostOne
    <2> QED
      BY <1>2, <2>2, <2>3
  <1> QED
    BY <1>1, <1>5, <1>6

\* The same for one more element.
LEMMA OnceAppend ==
    ASSUME NEW S, NEW s \in Seq(S), NEW x \in S, NEW T
    PROVE  /\ AtMostOne(s, T) /\ x \notin T => AtMostOne(Append(s, x), T)
           /\ Range(s) \cap T = {} => AtMostOne(Append(s, x), T)
  <1>1. PICK t : t = <<x>>
    OBVIOUS
  <1>2. t \in Seq(S) /\ DOMAIN t = {1} /\ t[1] = x
    BY <1>1
  <1>3. Append(s, x) = s \o t
    BY <1>1
  <1>4. Range(t) = {x} /\ AtMostOne(t, T)
    BY <1>2 DEF Range, AtMostOne
  <1> QED
    BY <1>2, <1>3, <1>4, OnceConcat

-----------------------------------------------------------------------------
(* Those that wait *)

\* The leases of a set in order are the leases of that set, each once.
LEMMA OrderedIs ==
    ASSUME NEW S \in SUBSET Leases
    PROVE  /\ IsFiniteSet(S) /\ Cardinality(S) \in Nat
           /\ DOMAIN Ordered(S) = 1..Cardinality(S)
           /\ \A i \in 1..Cardinality(S) : Ordered(S)[i] \in S
           /\ \A l \in S : \E i \in 1..Cardinality(S) : Ordered(S)[i] = l
           /\ \A i, k \in 1..Cardinality(S) : Ordered(S)[i] = Ordered(S)[k] => i = k
  <1>1. IsFiniteSet(Leases) /\ Leases \subseteq Nat
    BY BoundsAssumption, FS_Interval DEF Leases
  <1>2. IsFiniteSet(S) /\ Cardinality(S) \in Nat
    BY <1>1, FS_Subset, FS_CardinalityType
  <1>3. ASSUME NEW l \in S PROVE Rank(S, l) \in 1..Cardinality(S)
    <2>1. PICK U : U = {k \in S : k <= l}
      OBVIOUS
    <2>2. U \in SUBSET S /\ l \in U
      BY <1>1, <2>1
    <2>3. IsFiniteSet(U) /\ Cardinality(U) <= Cardinality(S) /\ Cardinality(U) \in Nat
      BY <1>2, <2>2, FS_Subset, FS_CardinalityType
    <2>4. Cardinality(U) # 0
      BY <2>2, <2>3, FS_EmptySet
    <2> QED
      BY <1>2, <2>1, <2>3, <2>4 DEF Rank
  <1>4. ASSUME NEW l \in S, NEW m \in S, l < m PROVE Rank(S, l) # Rank(S, m)
    <2>1. PICK U, V : U = {k \in S : k <= l} /\ V = {k \in S : k <= m}
      OBVIOUS
    <2>0. (\A k \in S : k <= l => k <= m) /\ m <= m /\ ~ (m <= l)
      <3>1. l \in Nat /\ m \in Nat /\ S \subseteq Nat
        BY <1>1
      <3> QED
        BY <1>4, <3>1
    <2>2. U \in SUBSET V /\ m \in V /\ m \notin U /\ V \in SUBSET S
      BY <2>0, <2>1
    <2>3. IsFiniteSet(V)
      BY <1>2, <2>2, FS_Subset
    <2>4. Cardinality(V) = Cardinality(U) => V = U
      BY <2>2, <2>3, FS_Subset
    <2> QED
      BY <2>1, <2>2, <2>4 DEF Rank
  <1>5. \A l, m \in S : Rank(S, l) = Rank(S, m) => l = m
    <2> SUFFICES ASSUME NEW l \in S, NEW m \in S, Rank(S, l) = Rank(S, m) PROVE l = m
      OBVIOUS
    <2>1. l < m \/ m < l \/ l = m
      BY <1>1
    <2> QED
      BY <1>4, <2>1
  <1>6. PICK f : f = [l \in S |-> Rank(S, l)]
    OBVIOUS
  <1>7. f \in Injection(S, 1..Cardinality(S))
    BY <1>3, <1>5, <1>6 DEF Injection, IsInjective
  <1>8. IsFiniteSet(1..Cardinality(S)) /\ Cardinality(1..Cardinality(S)) = Cardinality(S)
    BY <1>2, FS_Interval
  <1>9. f \in Surjection(S, 1..Cardinality(S))
    BY <1>7, <1>8, FS_Injection
  <1>10. \A i \in 1..Cardinality(S) : \E l \in S : Rank(S, l) = i
    BY <1>6, <1>9 DEF Surjection
  <1>11. DOMAIN Ordered(S) = 1..Cardinality(S)
    BY DEF Ordered
  <1>12. \A i \in 1..Cardinality(S) : Ordered(S)[i] \in S /\ Rank(S, Ordered(S)[i]) = i
    BY <1>10 DEF Ordered
  <1>13. ASSUME NEW l \in S PROVE \E i \in 1..Cardinality(S) : Ordered(S)[i] = l
    BY <1>3, <1>5, <1>12
  <1> QED
    BY <1>2, <1>11, <1>12, <1>13, Zenon

\* The leases that await a promise each get a turn when it settles.
LEMMA WokenIs ==
    ASSUME NEW pc, NEW ok \in BOOLEAN
    PROVE  /\ Woken(pc, ok) \in Seq(JobType)
           /\ Range(Woken(pc, ok)) = {Job("lease", l, ok) : l \in Waiting(pc)}
           /\ \A l : AtMostOne(Woken(pc, ok), JobsOf(l))
  <1>1. PICK S : S = Waiting(pc)
    OBVIOUS
  <1>2. S \in SUBSET Leases
    BY <1>1 DEF Waiting
  <1>3. PICK o, n : o = Ordered(S) /\ n = Cardinality(S)
    OBVIOUS
  <1>4. /\ n \in Nat /\ DOMAIN o = 1..n
        /\ \A i \in 1..n : o[i] \in S
        /\ \A l \in S : \E i \in 1..n : o[i] = l
        /\ \A i, k \in 1..n : o[i] = o[k] => i = k
    BY <1>2, <1>3, OrderedIs
  <1>5. PICK w : w = Woken(pc, ok)
    OBVIOUS
  <1>6. w = [i \in 1..n |-> Job("lease", o[i], ok)]
    BY <1>1, <1>3, <1>4, <1>5 DEF Woken
  <1>7. \A l \in Leases : Job("lease", l, ok) \in JobType /\ Job("lease", l, ok).lease = l
    BY DEF Job, JobType
  <1>8. \A i \in 1..n : w[i] = Job("lease", o[i], ok) /\ w[i] \in JobType /\ w[i].lease = o[i]
    BY <1>2, <1>4, <1>6, <1>7
  <1>9. w \in Seq(JobType) /\ DOMAIN w = 1..n
    BY <1>4, <1>6, <1>8
  <1>10. Range(w) = {Job("lease", l, ok) : l \in S}
    BY <1>4, <1>8, <1>9 DEF Range
  <1>11. ASSUME NEW l PROVE AtMostOne(w, JobsOf(l))
    BY <1>4, <1>8, <1>9 DEF AtMostOne, JobsOf, IsOf
  <1> QED
    BY <1>1, <1>5, <1>9, <1>10, <1>11

-----------------------------------------------------------------------------
(* acquireSession() goes on *)

LeaseType == [Leases -> [pc : Labels, generation : Nat, hard : BOOLEAN]]
InflightType == [Requests -> {"no", "sent", "handled"}]

\* The jobs that a settled request resumes.
LEMMA SettlesIs ==
    ASSUME TypeOK, NEW ok \in BOOLEAN
    PROVE  /\ \A k \in Requests : Settles(k, ok) \in JobType /\ Settles(k, ok).ok = ok
           /\ \A k \in {"attach", "reconcile"} : Settles(k, ok) = Job(k, 0, ok) /\ Settles(k, ok).of = k
           /\ Settles("detach", ok) = Job("lease", detachment, ok)
           /\ IsOf(Settles("detach", ok), detachment)
  BY DEF Settles, Job, JobType, TypeOK, Requests, IsOf

\* A request is sent, or its promise is rejected.
LEMMA SendIs ==
    ASSUME TypeOK, NEW k \in Requests, NEW rest \in Seq(JobType), Send(k, rest)
    PROVE  /\ jobs' \in Seq(JobType) /\ inflight' \in InflightType
           /\ Range(rest) \subseteq Range(jobs')
           /\ \A j \in Range(jobs') \ Range(rest) : j = Settles(k, FALSE)
           /\ inflight'[k] # "no" \/ Settles(k, FALSE) \in Range(jobs')
           /\ \A r \in Requests \ {k} : inflight'[r] = inflight[r]
           /\ \A r \in Requests : inflight'[r] # "no" => inflight[r] # "no" \/ link = "connected"
           /\ inflight[k] # "no" => inflight'[k] # "no"
           /\ link = "connected" => jobs' = rest
           /\ jobs' = rest \/ jobs' = Append(rest, Settles(k, FALSE))
  <1>1. Settles(k, FALSE) \in JobType
    BY SettlesIs
  <1>2. inflight \in InflightType
    BY DEF TypeOK, InflightType
  <1>3. CASE link = "connected"
    <2>1. inflight' = [inflight EXCEPT ![k] = "sent"] /\ jobs' = rest
      BY <1>3 DEF Send
    <2> QED
      BY <1>2, <1>3, <2>1 DEF InflightType
  <1>4. CASE link # "connected"
    <2>1. jobs' = Append(rest, Settles(k, FALSE)) /\ inflight' = inflight
      BY <1>4 DEF Send
    <2>2. PICK x \in JobType : x = Settles(k, FALSE)
      BY <1>1
    <2>3. Append(rest, x) \in Seq(JobType) /\ Range(Append(rest, x)) = Range(rest) \cup {x}
      BY <2>2, RangeAppend
    <2> QED
      BY <1>2, <1>4, <2>1, <2>2, <2>3
  <1> QED
    BY <1>3, <1>4

\* What becomes of a lease whose turn it is: it waits for another promise, or
\* it is active.
Joins(l) ==
    /\ lease' \in LeaseType /\ \A k \in Leases \ {l} : lease'[k] = lease[k]
    /\ lease'[l].pc \in {"reconciliation", "attachment", "active"}
    /\ lease'[l].pc = "active" => lease'[l].generation = generation
    /\ lease'[l].pc # "active" => lease'[l].generation = lease[l].generation
    /\ lease'[l].pc = "reconciliation" => reconciliation' /\ cleanup
    /\ lease'[l].pc = "attachment" => attachment'
Asks ==
    /\ detachment' = detachment /\ inflight'["detach"] = inflight["detach"]
    /\ reconciliation' \in BOOLEAN /\ (reconciliation => reconciliation')
    /\ attachment' \in BOOLEAN /\ (attachment => attachment')
    /\ reconciliation' => reconciliation \/ Pending("reconcile")'
    /\ attachment' => attachment \/ Pending("attach")'
    /\ inflight' \in InflightType
    /\ \A k \in Requests : inflight[k] # "no" => inflight'[k] # "no"
    /\ \A k \in Requests : inflight'[k] # "no" => inflight[k] # "no" \/ link = "connected"
Queues(rest) ==
    /\ jobs' \in Seq(JobType) /\ Range(rest) \subseteq Range(jobs')
    /\ \A j \in Range(jobs') \ Range(rest) : j.of # "lease" /\ ~ j.ok
    /\ \A m \in Leases : AtMostOne(rest, JobsOf(m)) => AtMostOne(jobs', JobsOf(m))
Goes(l, rest) ==
    /\ Joins(l) /\ Asks /\ Queues(rest)
    /\ attached' = attached /\ snapshot' \in Snapshots /\ previous' \in Snapshots

\* No job, or a rejection, joins the others.
LEMMA QueuesIs ==
    ASSUME TypeOK, NEW k \in {"attach", "reconcile"}, NEW rest \in Seq(JobType),
           jobs' = rest \/ jobs' = Append(rest, Settles(k, FALSE))
    PROVE  Queues(rest)
  <1>1. CASE jobs' = rest
    BY <1>1 DEF Queues
  <1>2. CASE jobs' = Append(rest, Settles(k, FALSE))
    <2>1. PICK x : x = Settles(k, FALSE)
      OBVIOUS
    <2>2. x \in JobType /\ x.of # "lease" /\ ~ x.ok
      BY <2>1, SettlesIs DEF Requests
    <2>3. Append(rest, x) \in Seq(JobType) /\ Range(Append(rest, x)) = Range(rest) \cup {x}
      BY <2>2, RangeAppend
    <2>4. \A m \in Leases : x \notin JobsOf(m)
      BY <2>2 DEF JobsOf, IsOf
    <2>5. \A m \in Leases : AtMostOne(rest, JobsOf(m)) => AtMostOne(Append(rest, x), JobsOf(m))
      BY <2>2, <2>4, OnceAppend
    <2> QED
      BY <1>2, <2>1, <2>2, <2>3, <2>5 DEF Queues
  <1> QED
    BY <1>1, <1>2

\* A request that is sent, or rejected, is pending.
LEMMA SendAsks ==
    ASSUME TypeOK, NEW k \in {"attach", "reconcile"}, NEW rest \in Seq(JobType), Send(k, rest)
    PROVE  /\ Pending(k)' /\ Queues(rest) /\ inflight' \in InflightType
           /\ inflight'["detach"] = inflight["detach"]
           /\ \A r \in Requests : inflight[r] # "no" => inflight'[r] # "no"
           /\ \A r \in Requests : inflight'[r] # "no" => inflight[r] # "no" \/ link = "connected"
  <1>1. k \in Requests /\ "detach" \in Requests \ {k}
    BY DEF Requests
  <1>2. Settles(k, FALSE).of = k
    BY SettlesIs
  <1>3. Pending(k)'
    BY <1>1, <1>2, SendIs DEF Pending
  <1>4. Queues(rest)
    <2>1. jobs' = rest \/ jobs' = Append(rest, Settles(k, FALSE))
      BY <1>1, SendIs
    <2> QED
      BY <2>1, QueuesIs
  <1> QED
    BY <1>1, <1>3, <1>4, SendIs

\* #attachSession(), or the pending attach.
LEMMA AttachGoes ==
    ASSUME TypeOK, NEW l \in Leases, NEW rest \in Seq(JobType), Attach(l, rest)
    PROVE  Goes(l, rest)
  <1>1. lease \in LeaseType /\ inflight \in InflightType
    BY DEF TypeOK, LeaseType, InflightType
  <1>2. /\ lease' = [lease EXCEPT ![l].pc = "attachment"] /\ attachment' = TRUE
        /\ UNCHANGED <<attached, detachment, reconciliation>>
    BY DEF Attach
  <1>3. Joins(l)
    BY <1>1, <1>2 DEF Joins, LeaseType, Labels
  <1>4. CASE attachment
    <2>1. jobs' = rest /\ UNCHANGED <<inflight, snapshot, previous>>
      BY <1>4 DEF Attach
    <2>2. Queues(rest)
      BY <2>1, QueuesIs
    <2>3. Asks
      BY <1>1, <1>2, <1>4, <2>1 DEF Asks, TypeOK
    <2> QED
      BY <1>2, <1>3, <2>1, <2>2, <2>3 DEF Goes, TypeOK
  <1>5. CASE ~ attachment
    <2>1. previous' = snapshot /\ snapshot' = Forgotten /\ Send("attach", rest)
      BY <1>5 DEF Attach
    <2>2. snapshot' \in Snapshots /\ previous' \in Snapshots
      BY <2>1 DEF Forgotten, NoSnapshot, Snapshots, TypeOK
    <2>3. /\ Pending("attach")' /\ Queues(rest) /\ inflight' \in InflightType
          /\ inflight'["detach"] = inflight["detach"]
          /\ \A r \in Requests : inflight[r] # "no" => inflight'[r] # "no"
          /\ \A r \in Requests : inflight'[r] # "no" => inflight[r] # "no" \/ link = "connected"
      BY <2>1, SendAsks
    <2>4. Asks
      BY <1>2, <2>3 DEF Asks, TypeOK
    <2> QED
      BY <1>2, <1>3, <2>2, <2>3, <2>4 DEF Goes
  <1> QED
    BY <1>4, <1>5

\* After the pending detach: clean up, attach, or take the lease.
LEMMA AfterDetachmentGoes ==
    ASSUME TypeOK, NEW l \in Leases, NEW rest \in Seq(JobType), AfterDetachment(l, rest)
    PROVE  Goes(l, rest) /\ (lease'[l].pc = "active" => attached)
  <1>1. lease \in LeaseType /\ inflight \in InflightType
    BY DEF TypeOK, LeaseType, InflightType
  <1>2. CASE cleanup
    <2>1. /\ Goto(l, "reconciliation") /\ reconciliation' = TRUE
          /\ UNCHANGED <<attached, snapshot, previous, detachment, attachment>>
          /\ IF reconciliation THEN jobs' = rest /\ UNCHANGED inflight ELSE Send("reconcile", rest)
      BY <1>2 DEF AfterDetachment, state
    <2>2. Joins(l)
      BY <1>1, <1>2, <2>1 DEF Joins, Goto, LeaseType, Labels
    <2>3. lease'[l].pc = "reconciliation"
      BY <1>1, <2>1 DEF Goto, LeaseType
    <2>4. Asks /\ Queues(rest)
      <3>1. CASE reconciliation
        <4>1. Queues(rest)
          BY <2>1, <3>1, QueuesIs
        <4>2. Asks
          BY <1>1, <2>1, <3>1 DEF Asks, TypeOK
        <4> QED
          BY <4>1, <4>2
      <3>2. CASE ~ reconciliation
        <4>1. /\ Pending("reconcile")' /\ Queues(rest) /\ inflight' \in InflightType
              /\ inflight'["detach"] = inflight["detach"]
              /\ \A r \in Requests : inflight[r] # "no" => inflight'[r] # "no"
              /\ \A r \in Requests : inflight'[r] # "no" => inflight[r] # "no" \/ link = "connected"
          BY <2>1, <3>2, SendAsks
        <4> QED
          BY <2>1, <4>1 DEF Asks, TypeOK
      <3> QED
        BY <3>1, <3>2
    <2> QED
      BY <2>1, <2>2, <2>3, <2>4 DEF Goes, TypeOK
  <1>3. CASE ~ cleanup /\ ~ attached
    <2>1. Attach(l, rest)
      BY <1>3 DEF AfterDetachment
    <2>2. lease'[l].pc = "attachment"
      BY <1>1, <2>1 DEF Attach, LeaseType
    <2> QED
      BY <2>1, <2>2, AttachGoes
  <1>4. CASE ~ cleanup /\ attached
    <2>1. /\ lease' = [lease EXCEPT ![l].pc = "active", ![l].generation = generation]
          /\ jobs' = rest
          /\ UNCHANGED <<attached, snapshot, previous, inflight, detachment, attachment, reconciliation>>
      BY <1>4 DEF AfterDetachment, state, promises
    <2>2. Joins(l)
      BY <1>1, <2>1 DEF Joins, LeaseType, Labels, TypeOK
    <2>3. Queues(rest)
      BY <2>1, QueuesIs
    <2>4. Asks
      BY <1>1, <2>1 DEF Asks, TypeOK
    <2> QED
      BY <1>4, <2>1, <2>2, <2>3, <2>4 DEF Goes, TypeOK
  <1> QED
    BY <1>2, <1>3, <1>4 DEF TypeOK

-----------------------------------------------------------------------------
(* The books *)

\* Steps that leave the reservations alone, make one, or give one up.
LEMMA SameReservations ==
    ASSUME Exact, Reserved' = Reserved, UNCHANGED <<count, exclusive>>, \A l \in Reserved : mode'[l] = mode[l]
    PROVE  Exact'
  BY DEF Exact

\* The leases that exist are finitely many.
LEMMA ReservedFinite == IsFiniteSet(Reserved) /\ Cardinality(Reserved) \in Nat
  <1>1. IsFiniteSet(Leases)
    BY BoundsAssumption, FS_Interval DEF Leases
  <1>2. Reserved \in SUBSET Leases
    BY DEF Reserved
  <1> QED
    BY <1>1, <1>2, FS_Subset, FS_CardinalityType

\* reserveSessionLease
LEMMA MoreReservations ==
    ASSUME TypeOK, Exact, NEW l \in Leases, NEW m \in {"shared", "exclusive"}, reserveSessionLease(l, m),
           l \notin Reserved, Reserved' = Reserved \cup {l}, mode' = [mode EXCEPT ![l] = m]
    PROVE  Exact'
  <1>1. IsFiniteSet(Reserved) /\ Cardinality(Reserved) \in Nat
    BY ReservedFinite
  <1>2. Cardinality(Reserved') = Cardinality(Reserved) + 1
    BY <1>1, FS_AddElement
  <1>3. count' = Cardinality(Reserved')
    BY <1>2 DEF Exact, reserveSessionLease
  <1>4. mode'[l] = m /\ \A k \in Reserved : mode'[k] = mode[k]
    BY DEF TypeOK, Reserved
  <1>5. CASE m = "exclusive"
    <2>1. count = 0 /\ exclusive' = l
      BY <1>5 DEF reserveSessionLease
    <2>2. Reserved = {}
      BY <1>1, <2>1, FS_EmptySet DEF Exact
    <2> QED
      BY <1>3, <2>1, <2>2 DEF Exact
  <1>6. CASE m = "shared"
    <2>1. exclusive = 0 /\ exclusive' = 0
      BY <1>6 DEF reserveSessionLease
    <2>2. \A k \in Reserved : k \in Leases /\ k # 0
      BY BoundsAssumption DEF Reserved, Leases
    <2>3. \A k \in Reserved : mode[k] # "exclusive"
      BY <2>1, <2>2 DEF Exact
    <2> QED
      BY <1>3, <1>4, <1>6, <2>1, <2>3 DEF Exact
  <1> QED
    BY <1>5, <1>6

\* releaseSessionLease
LEMMA FewerReservations ==
    ASSUME Exact, NEW l \in Reserved, releaseSessionLease(l), Reserved' = Reserved \ {l}, UNCHANGED mode
    PROVE  Exact'
  <1>1. IsFiniteSet(Reserved) /\ Cardinality(Reserved) \in Nat
    BY ReservedFinite
  <1>2. Cardinality(Reserved') = Cardinality(Reserved) - 1
    BY <1>1, FS_RemoveElement
  <1>3. Cardinality(Reserved) # 0
    BY <1>1, FS_EmptySet
  <1>4. count' = Cardinality(Reserved')
    BY <1>1, <1>2, <1>3 DEF Exact, releaseSessionLease
  <1>5. exclusive' = 0
    BY DEF Exact, releaseSessionLease
  <1>6. \A k \in Reserved' : mode'[k] # "exclusive"
    <2>1. \A k \in Reserved : k # 0
      BY BoundsAssumption DEF Reserved, Leases
    <2> QED
      BY <2>1 DEF Exact
  <1> QED
    BY <1>4, <1>5, <1>6 DEF Exact

\* Without a connection and without a turn to come, no call is under way.
LEMMA IdleSettled ==
    ASSUME TypeOK, WaitInv, jobs = <<>>, link # "connected"
    PROVE  \A l \in Leases : lease[l].pc \notin Acquiring
  <1>1. Range(jobs) = {}
    BY DEF Range
  <1>2. \A k \in Requests : inflight[k] = "no"
    BY DEF WaitInv
  <1>3. detachment = 0 /\ ~ reconciliation /\ ~ attachment
    BY <1>1, <1>2 DEF WaitInv, Pending, HasJob, Requests, TypeOK
  <1> QED
    BY <1>1, <1>3 DEF WaitInv, HasJob, Acquiring, TypeOK

\* Between two calls the books are exact.
LEMMA IdleExact == ASSUME IInv, ~ torn, jobs = <<>> PROVE Exact
  <1>1. CASE Emptied
    <2>1. \A l \in Leases : lease[l].pc \notin Acquiring
      BY <1>1, IdleSettled DEF IInv, Emptied
    <2>2. Reserved = {}
      BY <1>1, <2>1 DEF Reserved, Emptied, Doomed
    <2> QED
      BY <1>1, <2>2, FS_EmptySet DEF Exact, Emptied
  <1> QED
    BY <1>1 DEF IInv, BooksInv

-----------------------------------------------------------------------------
(* Turns *)

\* The jobs that are left when a lease has had its turn, or before it has one.
Turn(l, rest) ==
    /\ rest \in Seq(JobType) /\ Range(rest) \subseteq Range(jobs)
    /\ \A j \in Range(jobs) \ Range(rest) : IsOf(j, l)
    /\ \A m \in Leases : AtMostOne(jobs, JobsOf(m)) => AtMostOne(rest, JobsOf(m))
    /\ lease[l].pc \in Acquiring => (AtMostOne(jobs, JobsOf(l)) => \A j \in Range(rest) : ~ IsOf(j, l))

\* The first of the jobs is a lease's.
LEMMA HeadTurn ==
    ASSUME TypeOK, jobs # <<>>, NEW l, IsOf(Head(jobs), l)
    PROVE  Turn(l, Tail(jobs))
  <1>1. jobs \in Seq(JobType)
    BY DEF TypeOK, JobType
  <1>2. Head(jobs) \in JobType /\ Tail(jobs) \in Seq(JobType) /\ Range(jobs) = {Head(jobs)} \cup Range(Tail(jobs))
    BY <1>1, RangeTail
  <1>3. \A m \in Leases : AtMostOne(jobs, JobsOf(m)) => AtMostOne(Tail(jobs), JobsOf(m))
    BY <1>1, OnceTail
  <1>4. ASSUME AtMostOne(jobs, JobsOf(l)), NEW j \in Range(Tail(jobs)) PROVE ~ IsOf(j, l)
    <2>1. Head(jobs) \in JobsOf(l)
      BY <1>2 DEF JobsOf
    <2>2. Range(Tail(jobs)) \cap JobsOf(l) = {}
      BY <1>1, <1>4, <2>1, OnceTail
    <2>3. j \in JobType
      <3>1. \A i \in 1..Len(Tail(jobs)) : Tail(jobs)[i] \in JobType
        BY <1>2
      <3> QED
        BY <1>2, <1>4, <3>1 DEF Range
    <2> QED
      BY <1>4, <2>2, <2>3 DEF JobsOf
  <1> QED
    BY <1>2, <1>3, <1>4 DEF Turn

\* A lease that goes on leaves the promises and the other leases as they were.
LEMMA GoesKeeps ==
    ASSUME IInv, NEW l \in Leases, NEW rest, Turn(l, rest), Goes(l, rest),
           lease[l].pc \notin {"active", "releasing"}, UNCHANGED <<link, generation, inbox, torn>>
    PROVE  /\ DetachInv' /\ WaitInv' /\ CurrentInv'
           /\ \A k \in Leases : lease'[k].generation <= generation'
           /\ \A j \in Range(jobs') : j.of = "lease" => j.lease \in Leases
  <1>1. /\ Joins(l) /\ Asks /\ Queues(rest)
    BY DEF Goes
  <1>2. \A j \in Range(jobs') : j.of = "lease" => j \in Range(jobs)
    BY <1>1 DEF Queues, Turn
  <1>3. \A j \in Range(jobs) : j \in Range(jobs') \/ IsOf(j, l)
    BY <1>1 DEF Queues, Turn
  <1>4. \A k \in Leases : k # l => lease'[k] = lease[k]
    BY <1>1 DEF Joins
  <1>5. detachment' = detachment /\ detachment # l /\ lease'[l].pc # "releasing"
    BY <1>1 DEF Asks, Joins, IInv, DetachInv
  <1>6. \A k \in Leases : k # l => (HasJob(k) => HasJob(k)')
    BY <1>3 DEF HasJob, IsOf
  <1>7. DetachInv'
    <2>1. \A k \in Leases : lease'[k].pc = "releasing" <=> detachment' = k
      BY <1>4, <1>5 DEF IInv, DetachInv
    <2>2. inflight'["detach"] = inflight["detach"]
      BY <1>1 DEF Asks
    <2>3. \A j \in Range(jobs') : IsOf(j, detachment) => j \in Range(jobs)
      BY <1>2 DEF IsOf
    <2> QED
      BY <1>5, <2>1, <2>2, <2>3 DEF IInv, DetachInv
  <1>8. WaitInv'
    <2>1. ASSUME NEW k \in Leases
          PROVE  /\ lease'[k].pc = "detachment" => detachment' # 0 \/ HasJob(k)'
                 /\ lease'[k].pc = "reconciliation" => reconciliation' \/ HasJob(k)'
                 /\ lease'[k].pc = "attachment" => attachment' \/ HasJob(k)'
      <3>1. CASE k = l
        BY <1>1, <3>1 DEF Joins
      <3>2. CASE k # l
        BY <1>1, <1>4, <1>5, <1>6, <3>2 DEF IInv, WaitInv, Asks
      <3> QED
        BY <3>1, <3>2
    <2>2. detachment' # 0 => inflight'["detach"] # "no" \/ HasJob(detachment)'
      <3>1. detachment # 0 => detachment \in Leases
        BY DEF IInv, TypeOK
      <3>2. HasJob(detachment)' <=> \E j \in Range(jobs') : IsOf(j, detachment)
        BY <1>5 DEF HasJob
      <3> QED
        BY <1>1, <1>3, <1>5, <3>1, <3>2 DEF IInv, WaitInv, Asks, HasJob, IsOf
    <2>3. \A k \in {"reconcile", "attach"} : Pending(k) => Pending(k)'
      BY <1>1, <1>3 DEF Asks, Pending, IsOf, Requests
    <2>4. (reconciliation' => Pending("reconcile")') /\ (attachment' => Pending("attach")')
      BY <1>1, <2>3 DEF Asks, IInv, WaitInv
    <2>5. \A k \in Requests : inflight'[k] # "no" => link' = "connected"
      BY <1>1 DEF Asks, IInv, WaitInv
    <2> QED
      BY <2>1, <2>2, <2>4, <2>5 DEF WaitInv
  <1>9. CurrentInv'
    <2>1. \A k \in Leases : lease'[k].pc = "releasing" => lease'[k] = lease[k]
      BY <1>4, <1>5
    <2>2. \A j \in Range(jobs') : \A k \in Leases : IsOf(j, k) => j \in Range(jobs)
      BY <1>2 DEF IsOf
    <2> QED
      BY <2>1, <2>2 DEF IInv, CurrentInv
  <1>10. \A k \in Leases : lease'[k].generation <= generation'
    <2>1. generation \in Nat
      BY DEF IInv, TypeOK
    <2> QED
      BY <1>1, <1>4, <2>1 DEF Joins, IInv, CountsInv
  <1>11. \A j \in Range(jobs') : j.of = "lease" => j.lease \in Leases
    BY <1>2 DEF IInv, CountsInv
  <1> QED
    BY <1>7, <1>8, <1>9, <1>10, <1>11

-----------------------------------------------------------------------------
(* acquireSession() *)

\* A lease that was not there before its call.
LEMMA AcquireKeeps ==
    ASSUME IInv, NEW l \in Leases, NEW m \in {"shared", "exclusive"}, acquireSession(l, m)
    PROVE  IInv'
  <1>0. TypeOK /\ CountsInv /\ DetachInv /\ WaitInv /\ CurrentInv /\ BooksInv
    BY DEF IInv
  <1>1. /\ jobs = <<>> /\ l = used.leases + 1 /\ reserveSessionLease(l, m)
        /\ used' = [used EXCEPT !.leases = l] /\ mode' = [mode EXCEPT ![l] = m]
        /\ UNCHANGED <<link, inbox, server, torn, suspect, generation, cleanup>>
        /\ count' = count + 1 /\ exclusive' \in {l, exclusive}
    BY DEF acquireSession, reserveSessionLease
  <1>2. /\ used.leases \in 0..MaxLeases /\ used'.leases = l /\ used' \in [leases : 0..MaxLeases, faults : 0..MaxFaults, changes : 0..MaxChanges]
        /\ used.leases \in Nat /\ count \in Nat /\ count <= used.leases /\ l \in 1..MaxLeases
    <2>1. used \in [leases : 0..MaxLeases, faults : 0..MaxFaults, changes : 0..MaxChanges] /\ count \in 0..MaxLeases
      BY <1>0 DEF TypeOK
    <2>2. l \in 1..MaxLeases
      BY DEF Leases
    <2>3. l \in 0..MaxLeases /\ used.leases \in 0..MaxLeases /\ used.leases \in Nat /\ count \in Nat
      BY <2>1, <2>2, BoundsAssumption
    <2>4. used'.leases = l /\ used' \in [leases : 0..MaxLeases, faults : 0..MaxFaults, changes : 0..MaxChanges]
      BY <1>1, <2>1, <2>3
    <2> QED
      BY <1>0, <2>2, <2>3, <2>4 DEF CountsInv
  <1>3. count' \in 0..MaxLeases /\ count' <= used'.leases
    BY <1>1, <1>2, BoundsAssumption
  <1>4. lease[l].pc = "none" /\ \A k \in Leases : k > l => lease[k].pc = "none"
    BY <1>0, <1>1, <1>2 DEF CountsInv, Leases
  <1>5. mode' \in [Leases -> {"shared", "exclusive"}] /\ exclusive' \in {0} \cup Leases
    BY <1>0, <1>1 DEF TypeOK
  <1>6. Range(jobs) = {} /\ jobs \in Seq(JobType)
    BY <1>1 DEF Range
  <1>7. Turn(l, jobs)
    BY <1>4, <1>6 DEF Turn
  <1>8. ASSUME /\ lease' \in LeaseType /\ \A k \in Leases \ {l} : lease'[k] = lease[k]
               /\ lease'[l].pc \in Acquiring \cup {"active"}
               /\ lease'[l].pc = "active" => lease'[l].generation = generation
        PROVE  BooksInv' /\ \A k \in Leases : k > used'.leases => lease'[k].pc = "none"
    <2>1. ~ torn => Exact
      BY <1>1, IdleExact
    <2>2. l \notin Reserved /\ Reserved' = Reserved \cup {l}
      BY <1>1, <1>4, <1>8 DEF Reserved, Acquiring
    <2>3. ~ torn => Exact'
      BY <1>0, <1>1, <2>1, <2>2, MoreReservations
    <2> QED
      BY <1>1, <1>2, <1>4, <1>8, <2>3 DEF BooksInv, Leases
  <1>9. CASE detachment # 0 /\ Goto(l, "detachment") /\ UNCHANGED <<state, jobs, inflight, promises>>
    <2>1. /\ lease' \in LeaseType /\ (\A k \in Leases \ {l} : lease'[k] = lease[k])
          /\ lease'[l].pc = "detachment" /\ lease'[l].generation = lease[l].generation
      BY <1>0, <1>9 DEF TypeOK, LeaseType, Labels, Goto
    <2>2. BooksInv' /\ \A k \in Leases : k > used'.leases => lease'[k].pc = "none"
      BY <1>8, <2>1 DEF Acquiring
    <2>3. TypeOK'
      BY <1>0, <1>1, <1>2, <1>3, <1>5, <1>9, <2>1 DEF TypeOK, LeaseType, state, promises
    <2>4. CountsInv'
      BY <1>0, <1>1, <1>3, <1>6, <1>9, <2>1, <2>2 DEF CountsInv
    <2>5. DetachInv'
      BY <1>0, <1>1, <1>4, <1>6, <1>9, <2>1 DEF DetachInv, promises
    <2>6. WaitInv'
      BY <1>0, <1>1, <1>6, <1>9, <2>1 DEF WaitInv, HasJob, Pending, promises
    <2>7. CurrentInv'
      BY <1>0, <1>1, <1>6, <1>9, <2>1 DEF CurrentInv
    <2> QED
      BY <2>2, <2>3, <2>4, <2>5, <2>6, <2>7 DEF IInv
  <1>10. CASE detachment = 0 /\ AfterDetachment(l, jobs)
    <2>1. Goes(l, jobs)
      BY <1>0, <1>6, <1>10, AfterDetachmentGoes
    <2>2. /\ DetachInv' /\ WaitInv' /\ CurrentInv'
          /\ \A k \in Leases : lease'[k].generation <= generation'
          /\ \A j \in Range(jobs') : j.of = "lease" => j.lease \in Leases
      BY <1>1, <1>4, <1>7, <2>1, GoesKeeps
    <2>3. Joins(l) /\ Asks /\ Queues(jobs)
      BY <2>1 DEF Goes
    <2>4. BooksInv' /\ \A k \in Leases : k > used'.leases => lease'[k].pc = "none"
      BY <1>8, <2>3 DEF Joins, Acquiring
    <2>5. CountsInv'
      BY <1>3, <2>2, <2>4 DEF CountsInv
    <2>6. /\ lease' \in LeaseType /\ detachment' = detachment /\ inflight' \in InflightType
          /\ reconciliation' \in BOOLEAN /\ attachment' \in BOOLEAN /\ jobs' \in Seq(JobType)
          /\ attached' = attached /\ snapshot' \in Snapshots /\ previous' \in Snapshots
      BY <2>1, <2>3 DEF Goes, Joins, Asks, Queues
    <2>7. TypeOK'
      BY <1>0, <1>1, <1>2, <1>3, <1>5, <2>6 DEF TypeOK, LeaseType, InflightType, JobType
    <2> QED
      BY <2>2, <2>4, <2>5, <2>7 DEF IInv
  <1> QED
    BY <1>9, <1>10 DEF acquireSession

-----------------------------------------------------------------------------
(* release *)

\* detach() and dispose() of a lease.
LEMMA ReleaseKeeps ==
    ASSUME IInv, NEW l \in Leases, NEW hard \in BOOLEAN, release(l, hard)
    PROVE  IInv'
  <1>0. TypeOK /\ CountsInv /\ DetachInv /\ WaitInv /\ CurrentInv /\ BooksInv
    BY DEF IInv
  <1>1. /\ jobs = <<>> /\ link = "connected" /\ lease[l].pc = "active" /\ lease[l].generation = generation
        /\ UNCHANGED <<link, mode, attachment, reconciliation, state, inbox, server, used, torn, suspect>>
    BY DEF release, Active
  <1>2. Range(jobs) = {} /\ jobs \in Seq(JobType) /\ lease \in LeaseType /\ inflight \in InflightType
    BY <1>0, <1>1 DEF Range, TypeOK, LeaseType, InflightType
  <1>3. ~ torn => Exact
    BY <1>1, IdleExact
  <1>4. l \in Reserved /\ l # 0
    BY <1>1, BoundsAssumption DEF Reserved, Leases
  <1>5. CASE LastLease(l)
    <2>1. /\ lease' = [lease EXCEPT ![l].pc = "releasing", ![l].hard = hard]
          /\ detachment = 0 /\ detachment' = l /\ Send("detach", jobs) /\ UNCHANGED books
      BY <1>5 DEF release
    <2>2. /\ lease' \in LeaseType /\ (\A k \in Leases \ {l} : lease'[k] = lease[k])
          /\ lease'[l].pc = "releasing" /\ lease'[l].generation = lease[l].generation
      BY <1>2, <2>1 DEF LeaseType, Labels
    <2>3. inflight' = [inflight EXCEPT !["detach"] = "sent"] /\ jobs' = jobs
      BY <1>1, <2>1 DEF Send
    <2>4. inflight' \in InflightType /\ inflight'["detach"] = "sent" /\ \A k \in Requests : k # "detach" => inflight'[k] = inflight[k]
      BY <1>2, <2>3 DEF InflightType, Requests
    <2>5. TypeOK'
      BY <1>0, <1>1, <2>1, <2>2, <2>3, <2>4 DEF TypeOK, LeaseType, InflightType, books, state
    <2>6. CountsInv'
      BY <1>0, <1>1, <1>2, <2>1, <2>2, <2>3 DEF CountsInv, books
    <2>7. inflight["detach"] = "no"
      BY <1>0, <2>1 DEF DetachInv
    <2>8. DetachInv'
      <3>1. \A k \in Leases : lease'[k].pc = "releasing" <=> detachment' = k
        <4>1. \A k \in Leases : lease[k].pc # "releasing"
          BY <1>0, <2>1, BoundsAssumption DEF DetachInv, Leases
        <4> QED
          BY <2>1, <2>2, <4>1
      <3> QED
        BY <1>0, <1>1, <1>2, <1>4, <2>1, <2>3, <2>4, <2>7, <3>1 DEF DetachInv
    <2>9. WaitInv'
      <3>1. \A k \in Leases : lease[k].pc # "detachment"
        BY <1>0, <1>2, <2>1 DEF WaitInv, HasJob
      <3>2. \A k \in {"reconcile", "attach"} : Pending(k) => Pending(k)'
        BY <2>3, <2>4 DEF Pending, Requests
      <3> QED
        BY <1>0, <1>1, <1>2, <2>1, <2>2, <2>3, <2>4, <3>1, <3>2 DEF WaitInv, HasJob, Requests
    <2>10. CurrentInv'
      BY <1>0, <1>1, <1>2, <2>1, <2>2, <2>3 DEF CurrentInv, books
    <2>11. BooksInv'
      <3>1. Reserved' = Reserved
        BY <1>1, <1>4, <2>1, <2>2 DEF Reserved, books, Acquiring
      <3>2. ~ torn => Exact'
        BY <1>1, <1>3, <2>1, <3>1, SameReservations DEF books
      <3> QED
        BY <1>1, <3>2 DEF BooksInv
    <2> QED
      BY <2>5, <2>6, <2>8, <2>9, <2>10, <2>11 DEF IInv
  <1>6. CASE ~ LastLease(l)
    <2>1. /\ Goto(l, "done") /\ releaseSessionLease(l) /\ UNCHANGED <<cleanup, detachment, inflight, jobs>>
          /\ UNCHANGED generation
      BY <1>6 DEF release, releaseSessionLease
    <2>2. /\ lease' \in LeaseType /\ (\A k \in Leases \ {l} : lease'[k] = lease[k])
          /\ lease'[l].pc = "done" /\ lease'[l].generation = lease[l].generation
      BY <1>2, <2>1 DEF LeaseType, Labels, Goto
    <2>3. count' \in 0..MaxLeases /\ count' <= count /\ exclusive' \in {0} \cup Leases
      BY <1>0, <2>1, BoundsAssumption DEF TypeOK, releaseSessionLease
    <2>4. TypeOK'
      BY <1>0, <1>1, <2>1, <2>2, <2>3 DEF TypeOK, LeaseType, state
    <2>5. CountsInv'
      <3>1. count' <= used'.leases
        BY <1>0, <1>1, <2>3 DEF CountsInv, TypeOK
      <3>2. ~ (l > used.leases)
        BY <1>0, <1>1 DEF CountsInv
      <3> QED
        BY <1>0, <1>1, <1>2, <2>1, <2>2, <3>1, <3>2 DEF CountsInv
    <2>6. DetachInv'
      BY <1>0, <1>1, <1>2, <2>1, <2>2 DEF DetachInv
    <2>7. WaitInv'
      BY <1>0, <1>1, <1>2, <2>1, <2>2 DEF WaitInv, HasJob, Pending
    <2>8. CurrentInv'
      BY <1>0, <1>1, <1>2, <2>1, <2>2 DEF CurrentInv
    <2>9. BooksInv'
      <3>1. Reserved' = Reserved \ {l}
        BY <2>1, <2>2 DEF Reserved, Acquiring
      <3>2. ~ torn => Exact'
        BY <1>1, <1>3, <1>4, <2>1, <3>1, FewerReservations
      <3> QED
        BY <1>1, <3>2 DEF BooksInv
    <2> QED
      BY <2>4, <2>5, <2>6, <2>7, <2>8, <2>9 DEF IInv
  <1> QED
    BY <1>5, <1>6

-----------------------------------------------------------------------------
(* Continuations *)

\* The first of the jobs, and those that a settled promise adds to the others.
LEMMA WakesIs ==
    ASSUME TypeOK, jobs # <<>>, NEW pc, NEW ok \in BOOLEAN, jobs' = Tail(jobs) \o Woken(pc, ok)
    PROVE  /\ Head(jobs) \in JobType /\ Tail(jobs) \in Seq(JobType)
           /\ Range(jobs) = {Head(jobs)} \cup Range(Tail(jobs))
           /\ jobs' \in Seq(JobType)
           /\ Range(jobs') = Range(Tail(jobs)) \cup {Job("lease", l, ok) : l \in Waiting(pc)}
  <1>1. jobs \in Seq(JobType)
    BY DEF TypeOK, JobType
  <1>2. Head(jobs) \in JobType /\ Tail(jobs) \in Seq(JobType) /\ Range(jobs) = {Head(jobs)} \cup Range(Tail(jobs))
    BY <1>1, RangeTail
  <1>3. PICK w, W : w = Woken(pc, ok) /\ W = {Job("lease", l, ok) : l \in Waiting(pc)}
    OBVIOUS
  <1>4. w \in Seq(JobType) /\ Range(w) = W
    BY <1>3, WokenIs
  <1>5. jobs' \in Seq(JobType) /\ Range(jobs') = Range(Tail(jobs)) \cup W
    <2>1. PICK r : r = Tail(jobs)
      OBVIOUS
    <2>2. r \in Seq(JobType) /\ jobs' = r \o w
      BY <1>2, <1>3, <2>1
    <2>3. r \o w \in Seq(JobType) /\ Range(r \o w) = Range(r) \cup Range(w)
      BY <1>4, <2>2, RangeConcat
    <2> QED
      BY <1>4, <2>1, <2>2, <2>3
  <1> QED
    BY <1>2, <1>3, <1>5

\* Those that are woken are as they were: what the jobs that have been added say.
LEMMA WokenAre ==
    ASSUME NEW pc, NEW ok \in BOOLEAN, NEW j \in {Job("lease", l, ok) : l \in Waiting(pc)}
    PROVE  /\ j.of = "lease" /\ j.ok = ok /\ j.lease \in Leases /\ lease[j.lease].pc = pc
           /\ \A k : IsOf(j, k) => k \in Leases /\ lease[k].pc = pc
  <1>1. PICK l \in Waiting(pc) : j = Job("lease", l, ok)
    OBVIOUS
  <1>2. j.of = "lease" /\ j.ok = ok /\ j.lease = l
    BY <1>1 DEF Job
  <1> QED
    BY <1>2 DEF Waiting, IsOf

\* Everyone who waits for the promise that is settled gets a turn.
LEMMA WokenAll ==
    ASSUME NEW pc, NEW ok \in BOOLEAN, NEW l \in Leases, lease[l].pc = pc
    PROVE  \E j \in {Job("lease", k, ok) : k \in Waiting(pc)} : IsOf(j, l)
  <1>1. l \in Waiting(pc) /\ IsOf(Job("lease", l, ok), l)
    BY DEF Waiting, IsOf, Job
  <1> QED
    BY <1>1

\* #attachSession() or #reconcileSessionCleanup() settles.
LEMMA WakeKeeps ==
    ASSUME IInv, jobs # <<>>, NEW pc \in {"attachment", "reconciliation"},
           Head(jobs).of = IF pc = "attachment" THEN "attach" ELSE "reconcile",
           jobs' = Tail(jobs) \o Woken(pc, Head(jobs).ok),
           pc = "attachment" => attachment' = FALSE /\ reconciliation' = reconciliation,
           pc = "reconciliation" => reconciliation' = FALSE /\ attachment' = attachment,
           cleanup' => cleanup,
           UNCHANGED <<lease, mode, count, exclusive, generation, detachment, inflight, attached, link, inbox,
                       used, torn>>
    PROVE  jobs' \in Seq(JobType) /\ CountsInv' /\ DetachInv' /\ WaitInv' /\ CurrentInv' /\ BooksInv'
  <1>0. TypeOK /\ CountsInv /\ DetachInv /\ WaitInv /\ CurrentInv /\ BooksInv
    BY DEF IInv
  <1>1. PICK h, ok, rest, W : /\ h = Head(jobs) /\ ok = h.ok /\ rest = Tail(jobs)
                              /\ W = {Job("lease", l, ok) : l \in Waiting(pc)}
    OBVIOUS
  <1>2. h \in JobType /\ rest \in Seq(JobType) /\ Range(jobs) = {h} \cup Range(rest)
    <2>1. jobs \in Seq(JobType)
      BY <1>0 DEF TypeOK, JobType
    <2> QED
      BY <1>1, <2>1, RangeTail
  <1>3. ok \in BOOLEAN /\ h.of # "lease" /\ h.of = IF pc = "attachment" THEN "attach" ELSE "reconcile"
    BY <1>1, <1>2 DEF JobType
  <1>4. jobs' \in Seq(JobType) /\ Range(jobs') = Range(rest) \cup W
    BY <1>0, <1>1, <1>3, WakesIs
  <1>5. \A j \in W : /\ j.of = "lease" /\ j.ok = ok /\ j.lease \in Leases
                     /\ \A k : IsOf(j, k) => k \in Leases /\ lease[k].pc = pc
    BY <1>1, <1>3, WokenAre
  <1>6. \A l \in Leases : lease[l].pc = pc => HasJob(l)'
    BY <1>1, <1>3, <1>4, WokenAll DEF HasJob
  <1>7. \A l : ~ IsOf(h, l)
    BY <1>3 DEF IsOf
  <1>8. \A l \in Leases \cup {0} : HasJob(l) => HasJob(l)'
    BY <1>2, <1>4, <1>7 DEF HasJob
  <1>9. CountsInv'
    BY <1>0, <1>2, <1>4, <1>5 DEF CountsInv
  <1>10. DetachInv'
    <2>1. detachment # 0 => lease[detachment].pc = "releasing" /\ detachment \in Leases
      BY <1>0 DEF DetachInv, TypeOK
    <2>2. detachment # 0 => \A j \in W : ~ IsOf(j, detachment)
      BY <1>5, <2>1
    <2> QED
      BY <1>0, <1>2, <1>4, <2>2 DEF DetachInv
  <1>11. WaitInv'
    <2>1. ASSUME NEW l \in Leases
          PROVE  /\ lease'[l].pc = "detachment" => detachment' # 0 \/ HasJob(l)'
                 /\ lease'[l].pc = "reconciliation" => reconciliation' \/ HasJob(l)'
                 /\ lease'[l].pc = "attachment" => attachment' \/ HasJob(l)'
      BY <1>0, <1>6, <1>8 DEF WaitInv
    <2>2. detachment' # 0 => inflight'["detach"] # "no" \/ HasJob(detachment)'
      BY <1>0, <1>2, <1>4, <1>7 DEF WaitInv, HasJob
    <2>3. reconciliation' => Pending("reconcile")'
      BY <1>0, <1>2, <1>3, <1>4 DEF WaitInv, Pending
    <2>4. attachment' => Pending("attach")'
      BY <1>0, <1>2, <1>3, <1>4 DEF WaitInv, Pending
    <2> QED
      BY <1>0, <2>1, <2>2, <2>3, <2>4 DEF WaitInv
  <1>12. CurrentInv'
    BY <1>0, <1>2, <1>4, <1>5 DEF CurrentInv
  <1>13. CASE Exact
    <2>1. Exact'
      BY <1>13, SameReservations DEF Reserved
    <2> QED
      BY <1>4, <1>9, <1>10, <1>11, <1>12, <2>1 DEF BooksInv
  <1>14. CASE Emptied
    <2>1. ~ ok
      BY <1>1, <1>2, <1>3, <1>14 DEF Emptied, Doomed
    <2>2. ASSUME NEW l \in Leases, lease[l].pc = "detachment"
          PROVE  AtMostOne(jobs', JobsOf(l)) /\ (detachment # 0 => ~ HasJob(l)')
      <3>1. \A j \in W : ~ IsOf(j, l)
        BY <1>5, <2>2
      <3>2. Range(Woken(pc, ok)) = W /\ Woken(pc, ok) \in Seq(JobType)
        BY <1>1, <1>3, WokenIs
      <3>3. Range(Woken(pc, ok)) \cap JobsOf(l) = {}
        BY <3>1, <3>2 DEF JobsOf
      <3>4. jobs \in Seq(JobType) /\ AtMostOne(jobs, JobsOf(l))
        BY <1>0, <1>14, <2>2 DEF TypeOK, JobType, Emptied, Doomed
      <3>5. AtMostOne(rest, JobsOf(l))
        BY <1>1, <3>4, OnceTail
      <3>6. AtMostOne(jobs', JobsOf(l))
        BY <1>1, <1>2, <3>2, <3>3, <3>5, OnceConcat
      <3>7. detachment # 0 => ~ HasJob(l)
        BY <1>14, <2>2 DEF Emptied, Doomed
      <3> QED
        BY <1>2, <1>4, <3>1, <3>6, <3>7 DEF HasJob
    <2>3. Doomed'
      BY <1>2, <1>4, <1>5, <1>14, <2>1, <2>2 DEF Emptied, Doomed
    <2>4. Emptied'
      BY <1>14, <2>3 DEF Emptied
    <2> QED
      BY <1>4, <1>9, <1>10, <1>11, <1>12, <2>4 DEF BooksInv
  <1> QED
    BY <1>0, <1>4, <1>9, <1>10, <1>11, <1>12, <1>13, <1>14 DEF BooksInv

\* The detach of a releasing lease is settled.
LEMMA ReleasedKeeps ==
    ASSUME IInv, jobs # <<>>, NEW l \in Leases, IsOf(Head(jobs), l), lease[l].pc = "releasing",
           Released(l, Head(jobs).ok, Tail(jobs)),
           UNCHANGED <<link, mode, inbox, server, used, torn, suspect>>
    PROVE  IInv'
  <1>0. TypeOK /\ CountsInv /\ DetachInv /\ WaitInv /\ CurrentInv /\ BooksInv
    BY DEF IInv
  <1>1. PICK h, ok, rest, W : /\ h = Head(jobs) /\ ok = h.ok /\ rest = Tail(jobs)
                              /\ W = {Job("lease", k, TRUE) : k \in Waiting("detachment")}
    OBVIOUS
  <1>2. jobs \in Seq(JobType) /\ h \in JobType /\ rest \in Seq(JobType) /\ Range(jobs) = {h} \cup Range(rest)
    <2>1. jobs \in Seq(JobType)
      BY <1>0 DEF TypeOK, JobType
    <2> QED
      BY <1>1, <2>1, RangeTail
  <1>3. ok \in BOOLEAN /\ IsOf(h, l) /\ h.of = "lease"
    BY <1>1, <1>2 DEF JobType, IsOf
  <1>4. /\ detachment' = 0 /\ jobs' = rest \o Woken("detachment", TRUE)
        /\ UNCHANGED <<inflight, attachment, reconciliation, state>>
    BY <1>1 DEF Released
  <1>5. jobs' \in Seq(JobType) /\ Range(jobs') = Range(rest) \cup W
    BY <1>0, <1>1, <1>4, WakesIs
  <1>6. \A j \in W : /\ j.of = "lease" /\ j.lease \in Leases
                     /\ \A k : IsOf(j, k) => k \in Leases /\ lease[k].pc = "detachment"
    <2>1. PICK ready : ready = TRUE
      OBVIOUS
    <2>2. ready \in BOOLEAN /\ W = {Job("lease", k, ready) : k \in Waiting("detachment")}
      BY <1>1, <2>1
    <2> QED
      BY <2>2, WokenAre
  <1>7. \A k \in Leases : lease[k].pc = "detachment" => HasJob(k)'
    BY <1>1, <1>5, WokenAll DEF HasJob
  <1>8. detachment = l /\ inflight["detach"] = "no"
    BY <1>0, <1>2, <1>3 DEF DetachInv
  <1>9. \/ ok /\ releaseSessionLease(l) /\ Goto(l, "done") /\ UNCHANGED cleanup
        \/ ~ ok /\ lease[l].generation # generation /\ Goto(l, "done") /\ UNCHANGED books
        \/ ~ ok /\ lease[l].generation = generation /\ releaseSessionLease(l) /\ Goto(l, "done") /\ cleanup' = TRUE
        \/ ~ ok /\ lease[l].generation = generation /\ Goto(l, "active") /\ UNCHANGED books
    BY <1>1 DEF Released
  <1>10. generation' = generation
    BY <1>9 DEF releaseSessionLease, books
  <1>11. /\ lease' \in LeaseType /\ (\A k \in Leases \ {l} : lease'[k] = lease[k])
         /\ lease'[l].pc \in {"done", "active"} /\ lease'[l].generation = lease[l].generation
         /\ lease'[l].pc = "active" => lease[l].generation = generation
    <2>1. lease \in LeaseType
      BY <1>0 DEF TypeOK, LeaseType
    <2>2. Goto(l, "done") \/ (Goto(l, "active") /\ lease[l].generation = generation)
      BY <1>9
    <2> QED
      BY <2>1, <2>2 DEF LeaseType, Labels, Goto
  <1>12. count' \in 0..MaxLeases /\ count' <= count /\ exclusive' \in {0} \cup Leases /\ cleanup' \in BOOLEAN
    <2>1. releaseSessionLease(l) => count' \in 0..MaxLeases /\ count' <= count /\ exclusive' \in {0} \cup Leases
      BY <1>0, BoundsAssumption DEF TypeOK, releaseSessionLease
    <2>2. UNCHANGED books => count' \in 0..MaxLeases /\ count' <= count /\ exclusive' \in {0} \cup Leases /\ cleanup' = cleanup
      BY <1>0, BoundsAssumption DEF TypeOK, books
    <2>3. cleanup \in BOOLEAN
      BY <1>0 DEF TypeOK
    <2> QED
      BY <1>9, <2>1, <2>2, <2>3
  <1>13. TypeOK'
    BY <1>0, <1>4, <1>5, <1>10, <1>11, <1>12 DEF TypeOK, LeaseType, JobType, state
  <1>14. CountsInv'
    <2>1. count' <= used'.leases
      BY <1>0, <1>12 DEF CountsInv, TypeOK
    <2>2. ~ (l > used.leases)
      BY <1>0 DEF CountsInv
    <2> QED
      BY <1>0, <1>2, <1>5, <1>6, <1>10, <1>11, <2>1, <2>2 DEF CountsInv
  <1>15. \A k \in Leases : lease'[k].pc # "releasing"
    BY <1>0, <1>8, <1>11 DEF DetachInv
  <1>16. DetachInv'
    <2>1. \A k \in Leases : k # 0
      BY BoundsAssumption DEF Leases
    <2> QED
      BY <1>0, <1>4, <1>8, <1>15, <2>1 DEF DetachInv
  <1>17. WaitInv'
    <2>1. ASSUME NEW k \in Leases
          PROVE  /\ lease'[k].pc = "detachment" => detachment' # 0 \/ HasJob(k)'
                 /\ lease'[k].pc = "reconciliation" => reconciliation' \/ HasJob(k)'
                 /\ lease'[k].pc = "attachment" => attachment' \/ HasJob(k)'
      <3>1. CASE k = l
        BY <1>11, <3>1
      <3>2. CASE k # l
        <4>1. HasJob(k) => HasJob(k)'
          BY <1>2, <1>3, <1>5, <3>2 DEF HasJob, IsOf
        <4> QED
          BY <1>0, <1>4, <1>7, <1>11, <3>2, <4>1 DEF WaitInv
      <3> QED
        BY <3>1, <3>2
    <2>2. \A k \in {"attach", "reconcile"} : Pending(k) => Pending(k)'
      BY <1>2, <1>3, <1>4, <1>5 DEF Pending
    <2> QED
      BY <1>0, <1>4, <2>1, <2>2 DEF WaitInv
  <1>18. CurrentInv'
    BY <1>15 DEF CurrentInv
  <1>19. ASSUME ~ torn, Exact PROVE Exact'
    <2>1. ok => lease[l].generation = generation
      BY <1>0, <1>1, <1>2, <1>3, <1>19 DEF CurrentInv
    <2>2. CASE lease[l].generation = generation /\ releaseSessionLease(l) /\ Goto(l, "done")
      <3>1. l \in Reserved
        BY <2>2 DEF Reserved
      <3>2. lease'[l].pc = "done"
        BY <1>0, <2>2 DEF TypeOK, Goto
      <3>3. Reserved' = Reserved \ {l}
        BY <1>10, <1>11, <3>2 DEF Reserved, Acquiring
      <3> QED
        BY <1>19, <2>2, <3>1, <3>3, FewerReservations
    <2>3. CASE lease[l].generation # generation /\ Goto(l, "done") /\ UNCHANGED books
      <3>1. lease'[l].pc = "done"
        BY <1>0, <2>3 DEF TypeOK, Goto
      <3>2. Reserved' = Reserved
        BY <1>10, <1>11, <2>3, <3>1 DEF Reserved, Acquiring
      <3> QED
        BY <1>19, <2>3, <3>2, SameReservations DEF books
    <2>4. CASE lease[l].generation = generation /\ Goto(l, "active") /\ UNCHANGED books
      <3>1. lease'[l].pc = "active"
        BY <1>0, <2>4 DEF TypeOK, Goto
      <3>2. Reserved' = Reserved
        BY <1>10, <1>11, <2>4, <3>1 DEF Reserved, Acquiring
      <3> QED
        BY <1>19, <2>4, <3>2, SameReservations DEF books
    <2> QED
      BY <1>9, <2>1, <2>2, <2>3, <2>4
  <1>20. ASSUME ~ torn, Emptied PROVE Emptied'
    <2>1. lease[l].generation # generation
      BY <1>20 DEF Emptied, Doomed
    <2>2. ~ ok
      BY <1>0, <1>1, <1>2, <1>3, <1>20, <2>1 DEF CurrentInv
    <2>3. Goto(l, "done") /\ UNCHANGED books
      BY <1>9, <2>1, <2>2
    <2>4. lease'[l].pc = "done"
      BY <1>0, <2>3 DEF TypeOK, Goto
    <2>5. ASSUME NEW k \in Leases, lease'[k].pc = "detachment" PROVE AtMostOne(jobs', JobsOf(k))
      <3>1. k # l /\ lease[k].pc = "detachment"
        BY <1>11, <2>4, <2>5
      <3>2. ~ HasJob(k)
        BY <1>8, <1>20, <3>1, BoundsAssumption DEF Emptied, Doomed, Leases
      <3>3. Range(rest) \cap JobsOf(k) = {}
        BY <1>2, <3>2 DEF HasJob, JobsOf
      <3>4. Woken("detachment", TRUE) \in Seq(JobType) /\ AtMostOne(Woken("detachment", TRUE), JobsOf(k))
        BY WokenIs
      <3> QED
        BY <1>2, <1>4, <3>3, <3>4, OnceConcat
    <2>6. Doomed'
      <3>1. \A k \in Leases : lease'[k].pc \in {"active", "releasing"} => lease'[k].generation # generation'
        BY <1>10, <1>11, <1>20, <2>4 DEF Emptied, Doomed
      <3>2. \A j \in Range(jobs') : j.of # "lease" => ~ j.ok
        BY <1>2, <1>5, <1>6, <1>20 DEF Emptied, Doomed
      <3>3. ASSUME NEW j \in Range(jobs'), NEW k \in Leases, IsOf(j, k),
                   lease'[k].pc \in {"reconciliation", "attachment"}
            PROVE  ~ j.ok
        <4>1. k # l /\ lease[k].pc \in {"reconciliation", "attachment"}
          BY <1>11, <2>4, <3>3
        <4>2. j \in Range(jobs)
          BY <1>2, <1>5, <1>6, <3>3, <4>1
        <4> QED
          BY <1>20, <3>3, <4>1, <4>2 DEF Emptied, Doomed
      <3> QED
        BY <1>4, <2>5, <3>1, <3>2, <3>3 DEF Doomed
    <2> QED
      BY <1>4, <1>20, <2>3, <2>6 DEF Emptied, books, state
  <1> QED
    BY <1>0, <1>13, <1>14, <1>16, <1>17, <1>18, <1>19, <1>20 DEF IInv, BooksInv

\* A lease being acquired that goes on keeps its reservation.
LEMMA GoesOnKeeps ==
    ASSUME IInv, jobs # <<>>, NEW l \in Leases, IsOf(Head(jobs), l), lease[l].pc \in Acquiring,
           Goes(l, Tail(jobs)), Emptied => lease[l].pc = "detachment" /\ lease'[l].pc = "attachment",
           UNCHANGED <<books, link, mode, inbox, server, used, torn, suspect>>
    PROVE  IInv'
  <1>0. TypeOK /\ CountsInv /\ DetachInv /\ WaitInv /\ CurrentInv /\ BooksInv
    BY DEF IInv
  <1>1. PICK rest : rest = Tail(jobs)
    OBVIOUS
  <1>2. Turn(l, rest) /\ Goes(l, rest)
    BY <1>0, <1>1, HeadTurn
  <1>3. /\ DetachInv' /\ WaitInv' /\ CurrentInv'
        /\ \A k \in Leases : lease'[k].generation <= generation'
        /\ \A j \in Range(jobs') : j.of = "lease" => j.lease \in Leases
    <2>1. lease[l].pc \notin {"active", "releasing"} /\ UNCHANGED <<link, generation, inbox, torn>>
      BY DEF Acquiring, books
    <2> QED
      BY <1>2, <2>1, GoesKeeps
  <1>4. Joins(l) /\ Asks /\ Queues(rest)
    BY <1>2 DEF Goes
  <1>5. TypeOK'
    <2>1. /\ lease' \in LeaseType /\ detachment' = detachment /\ inflight' \in InflightType
          /\ reconciliation' \in BOOLEAN /\ attachment' \in BOOLEAN /\ jobs' \in Seq(JobType)
          /\ attached' = attached /\ snapshot' \in Snapshots /\ previous' \in Snapshots
      BY <1>2, <1>4 DEF Goes, Joins, Asks, Queues
    <2> QED
      BY <1>0, <2>1 DEF TypeOK, LeaseType, InflightType, JobType, books
  <1>6. CountsInv'
    <2>1. ~ (l > used.leases)
      BY <1>0 DEF CountsInv, Acquiring
    <2>2. count' <= used'.leases
      BY <1>0 DEF CountsInv, books
    <2> QED
      BY <1>0, <1>3, <1>4, <2>1, <2>2 DEF CountsInv, Joins
  <1>7. ASSUME Exact PROVE Exact'
    <2>1. Reserved' = Reserved
      BY <1>4 DEF Reserved, Joins, Acquiring, books
    <2> QED
      BY <1>7, <2>1, SameReservations DEF books
  <1>8. ASSUME Emptied PROVE Emptied'
    <2>1. lease[l].pc = "detachment" /\ lease'[l].pc = "attachment"
      BY <1>8
    <2>2. \A j \in Range(rest) : ~ IsOf(j, l)
      BY <1>2, <1>8, <2>1 DEF Turn, Emptied, Doomed, Acquiring
    <2>3. \A j \in Range(jobs') : j \in Range(rest) \/ (j.of # "lease" /\ ~ j.ok)
      BY <1>4 DEF Queues
    <2>4. \A j \in Range(rest) : j \in Range(jobs)
      BY <1>2 DEF Turn
    <2>5. \A k \in Leases : lease'[k].pc \in {"active", "releasing"} => lease'[k].generation # generation'
      BY <1>4, <1>8, <2>1 DEF Joins, Emptied, Doomed, books
    <2>6. \A j \in Range(jobs') : j.of # "lease" => ~ j.ok
      BY <1>8, <2>3, <2>4 DEF Emptied, Doomed
    <2>7. ASSUME NEW j \in Range(jobs'), NEW k \in Leases, IsOf(j, k),
                 lease'[k].pc \in {"reconciliation", "attachment"}
          PROVE  ~ j.ok
      <3>1. j \in Range(rest) /\ k # l
        BY <2>2, <2>3, <2>7 DEF IsOf
      <3>2. lease'[k] = lease[k] /\ j \in Range(jobs)
        BY <1>4, <2>4, <3>1 DEF Joins
      <3> QED
        BY <1>8, <2>7, <3>2 DEF Emptied, Doomed
    <2>8. ASSUME NEW k \in Leases, lease'[k].pc = "detachment"
          PROVE  AtMostOne(jobs', JobsOf(k)) /\ (detachment' # 0 => ~ HasJob(k)')
      <3>1. k # l /\ lease[k].pc = "detachment"
        BY <1>4, <2>1, <2>8 DEF Joins
      <3>2. AtMostOne(jobs, JobsOf(k)) /\ (detachment # 0 => ~ HasJob(k))
        BY <1>8, <3>1 DEF Emptied, Doomed
      <3>3. AtMostOne(jobs', JobsOf(k))
        BY <1>2, <1>4, <3>2 DEF Turn, Queues
      <3>4. HasJob(k)' => HasJob(k)
        BY <2>3, <2>4 DEF HasJob, IsOf
      <3>5. detachment' = detachment
        BY <1>4 DEF Asks
      <3> QED
        BY <3>2, <3>3, <3>4, <3>5
    <2>9. Doomed'
      BY <2>5, <2>6, <2>7, <2>8 DEF Doomed
    <2> QED
      BY <1>2, <1>8, <2>9 DEF Emptied, Goes, books
  <1>9. BooksInv'
    BY <1>0, <1>7, <1>8 DEF BooksInv
  <1> QED
    BY <1>3, <1>5, <1>6, <1>9 DEF IInv

\* A call whose promise was rejected gives its reservation back.
LEMMA GivesBackKeeps ==
    ASSUME IInv, jobs # <<>>, NEW l \in Leases, IsOf(Head(jobs), l), lease[l].pc \in Acquiring,
           releaseSessionLease(l), Goto(l, "done"), jobs' = Tail(jobs),
           UNCHANGED <<cleanup, state, inflight, promises, link, mode, inbox, server, used, torn, suspect>>
    PROVE  IInv'
  <1>0. TypeOK /\ CountsInv /\ DetachInv /\ WaitInv /\ CurrentInv /\ BooksInv
    BY DEF IInv
  <1>1. PICK h, rest : h = Head(jobs) /\ rest = Tail(jobs)
    OBVIOUS
  <1>2. jobs \in Seq(JobType) /\ h \in JobType /\ rest \in Seq(JobType) /\ Range(jobs) = {h} \cup Range(rest)
    <2>1. jobs \in Seq(JobType)
      BY <1>0 DEF TypeOK, JobType
    <2> QED
      BY <1>1, <2>1, RangeTail
  <1>3. jobs' = rest /\ IsOf(h, l) /\ h.of = "lease" /\ generation' = generation
    BY <1>1 DEF IsOf, releaseSessionLease
  <1>4. /\ lease' \in LeaseType /\ (\A k \in Leases \ {l} : lease'[k] = lease[k])
        /\ lease'[l].pc = "done" /\ lease'[l].generation = lease[l].generation
    BY <1>0 DEF TypeOK, LeaseType, Labels, Goto
  <1>5. count' \in 0..MaxLeases /\ count' <= count /\ exclusive' \in {0} \cup Leases
    BY <1>0, BoundsAssumption DEF TypeOK, releaseSessionLease
  <1>6. TypeOK'
    BY <1>0, <1>2, <1>3, <1>4, <1>5 DEF TypeOK, LeaseType, JobType, state, promises
  <1>7. CountsInv'
    <2>1. count' <= used'.leases
      BY <1>0, <1>5 DEF CountsInv, TypeOK
    <2>2. ~ (l > used.leases)
      BY <1>0 DEF CountsInv, Acquiring
    <2> QED
      BY <1>0, <1>2, <1>3, <1>4, <2>1, <2>2 DEF CountsInv
  <1>8. detachment' = detachment /\ detachment # l
    BY <1>0 DEF DetachInv, Acquiring, promises
  <1>9. DetachInv'
    BY <1>0, <1>2, <1>3, <1>4, <1>8 DEF DetachInv
  <1>10. WaitInv'
    <2>1. \A k : k # l => (HasJob(k) => HasJob(k)')
      BY <1>2, <1>3 DEF HasJob, IsOf
    <2>2. \A k \in {"attach", "reconcile"} : Pending(k) => Pending(k)'
      BY <1>2, <1>3 DEF Pending
    <2>3. detachment' # 0 => inflight'["detach"] # "no" \/ HasJob(detachment)'
      BY <1>0, <1>2, <1>3, <1>8 DEF WaitInv, HasJob, IsOf
    <2> QED
      BY <1>0, <1>4, <1>8, <2>1, <2>2, <2>3 DEF WaitInv, promises
  <1>11. CurrentInv'
    BY <1>0, <1>2, <1>3, <1>4 DEF CurrentInv
  <1>12. ASSUME Exact PROVE Exact'
    <2>1. l \in Reserved /\ Reserved' = Reserved \ {l}
      BY <1>3, <1>4 DEF Reserved, Acquiring
    <2> QED
      BY <1>12, <2>1, FewerReservations
  <1>13. ASSUME Emptied PROVE Emptied'
    <2>1. count' = 0 /\ exclusive' = 0 /\ ~ attached' /\ ~ cleanup' /\ link' # "connected"
      BY <1>13 DEF Emptied, releaseSessionLease, state
    <2>2. ASSUME NEW k \in Leases, lease'[k].pc = "detachment"
          PROVE  AtMostOne(jobs', JobsOf(k)) /\ (detachment' # 0 => ~ HasJob(k)')
      <3>1. k # l /\ lease[k].pc = "detachment"
        BY <1>4, <2>2
      <3>2. AtMostOne(jobs, JobsOf(k)) /\ (detachment # 0 => ~ HasJob(k))
        BY <1>13, <3>1 DEF Emptied, Doomed
      <3>3. AtMostOne(rest, JobsOf(k))
        BY <1>1, <1>2, <3>2, OnceTail
      <3> QED
        BY <1>2, <1>3, <1>8, <3>2, <3>3 DEF HasJob
    <2>3. Doomed'
      BY <1>2, <1>3, <1>4, <1>13, <2>2 DEF Emptied, Doomed
    <2> QED
      BY <2>1, <2>3 DEF Emptied
  <1> QED
    BY <1>0, <1>6, <1>7, <1>9, <1>10, <1>11, <1>12, <1>13 DEF IInv, BooksInv

\* acquireSession() goes on.
LEMMA ResumedKeeps ==
    ASSUME IInv, jobs # <<>>, NEW l \in Leases, IsOf(Head(jobs), l),
           Resumed(l, Head(jobs).ok, Tail(jobs)),
           UNCHANGED <<link, mode, inbox, server, used, torn, suspect>>
    PROVE  IInv'
  <1>0. TypeOK
    BY DEF IInv
  <1>1. PICK h, rest : h = Head(jobs) /\ rest = Tail(jobs)
    OBVIOUS
  <1>2. h \in JobType /\ h \in Range(jobs) /\ rest \in Seq(JobType)
    <2>1. jobs \in Seq(JobType)
      BY <1>0 DEF TypeOK, JobType
    <2> QED
      BY <1>1, <2>1, RangeTail
  <1>3. CASE lease[l].pc = "detachment" /\ AfterDetachment(l, rest) /\ UNCHANGED books
    <2>1. Goes(l, rest)
      BY <1>0, <1>2, <1>3, AfterDetachmentGoes
    <2>2. ASSUME Emptied PROVE lease'[l].pc = "attachment"
      <3>1. Attach(l, rest)
        BY <1>3, <2>2 DEF AfterDetachment, Emptied
      <3> QED
        BY <1>0, <3>1 DEF Attach, TypeOK
    <2> QED
      BY <1>1, <1>3, <2>1, <2>2, GoesOnKeeps DEF Acquiring
  <1>4. CASE lease[l].pc = "reconciliation" /\ h.ok /\ Attach(l, rest) /\ UNCHANGED books
    <2>1. Goes(l, rest)
      BY <1>0, <1>2, <1>4, AttachGoes
    <2>2. ~ Emptied
      BY <1>1, <1>2, <1>4 DEF Emptied, Doomed
    <2> QED
      BY <1>1, <1>4, <2>1, <2>2, GoesOnKeeps DEF Acquiring
  <1>5. CASE /\ lease[l].pc = "attachment" /\ h.ok
             /\ lease' = [lease EXCEPT ![l].pc = "active", ![l].generation = generation]
             /\ jobs' = rest /\ UNCHANGED <<books, state, inflight, promises>>
    <2>1. lease \in LeaseType /\ inflight \in InflightType /\ generation \in Nat
      BY <1>0 DEF TypeOK, LeaseType, InflightType
    <2>2. Joins(l)
      BY <1>5, <2>1 DEF Joins, LeaseType, Labels
    <2>3. Asks
      BY <1>0, <1>5, <2>1 DEF Asks, promises, TypeOK
    <2>4. Queues(rest)
      BY <1>0, <1>2, <1>5, QueuesIs
    <2>5. Goes(l, rest)
      BY <1>0, <1>5, <2>2, <2>3, <2>4 DEF Goes, state, TypeOK
    <2>6. ~ Emptied
      BY <1>1, <1>2, <1>5 DEF Emptied, Doomed
    <2> QED
      BY <1>1, <1>5, <2>5, <2>6, GoesOnKeeps DEF Acquiring
  <1>6. CASE /\ lease[l].pc \in {"reconciliation", "attachment"}
             /\ releaseSessionLease(l) /\ Goto(l, "done") /\ jobs' = rest
             /\ UNCHANGED <<cleanup, state, inflight, promises>>
    BY <1>1, <1>6, GivesBackKeeps DEF Acquiring
  <1> QED
    BY <1>1, <1>3, <1>4, <1>5, <1>6 DEF Resumed

\* A settled promise resumes what awaits it.
LEMMA RunJobKeeps == ASSUME IInv, RunJob PROVE IInv'
  <1>0. TypeOK /\ CountsInv
    BY DEF IInv
  <1>1. PICK j : j = Head(jobs)
    OBVIOUS
  <1>2. jobs # <<>> /\ UNCHANGED <<link, mode, inbox, server, used, torn, suspect>>
    BY DEF RunJob
  <1>3. jobs \in Seq(JobType) /\ j \in JobType /\ j \in Range(jobs)
    <2>1. jobs \in Seq(JobType)
      BY <1>0 DEF TypeOK, JobType
    <2> QED
      BY <1>1, <1>2, <2>1, RangeTail
  <1>4. CASE /\ j.of = "attach" /\ attachment' = FALSE
             /\ snapshot' = IF ~ j.ok /\ snapshot = NoSnapshot THEN previous ELSE snapshot
             /\ previous' = NoSnapshot /\ jobs' = Tail(jobs) \o Woken("attachment", j.ok)
             /\ UNCHANGED <<lease, books, detachment, reconciliation, attached, inflight>>
    <2>1. jobs' \in Seq(JobType) /\ CountsInv' /\ DetachInv' /\ WaitInv' /\ CurrentInv' /\ BooksInv'
      BY <1>1, <1>2, <1>4, WakeKeeps DEF books
    <2>2. snapshot' \in Snapshots /\ previous' \in Snapshots
      BY <1>0, <1>4 DEF TypeOK, NoSnapshot, Snapshots
    <2>3. TypeOK'
      BY <1>0, <1>2, <1>4, <2>1, <2>2 DEF TypeOK, JobType, books
    <2> QED
      BY <2>1, <2>3 DEF IInv
  <1>5. CASE /\ j.of = "reconcile" /\ reconciliation' = FALSE /\ cleanup' = (cleanup /\ ~ j.ok)
             /\ jobs' = Tail(jobs) \o Woken("reconciliation", j.ok)
             /\ UNCHANGED <<lease, count, exclusive, generation, detachment, attachment, state, inflight>>
    <2>1. jobs' \in Seq(JobType) /\ CountsInv' /\ DetachInv' /\ WaitInv' /\ CurrentInv' /\ BooksInv'
      BY <1>1, <1>2, <1>5, WakeKeeps DEF state
    <2>2. cleanup' \in BOOLEAN
      BY <1>5
    <2>3. TypeOK'
      BY <1>0, <1>2, <1>5, <2>1, <2>2 DEF TypeOK, JobType, state
    <2> QED
      BY <2>1, <2>3 DEF IInv
  <1>6. CASE j.of = "lease" /\ lease[j.lease].pc = "releasing" /\ Released(j.lease, j.ok, Tail(jobs))
    <2>1. j.lease \in Leases /\ IsOf(j, j.lease)
      BY <1>0, <1>3, <1>6 DEF CountsInv, IsOf
    <2> QED
      BY <1>1, <1>2, <1>6, <2>1, ReleasedKeeps
  <1>7. CASE j.of = "lease" /\ lease[j.lease].pc # "releasing" /\ Resumed(j.lease, j.ok, Tail(jobs))
    <2>1. j.lease \in Leases /\ IsOf(j, j.lease)
      BY <1>0, <1>3, <1>7 DEF CountsInv, IsOf
    <2> QED
      BY <1>1, <1>2, <1>7, <2>1, ResumedKeeps
  <1> QED
    BY <1>1, <1>4, <1>5, <1>6, <1>7 DEF RunJob

-----------------------------------------------------------------------------
(* Messages from the server *)

\* The answer to a request.
LEMMA AnswerKeeps ==
    ASSUME IInv, inbox # <<>>, link = "connected", NEW ok \in BOOLEAN, NEW k \in Requests,
           Head(inbox).type \in {"ok", "error"}, k = Head(inbox).request,
           inbox' = Tail(inbox), inflight' = [inflight EXCEPT ![k] = "no"],
           jobs' = Append(jobs, Settles(k, ok)),
           UNCHANGED <<link, lease, mode, books, promises, used, torn>>
    PROVE  jobs' \in Seq(JobType) /\ CountsInv' /\ DetachInv' /\ WaitInv' /\ CurrentInv' /\ BooksInv'
  <1>0. TypeOK /\ CountsInv /\ DetachInv /\ WaitInv /\ CurrentInv /\ BooksInv
    BY DEF IInv
  <1>1. PICK m, x, r : m = Head(inbox) /\ x = Settles(k, ok) /\ r = Tail(inbox)
    OBVIOUS
  <1>2. /\ inbox \in Seq(MessageType) /\ m \in MessageType /\ r \in Seq(MessageType)
        /\ Range(inbox) = {m} \cup Range(r)
    <2>1. inbox \in Seq(MessageType)
      BY <1>0 DEF TypeOK, MessageType
    <2> QED
      BY <1>1, <2>1, RangeTail
  <1>3. x \in JobType /\ x.ok = ok
    BY <1>0, <1>1, SettlesIs
  <1>4. jobs' \in Seq(JobType) /\ Range(jobs') = Range(jobs) \cup {x}
    <2>1. jobs \in Seq(JobType)
      BY <1>0 DEF TypeOK, JobType
    <2> QED
      BY <1>1, <1>3, <2>1, RangeAppend
  <1>5. inflight'[k] = "no" /\ \A i \in Requests \ {k} : inflight'[i] = inflight[i]
    BY <1>0 DEF TypeOK
  <1>6. AtMostOne(r, DetachAnswers) /\ (m \in DetachAnswers => Range(r) \cap DetachAnswers = {})
    <2>1. AtMostOne(inbox, DetachAnswers)
      BY <1>0 DEF DetachInv
    <2> QED
      BY <1>1, <1>2, <2>1, OnceTail
  <1>7. "detach" \in Requests /\ "attach" \in Requests /\ "reconcile" \in Requests
    BY DEF Requests
  <1>8. ASSUME k = "detach" PROVE CountsInv' /\ DetachInv' /\ WaitInv'
    <2>1. m \in DetachAnswers
      BY <1>1, <1>2, <1>8 DEF DetachAnswers
    <2>2. inflight["detach"] # "no" /\ detachment # 0 /\ detachment \in Leases
      BY <1>0, <1>2, <2>1 DEF DetachInv, TypeOK
    <2>3. x = Job("lease", detachment, ok) /\ IsOf(x, detachment) /\ x.of = "lease" /\ x.lease = detachment
      BY <1>0, <1>1, <1>8, SettlesIs DEF IsOf
    <2>4. CountsInv'
      BY <1>0, <1>4, <2>2, <2>3 DEF CountsInv, books
    <2>5. DetachInv'
      BY <1>0, <1>1, <1>5, <1>6, <1>8, <2>1 DEF DetachInv, promises
    <2>6. \A l : HasJob(l) => HasJob(l)'
      BY <1>4 DEF HasJob
    <2>7. HasJob(detachment)'
      BY <1>4, <2>3 DEF HasJob, promises
    <2>8. \A i \in {"attach", "reconcile"} : Pending(i) => Pending(i)'
      BY <1>4, <1>5, <1>7, <1>8 DEF Pending
    <2>9. WaitInv'
      BY <1>0, <1>5, <2>6, <2>7, <2>8 DEF WaitInv, promises
    <2> QED
      BY <2>4, <2>5, <2>9
  <1>9. ASSUME k \in {"attach", "reconcile"} PROVE CountsInv' /\ DetachInv' /\ WaitInv'
    <2>1. x.of = k /\ x.of # "lease"
      BY <1>0, <1>1, <1>9, SettlesIs
    <2>2. CountsInv'
      BY <1>0, <1>4, <2>1 DEF CountsInv, books
    <2>3. inflight'["detach"] = inflight["detach"]
      BY <1>5, <1>7, <1>9
    <2>4. DetachInv'
      BY <1>0, <1>1, <1>2, <1>4, <1>6, <2>1, <2>3 DEF DetachInv, promises, IsOf
    <2>5. \A l : HasJob(l) => HasJob(l)'
      BY <1>4 DEF HasJob
    <2>6. HasJob(detachment) => HasJob(detachment)'
      BY <1>4 DEF HasJob, promises
    <2>7. \A i \in {"attach", "reconcile"} : Pending(i) => Pending(i)'
      BY <1>4, <1>5, <1>7, <2>1 DEF Pending
    <2>8. WaitInv'
      BY <1>0, <1>5, <2>3, <2>5, <2>6, <2>7 DEF WaitInv, promises
    <2> QED
      BY <2>2, <2>4, <2>8
  <1>10. CurrentInv'
    BY <1>0 DEF CurrentInv, books
  <1>11. BooksInv'
    <2>1. ~ torn => Exact
      BY <1>0 DEF BooksInv, Emptied
    <2>2. ~ torn => Exact'
      BY <2>1, SameReservations DEF books, Reserved
    <2> QED
      BY <2>2 DEF BooksInv
  <1>12. k = "detach" \/ k \in {"attach", "reconcile"}
    BY DEF Requests
  <1> QED
    BY <1>4, <1>8, <1>9, <1>10, <1>11, <1>12

\* An event leaves the leases and the promises alone.
LEMMA EventKeeps ==
    ASSUME IInv, inbox # <<>>, link = "connected", inbox' = Tail(inbox),
           UNCHANGED <<link, lease, mode, books, promises, used, torn, inflight, jobs>>
    PROVE  CountsInv' /\ DetachInv' /\ WaitInv' /\ CurrentInv' /\ BooksInv'
  <1>0. TypeOK /\ CountsInv /\ DetachInv /\ WaitInv /\ CurrentInv /\ BooksInv
    BY DEF IInv
  <1>1. PICK r : r = Tail(inbox)
    OBVIOUS
  <1>2. Range(r) \subseteq Range(inbox) /\ AtMostOne(r, DetachAnswers)
    <2>1. inbox \in Seq(MessageType) /\ AtMostOne(inbox, DetachAnswers)
      BY <1>0 DEF TypeOK, MessageType, DetachInv
    <2> QED
      BY <1>1, <2>1, RangeTail, OnceTail
  <1>3. DetachInv'
    BY <1>0, <1>1, <1>2 DEF DetachInv, promises
  <1>4. ~ torn => Exact
    BY <1>0 DEF BooksInv, Emptied
  <1>5. ~ torn => Exact'
    BY <1>4, SameReservations DEF books, Reserved
  <1>6. CountsInv' /\ CurrentInv'
    BY <1>0 DEF CountsInv, CurrentInv, books
  <1>7. WaitInv'
    BY <1>0 DEF WaitInv, HasJob, Pending, promises
  <1> QED
    BY <1>3, <1>5, <1>6, <1>7 DEF BooksInv

\* session_removed invalidates the leases.
LEMMA RemovedKeeps ==
    ASSUME IInv, inbox # <<>>, link = "connected", inbox' = Tail(inbox), invalidateSessionLeases,
           torn' = (torn \/ \E l \in Leases : lease[l].pc \in Acquiring \cup {"releasing"}),
           UNCHANGED <<link, lease, mode, promises, used, inflight, jobs>>
    PROVE  CountsInv' /\ DetachInv' /\ WaitInv' /\ CurrentInv' /\ BooksInv'
  <1>0. TypeOK /\ CountsInv /\ DetachInv /\ WaitInv /\ CurrentInv /\ BooksInv
    BY DEF IInv
  <1>1. PICK r : r = Tail(inbox)
    OBVIOUS
  <1>2. Range(r) \subseteq Range(inbox) /\ AtMostOne(r, DetachAnswers)
    <2>1. inbox \in Seq(MessageType) /\ AtMostOne(inbox, DetachAnswers)
      BY <1>0 DEF TypeOK, MessageType, DetachInv
    <2> QED
      BY <1>1, <2>1, RangeTail, OnceTail
  <1>3. DetachInv'
    BY <1>0, <1>1, <1>2 DEF DetachInv, promises
  <1>4. count' = 0 /\ exclusive' = 0 /\ ~ cleanup' /\ generation' = generation + 1 /\ generation \in Nat
    BY <1>0 DEF invalidateSessionLeases, TypeOK
  <1>5. \A l \in Leases : lease[l].generation < generation' /\ lease[l].generation \in Nat
    BY <1>0, <1>4 DEF CountsInv, TypeOK
  <1>6. CountsInv'
    <2>1. 0 <= used.leases
      BY <1>0, BoundsAssumption DEF TypeOK
    <2>2. \A l \in Leases : lease[l].generation <= generation'
      BY <1>4, <1>5
    <2> QED
      BY <1>0, <1>4, <2>1, <2>2 DEF CountsInv
  <1>7. ~ torn' => ~ torn /\ \A l \in Leases : lease[l].pc \notin Acquiring /\ lease[l].pc # "releasing"
    OBVIOUS
  <1>8. CurrentInv'
    BY <1>7 DEF CurrentInv
  <1>9. WaitInv'
    BY <1>0 DEF WaitInv, HasJob, Pending, promises
  <1>10. ASSUME ~ torn' PROVE Exact'
    <2>1. \A l \in Leases : lease[l].generation # generation'
      BY <1>4, <1>5
    <2>2. Reserved' = {}
      BY <1>7, <1>10, <2>1 DEF Reserved
    <2> QED
      BY <1>4, <2>2, FS_EmptySet DEF Exact
  <1> QED
    BY <1>3, <1>6, <1>8, <1>9, <1>10 DEF BooksInv

\* A message arrives.
LEMMA DeliverKeeps == ASSUME IInv, Deliver PROVE IInv'
  <1>0. TypeOK
    BY DEF IInv
  <1>1. PICK m : m = Head(inbox)
    OBVIOUS
  <1>2. /\ inbox # <<>> /\ link = "connected" /\ inbox' = Tail(inbox)
        /\ UNCHANGED <<link, lease, mode, promises, previous, server, used>>
    BY DEF Deliver
  <1>3. /\ m \in MessageType /\ Tail(inbox) \in Seq(MessageType)
        /\ m.type \in {"ok", "error", "event", "removed"} /\ m.request \in Requests /\ m.snapshot \in Snapshots
    <2>1. inbox \in Seq(MessageType)
      BY <1>0 DEF TypeOK, MessageType
    <2>2. m \in MessageType /\ Tail(inbox) \in Seq(MessageType)
      BY <1>1, <1>2, <2>1, RangeTail
    <2> QED
      BY <2>2 DEF MessageType
  <1>4. \/ applySessionSnapshot(m.snapshot) /\ UNCHANGED <<books, torn>>
        \/ attached' = FALSE /\ UNCHANGED <<books, snapshot, torn>>
        \/ UNCHANGED <<books, attached, snapshot, torn>>
        \/ /\ m.type = "removed" /\ invalidateSessionLeases /\ attached' = FALSE /\ snapshot' = NoSnapshot
           /\ torn' = (torn \/ \E l \in Leases : lease[l].pc \in Acquiring \cup {"releasing"})
    BY <1>1 DEF Deliver
  <1>5. m.type # "removed" => UNCHANGED <<books, torn>>
    BY <1>4 DEF books
  <1>6. attached' \in BOOLEAN /\ snapshot' \in Snapshots /\ torn' \in BOOLEAN
    <2>1. attached \in BOOLEAN /\ snapshot \in Snapshots /\ torn \in BOOLEAN /\ NoSnapshot \in Snapshots
      BY <1>0 DEF TypeOK, Snapshots, NoSnapshot
    <2> QED
      BY <1>3, <1>4, <2>1 DEF applySessionSnapshot
  <1>7. suspect' \in BOOLEAN
    <2>1. suspect' = IF m.type \in {"ok", "error"} THEN m.type = "error" ELSE suspect
      BY <1>1 DEF Deliver
    <2> QED
      BY <1>0, <2>1 DEF TypeOK
  <1>8. CASE m.type \in {"ok", "error"}
    <2>1. /\ inflight' = [inflight EXCEPT ![m.request] = "no"]
          /\ jobs' = Append(jobs, Settles(m.request, m.type = "ok"))
      BY <1>1, <1>8 DEF Deliver
    <2>2. PICK ok \in BOOLEAN, k \in Requests : ok = (m.type = "ok") /\ k = m.request
      BY <1>3
    <2>3. inflight' = [inflight EXCEPT ![k] = "no"] /\ jobs' = Append(jobs, Settles(k, ok))
      BY <2>1, <2>2
    <2>4. UNCHANGED <<books, torn>>
      BY <1>5, <1>8
    <2>5. jobs' \in Seq(JobType) /\ CountsInv' /\ DetachInv' /\ WaitInv' /\ CurrentInv' /\ BooksInv'
      BY <1>1, <1>2, <1>8, <2>2, <2>3, <2>4, AnswerKeeps
    <2>6. inflight' \in InflightType
      BY <1>0, <2>3 DEF TypeOK, InflightType
    <2>7. TypeOK'
      BY <1>0, <1>2, <1>3, <1>6, <1>7, <2>4, <2>5, <2>6
         DEF TypeOK, InflightType, JobType, MessageType, books, promises
    <2> QED
      BY <2>5, <2>7 DEF IInv
  <1>9. CASE m.type = "event"
    <2>1. inflight' = inflight /\ jobs' = jobs
      BY <1>1, <1>9 DEF Deliver
    <2>2. UNCHANGED <<books, torn>>
      BY <1>5, <1>9
    <2>3. CountsInv' /\ DetachInv' /\ WaitInv' /\ CurrentInv' /\ BooksInv'
      BY <1>2, <2>1, <2>2, EventKeeps
    <2>4. TypeOK'
      BY <1>0, <1>2, <1>3, <1>6, <1>7, <2>1, <2>2 DEF TypeOK, MessageType, books, promises
    <2> QED
      BY <2>3, <2>4 DEF IInv
  <1>10. CASE m.type = "removed"
    <2>1. inflight' = inflight /\ jobs' = jobs
      BY <1>1, <1>10 DEF Deliver
    <2>2. /\ invalidateSessionLeases
          /\ torn' = (torn \/ \E l \in Leases : lease[l].pc \in Acquiring \cup {"releasing"})
      BY <1>1, <1>10 DEF Deliver
    <2>3. CountsInv' /\ DetachInv' /\ WaitInv' /\ CurrentInv' /\ BooksInv'
      BY <1>2, <2>1, <2>2, RemovedKeeps
    <2>4. /\ count' \in 0..MaxLeases /\ exclusive' \in {0} \cup Leases /\ generation' \in Nat /\ cleanup' \in BOOLEAN
      <3>1. generation \in Nat
        BY <1>0 DEF TypeOK
      <3>2. count' = 0 /\ exclusive' = 0 /\ cleanup' = FALSE /\ generation' = generation + 1
        BY <2>2 DEF invalidateSessionLeases
      <3>3. cleanup' \in BOOLEAN
        BY <3>2
      <3>4. count' \in 0..MaxLeases /\ exclusive' \in {0} \cup Leases /\ generation' \in Nat
        BY <3>1, <3>2, BoundsAssumption
      <3> QED
        BY <3>3, <3>4
    <2>5. TypeOK'
      BY <1>0, <1>2, <1>3, <1>6, <1>7, <2>1, <2>4 DEF TypeOK, MessageType, promises
    <2> QED
      BY <2>3, <2>5 DEF IInv
  <1> QED
    BY <1>3, <1>8, <1>9, <1>10

-----------------------------------------------------------------------------
(* The connection *)

\* Without a connection and without a turn to come, nothing is pending.
LEMMA IdleQuiet ==
    ASSUME TypeOK, DetachInv, WaitInv, jobs = <<>>, link # "connected"
    PROVE  /\ \A k \in Requests : inflight[k] = "no"
           /\ detachment = 0 /\ \A l \in Leases : lease[l].pc # "releasing"
  <1>1. Range(jobs) = {}
    BY DEF Range
  <1>2. \A k \in Requests : inflight[k] = "no"
    BY DEF WaitInv
  <1>3. detachment = 0
    BY <1>1, <1>2 DEF WaitInv, HasJob, Requests
  <1>4. \A l \in Leases : l # 0
    BY BoundsAssumption DEF Leases
  <1> QED
    BY <1>2, <1>3, <1>4 DEF DetachInv

\* The connection is opened, and then established.
LEMMA ConnectKeeps == ASSUME IInv, connect \/ handshake PROVE IInv'
  <1>0. TypeOK /\ CountsInv /\ DetachInv /\ WaitInv /\ CurrentInv /\ BooksInv
    BY DEF IInv
  <1>1. /\ jobs = <<>> /\ link # "connected" /\ link' \in {"connecting", "connected"}
        /\ attached' \in {attached, FALSE} /\ snapshot' \in {snapshot, NoSnapshot}
        /\ UNCHANGED <<lease, mode, books, promises, previous, jobs, inflight, inbox, server, used, torn, suspect>>
    BY DEF connect, handshake, state
  <1>2. /\ \A k \in Requests : inflight[k] = "no"
        /\ detachment = 0 /\ \A l \in Leases : lease[l].pc # "releasing"
    BY <1>0, <1>1, IdleQuiet
  <1>3. TypeOK'
    <2>1. attached' \in BOOLEAN /\ snapshot' \in Snapshots
      <3>1. attached \in BOOLEAN /\ snapshot \in Snapshots /\ NoSnapshot \in Snapshots
        BY <1>0 DEF TypeOK, Snapshots, NoSnapshot
      <3>2. attached' = attached \/ attached' = FALSE
        BY <1>1
      <3>3. attached' \in BOOLEAN
        BY <3>1, <3>2
      <3> QED
        BY <1>1, <3>1, <3>3
    <2>2. link' \in {"disconnected", "connecting", "connected", "disposed"}
      BY <1>1
    <2> QED
      BY <1>0, <1>1, <2>1, <2>2 DEF TypeOK, books, promises
  <1>4. CountsInv'
    BY <1>0, <1>1 DEF CountsInv, books
  <1>5. DetachInv'
    BY <1>0, <1>1 DEF DetachInv, promises
  <1>6. WaitInv'
    BY <1>0, <1>1, <1>2 DEF WaitInv, HasJob, Pending, promises
  <1>7. CurrentInv'
    BY <1>1, <1>2 DEF CurrentInv
  <1>8. BooksInv'
    <2>1. ~ torn => Exact
      BY <1>1, IdleExact
    <2>2. ~ torn => Exact'
      BY <1>1, <2>1, SameReservations DEF books, Reserved
    <2> QED
      BY <1>1, <2>2 DEF BooksInv
  <1> QED
    BY <1>3, <1>4, <1>5, <1>6, <1>7, <1>8 DEF IInv

\* The requests that are pending are rejected, and no other promise is.
LEMMA RejectIs ==
    ASSUME TypeOK
    PROVE  /\ rejectPendingRequests \in Seq(JobType)
           /\ \A j \in Range(rejectPendingRequests) :
                \E k \in Requests : inflight[k] # "no" /\ j = Settles(k, FALSE)
           /\ \A k \in Requests : inflight[k] # "no" => Settles(k, FALSE) \in Range(rejectPendingRequests)
  <1> DEFINE R(k) == IF inflight[k] = "no" THEN <<>> ELSE <<Settles(k, FALSE)>>
  <1>1. ASSUME NEW k \in Requests
        PROVE  /\ R(k) \in Seq(JobType)
               /\ Range(R(k)) = IF inflight[k] = "no" THEN {} ELSE {Settles(k, FALSE)}
    <2>1. PICK x : x = Settles(k, FALSE)
      OBVIOUS
    <2>2. x \in JobType
      BY <2>1, SettlesIs
    <2>3. /\ <<>> \in Seq(JobType) /\ Range(<<>>) = {}
          /\ <<x>> \in Seq(JobType) /\ DOMAIN <<x>> = {1} /\ <<x>>[1] = x
      BY <2>2 DEF Range
    <2>4. Range(<<x>>) = {x}
      BY <2>3 DEF Range
    <2> QED
      BY <2>1, <2>3, <2>4
  <1>2. PICK a, d, r : a = R("attach") /\ d = R("detach") /\ r = R("reconcile")
    OBVIOUS
  <1>3. a \in Seq(JobType) /\ d \in Seq(JobType) /\ r \in Seq(JobType)
    BY <1>1, <1>2 DEF Requests
  <1>4. rejectPendingRequests = (a \o d) \o r
    BY <1>2 DEF rejectPendingRequests
  <1>5. /\ (a \o d) \o r \in Seq(JobType)
        /\ Range((a \o d) \o r) = (Range(a) \cup Range(d)) \cup Range(r)
    <2>1. a \o d \in Seq(JobType) /\ Range(a \o d) = Range(a) \cup Range(d)
      BY <1>3, RangeConcat
    <2>2. PICK b \in Seq(JobType) : b = a \o d
      BY <2>1
    <2>3. b \o r \in Seq(JobType) /\ Range(b \o r) = Range(b) \cup Range(r)
      BY <1>3, RangeConcat
    <2> QED
      BY <2>1, <2>2, <2>3
  <1>6. /\ Range(a) = IF inflight["attach"] = "no" THEN {} ELSE {Settles("attach", FALSE)}
        /\ Range(d) = IF inflight["detach"] = "no" THEN {} ELSE {Settles("detach", FALSE)}
        /\ Range(r) = IF inflight["reconcile"] = "no" THEN {} ELSE {Settles("reconcile", FALSE)}
    BY <1>1, <1>2 DEF Requests
  <1> HIDE DEF R
  <1> QED
    BY <1>4, <1>5, <1>6 DEF Requests

\* The connection is lost or closed.
LEMMA DisconnectKeeps ==
    ASSUME IInv, NEW how \in {"disconnected", "disposed"}, disconnect(how)
    PROVE  IInv'
  <1>0. TypeOK /\ CountsInv /\ DetachInv /\ WaitInv /\ CurrentInv /\ BooksInv
    BY DEF IInv
  <1>1. /\ jobs = <<>> /\ used.faults < MaxFaults /\ used' = [used EXCEPT !.faults = @ + 1]
        /\ link' = how /\ attached' = FALSE /\ snapshot' \in {snapshot, NoSnapshot}
        /\ invalidateAllSessionLeases /\ jobs' = rejectPendingRequests
        /\ inflight' = [k \in Requests |-> "no"] /\ inbox' = <<>>
        /\ server' = [server EXCEPT !.has = FALSE, !.reply = NoSnapshot] /\ suspect' = FALSE
        /\ UNCHANGED <<lease, mode, promises, previous, torn>>
    BY DEF disconnect
  <1>2. Range(jobs) = {} /\ Range(inbox') = {} /\ DOMAIN inbox' = {}
    BY <1>1 DEF Range
  <1>3. /\ jobs' \in Seq(JobType)
        /\ \A j \in Range(jobs') : \E k \in Requests : inflight[k] # "no" /\ j = Settles(k, FALSE)
        /\ \A k \in Requests : inflight[k] # "no" => Settles(k, FALSE) \in Range(jobs')
    BY <1>0, <1>1, RejectIs
  <1>4. \A j \in Range(jobs') : ~ j.ok
    BY <1>0, <1>3, SettlesIs
  <1>5. \A j \in Range(jobs') : j.of = "lease" => j.lease = detachment /\ detachment \in Leases
    <2>1. \A k \in {"attach", "reconcile"} : Settles(k, FALSE).of = k
      BY <1>0, SettlesIs
    <2>2. Settles("detach", FALSE).lease = detachment
      BY <1>0, SettlesIs DEF IsOf
    <2>3. inflight["detach"] # "no" => detachment \in Leases
      BY <1>0 DEF DetachInv, TypeOK
    <2>4. \A k \in Requests : k = "detach" \/ k \in {"attach", "reconcile"}
      BY DEF Requests
    <2> QED
      BY <1>3, <2>1, <2>2, <2>3, <2>4
  <1>6. generation \in Nat /\ generation' \in {generation, generation + 1}
    BY <1>0, <1>1 DEF invalidateAllSessionLeases, invalidateSessionLeases, TypeOK
  <1>7. /\ count > 0 => count' = 0 /\ exclusive' = 0 /\ generation' = generation + 1
        /\ ~ (count > 0) => UNCHANGED <<count, exclusive, generation>>
        /\ cleanup' = FALSE
    BY <1>1 DEF invalidateAllSessionLeases, invalidateSessionLeases
  <1>8. count' \in 0..MaxLeases /\ count' <= count /\ exclusive' \in {0} \cup Leases /\ count \in Nat
    <2>1. count \in 0..MaxLeases /\ exclusive \in {0} \cup Leases
      BY <1>0 DEF TypeOK
    <2> QED
      BY <1>7, <2>1, BoundsAssumption
  <1>9. /\ used' \in [leases : 0..MaxLeases, faults : 0..MaxFaults, changes : 0..MaxChanges]
        /\ used'.leases = used.leases /\ used.leases \in Nat
    <2>1. used \in [leases : 0..MaxLeases, faults : 0..MaxFaults, changes : 0..MaxChanges]
      BY <1>0 DEF TypeOK
    <2>2. used.faults + 1 \in 0..MaxFaults
      BY <1>1, <2>1, BoundsAssumption
    <2> QED
      BY <1>1, <2>1, <2>2
  <1>10. TypeOK'
    <2>1. server' \in [has : BOOLEAN, snapshot : Snapshots, reply : Snapshots]
      BY <1>0, <1>1 DEF TypeOK, Snapshots, NoSnapshot
    <2>2. snapshot' \in Snapshots /\ attached' \in BOOLEAN
      <3>1. snapshot \in Snapshots /\ NoSnapshot \in Snapshots
        BY <1>0 DEF TypeOK, Snapshots, NoSnapshot
      <3>2. attached' \in BOOLEAN
        BY <1>1
      <3> QED
        BY <1>1, <3>1, <3>2
    <2>3. inflight' \in [Requests -> {"no", "sent", "handled"}]
      BY <1>1
    <2>4. generation' \in Nat
      BY <1>6
    <2>5. inbox' \in Seq([type : {"ok", "error", "event", "removed"}, request : Requests, snapshot : Snapshots])
      BY <1>1
    <2>6. suspect' \in BOOLEAN /\ cleanup' \in BOOLEAN /\ link' \in {"disconnected", "connecting", "connected", "disposed"}
      BY <1>1, <1>7
    <2> QED
      BY <1>0, <1>1, <1>3, <1>8, <1>9, <2>1, <2>2, <2>3, <2>4, <2>5, <2>6 DEF TypeOK, JobType, promises
  <1>11. CountsInv'
    <2>1. \A l \in Leases : lease[l].generation \in Nat /\ lease[l].generation <= generation
      BY <1>0 DEF TypeOK, CountsInv
    <2>2. \A l \in Leases : lease[l].generation <= generation'
      BY <1>6, <2>1
    <2>3. count' <= used'.leases
      BY <1>0, <1>8, <1>9, BoundsAssumption DEF CountsInv
    <2> QED
      BY <1>0, <1>1, <1>5, <1>9, <2>2, <2>3 DEF CountsInv
  <1>12. \A k \in Requests : inflight'[k] = "no"
    BY <1>1
  <1>13. DetachInv'
    <2>1. AtMostOne(inbox', DetachAnswers)
      BY <1>2 DEF AtMostOne
    <2>2. inflight'["detach"] = "no"
      BY <1>12 DEF Requests
    <2> QED
      BY <1>0, <1>1, <1>2, <2>1, <2>2 DEF DetachInv, promises
  <1>14. WaitInv'
    <2>1. \A l \in Leases : /\ lease[l].pc = "detachment" => detachment # 0
                            /\ lease[l].pc = "reconciliation" => reconciliation
                            /\ lease[l].pc = "attachment" => attachment
      BY <1>0, <1>2 DEF WaitInv, HasJob
    <2>2. detachment # 0 => HasJob(detachment)'
      <3>1. detachment # 0 => inflight["detach"] # "no"
        BY <1>0, <1>2 DEF WaitInv, HasJob
      <3>2. IsOf(Settles("detach", FALSE), detachment)
        BY <1>0, SettlesIs
      <3> QED
        BY <1>1, <1>3, <3>1, <3>2 DEF HasJob, promises, Requests
    <2>3. ASSUME NEW k \in {"attach", "reconcile"}, Pending(k) PROVE Pending(k)'
      <3>1. inflight[k] # "no" /\ k \in Requests
        BY <1>2, <2>3 DEF Pending, Requests
      <3>2. Settles(k, FALSE).of = k
        BY <1>0, SettlesIs
      <3> QED
        BY <1>3, <3>1, <3>2 DEF Pending
    <2> QED
      BY <1>0, <1>1, <1>12, <2>1, <2>2, <2>3 DEF WaitInv, promises
  <1>15. CurrentInv'
    BY <1>1, <1>4 DEF CurrentInv
  <1>16. ASSUME ~ torn, count > 0 PROVE Emptied'
    <2>1. \A l \in Leases : lease[l].generation # generation'
      <3>1. \A l \in Leases : lease[l].generation \in Nat /\ lease[l].generation <= generation
        BY <1>0 DEF TypeOK, CountsInv
      <3> QED
        BY <1>6, <1>7, <1>16, <3>1
    <2>2. ASSUME NEW l \in Leases, lease[l].pc = "detachment"
          PROVE  AtMostOne(jobs', JobsOf(l)) /\ ~ HasJob(l)'
      <3>1. detachment # l
        BY <1>0, <2>2 DEF DetachInv
      <3>2. \A j \in Range(jobs') : ~ IsOf(j, l)
        BY <1>5, <3>1 DEF IsOf
      <3>3. \A i \in DOMAIN jobs' : jobs'[i] \notin JobsOf(l)
        BY <3>2 DEF JobsOf, Range
      <3> QED
        BY <3>2, <3>3 DEF HasJob, AtMostOne
    <2>3. Doomed'
      BY <1>1, <1>4, <2>1, <2>2 DEF Doomed
    <2> QED
      BY <1>1, <1>7, <1>16, <2>3 DEF Emptied
  <1>17. ASSUME ~ torn, ~ (count > 0) PROVE Exact'
    <2>1. Exact
      BY <1>1, <1>17, IdleExact
    <2>2. UNCHANGED <<lease, mode, generation, count, exclusive>>
      BY <1>1, <1>7, <1>17
    <2> QED
      BY <2>1, <2>2, SameReservations DEF Reserved
  <1>18. BooksInv'
    BY <1>1, <1>16, <1>17 DEF BooksInv
  <1> QED
    BY <1>10, <1>11, <1>13, <1>14, <1>15, <1>18 DEF IInv

-----------------------------------------------------------------------------
(* The server *)

\* What the server does moves requests and messages, nothing of the client.
LEMMA ServerKeeps ==
    ASSUME IInv, UNCHANGED <<link, lease, mode, books, promises, state, jobs, torn>>,
           used'.leases = used.leases,
           \A k \in Requests : inflight'[k] = "no" <=> inflight[k] = "no",
           AtMostOne(inbox', DetachAnswers),
           Range(inbox') \cap DetachAnswers # {} => inflight'["detach"] = "handled"
    PROVE  CountsInv' /\ DetachInv' /\ WaitInv' /\ CurrentInv' /\ BooksInv'
  <1>0. TypeOK /\ CountsInv /\ DetachInv /\ WaitInv /\ CurrentInv /\ BooksInv
    BY DEF IInv
  <1>1. "attach" \in Requests /\ "detach" \in Requests /\ "reconcile" \in Requests
    BY DEF Requests
  <1>2. CountsInv'
    BY <1>0 DEF CountsInv, books
  <1>3. DetachInv'
    BY <1>0, <1>1 DEF DetachInv, promises
  <1>4. WaitInv'
    <2>1. \A l : HasJob(l) => HasJob(l)'
      BY DEF HasJob
    <2>2. HasJob(detachment) => HasJob(detachment)'
      BY DEF HasJob, promises
    <2>3. \A k \in Requests : Pending(k) => Pending(k)'
      BY DEF Pending
    <2> QED
      BY <1>0, <1>1, <2>1, <2>2, <2>3 DEF WaitInv, promises
  <1>5. CurrentInv'
    BY <1>0 DEF CurrentInv, books
  <1>6. Exact => Exact'
    BY SameReservations DEF books, Reserved
  <1>7. Emptied => Emptied'
    BY DEF Emptied, Doomed, HasJob, books, promises, state
  <1> QED
    BY <1>0, <1>2, <1>3, <1>4, <1>5, <1>6, <1>7 DEF BooksInv

\* A message that answers no detach is sent.
LEMMA Sends ==
    ASSUME TypeOK, DetachInv, NEW m \in MessageType, m \notin DetachAnswers, inbox' = Append(inbox, m)
    PROVE  /\ inbox' \in Seq(MessageType) /\ AtMostOne(inbox', DetachAnswers)
           /\ Range(inbox') \cap DetachAnswers # {} => inflight["detach"] = "handled"
  <1>1. inbox \in Seq(MessageType) /\ AtMostOne(inbox, DetachAnswers)
    BY DEF TypeOK, MessageType, DetachInv
  <1>2. inbox' \in Seq(MessageType) /\ Range(inbox') = Range(inbox) \cup {m}
    BY <1>1, RangeAppend
  <1>3. AtMostOne(inbox', DetachAnswers)
    BY <1>1, OnceAppend
  <1> QED
    BY <1>2, <1>3 DEF DetachInv

\* The messages.
LEMMA MessageIs ==
    ASSUME NEW type \in {"ok", "error", "event", "removed"}, NEW k \in Requests, NEW s \in Snapshots
    PROVE  /\ Message(type, k, s) \in MessageType /\ NoSnapshot \in Snapshots
           /\ type \notin {"ok", "error"} \/ k # "detach" => Message(type, k, s) \notin DetachAnswers
  BY DEF Message, MessageType, DetachAnswers, NoSnapshot, Snapshots

\* One more fault.
LEMMA FaultIs ==
    ASSUME TypeOK, used' = used \/ (used.faults < MaxFaults /\ used' = [used EXCEPT !.faults = @ + 1])
    PROVE  /\ used' \in [leases : 0..MaxLeases, faults : 0..MaxFaults, changes : 0..MaxChanges]
           /\ used'.leases = used.leases
  <1>1. used \in [leases : 0..MaxLeases, faults : 0..MaxFaults, changes : 0..MaxChanges]
    BY DEF TypeOK
  <1>2. used.faults < MaxFaults => used.faults + 1 \in 0..MaxFaults
    BY <1>1, BoundsAssumption
  <1> QED
    BY <1>1, <1>2

\* The server takes up an attach.
LEMMA ServerAttachesKeeps == ASSUME IInv, ServerAttaches PROVE IInv'
  <1>0. TypeOK /\ DetachInv
    BY DEF IInv
  <1>1. /\ inflight["attach"] = "sent" /\ inflight' = [inflight EXCEPT !["attach"] = "handled"]
        /\ used' = used \/ (used.faults < MaxFaults /\ used' = [used EXCEPT !.faults = @ + 1])
        /\ inbox' = inbox \/ inbox' = Append(inbox, Message("error", "attach", NoSnapshot))
        /\ \/ server' = [server EXCEPT !.has = TRUE, !.reply = server.snapshot]
           \/ \E effect \in BOOLEAN : server' = [server EXCEPT !.has = @ \/ effect]
        /\ UNCHANGED <<link, lease, mode, books, promises, state, jobs, torn, suspect>>
    BY DEF ServerAttaches
  <1>2. /\ inflight' \in InflightType /\ inflight'["detach"] = inflight["detach"]
        /\ \A k \in Requests : inflight'[k] = "no" <=> inflight[k] = "no"
    BY <1>0, <1>1 DEF TypeOK, InflightType, Requests
  <1>3. server' \in [has : BOOLEAN, snapshot : Snapshots, reply : Snapshots]
    BY <1>0, <1>1 DEF TypeOK
  <1>4. /\ inbox' \in Seq(MessageType) /\ AtMostOne(inbox', DetachAnswers)
        /\ Range(inbox') \cap DetachAnswers # {} => inflight["detach"] = "handled"
    <2>1. CASE inbox' = inbox
      BY <1>0, <2>1 DEF TypeOK, MessageType, DetachInv
    <2>2. CASE inbox' = Append(inbox, Message("error", "attach", NoSnapshot))
      <3>1. NoSnapshot \in Snapshots
        BY DEF NoSnapshot, Snapshots
      <3>2. Message("error", "attach", NoSnapshot) \in MessageType \ DetachAnswers
        BY <3>1, MessageIs DEF Requests
      <3> QED
        BY <1>0, <2>2, <3>2, Sends
    <2> QED
      BY <1>1, <2>1, <2>2
  <1>5. /\ used' \in [leases : 0..MaxLeases, faults : 0..MaxFaults, changes : 0..MaxChanges]
        /\ used'.leases = used.leases
    BY <1>0, <1>1, FaultIs
  <1>6. TypeOK'
    BY <1>0, <1>1, <1>2, <1>3, <1>4, <1>5 DEF TypeOK, InflightType, MessageType, books, promises, state
  <1>7. CountsInv' /\ DetachInv' /\ WaitInv' /\ CurrentInv' /\ BooksInv'
    BY <1>1, <1>2, <1>4, <1>5, ServerKeeps
  <1> QED
    BY <1>6, <1>7 DEF IInv

\* The server answers an attach.
LEMMA ServerAnswersKeeps == ASSUME IInv, ServerAnswers PROVE IInv'
  <1>0. TypeOK /\ DetachInv
    BY DEF IInv
  <1>1. PICK e, a : e = Message("event", "attach", server.reply) /\ a = Message("ok", "attach", server.reply)
    OBVIOUS
  <1>2. /\ inbox' = inbox \o <<e, a>> /\ server' = [server EXCEPT !.reply = NoSnapshot]
        /\ UNCHANGED <<link, lease, mode, books, promises, state, jobs, inflight, used, torn, suspect>>
    BY <1>1 DEF ServerAnswers
  <1>3. server' \in [has : BOOLEAN, snapshot : Snapshots, reply : Snapshots] /\ server.reply \in Snapshots
    BY <1>0, <1>2 DEF TypeOK, NoSnapshot, Snapshots
  <1>4. e \in MessageType \ DetachAnswers /\ a \in MessageType \ DetachAnswers
    BY <1>1, <1>3, MessageIs DEF Requests
  <1>5. PICK t : t = <<e, a>>
    OBVIOUS
  <1>6. t \in Seq(MessageType) /\ Range(t) = {e, a}
    <2>1. t \in Seq(MessageType) /\ DOMAIN t = {1, 2} /\ t[1] = e /\ t[2] = a
      BY <1>4, <1>5
    <2> QED
      BY <2>1 DEF Range
  <1>7. inbox \in Seq(MessageType) /\ AtMostOne(inbox, DetachAnswers)
    BY <1>0 DEF TypeOK, MessageType, DetachInv
  <1>8. inbox' \in Seq(MessageType) /\ Range(inbox') = Range(inbox) \cup {e, a}
    <2>1. inbox' = inbox \o t
      BY <1>2, <1>5
    <2>2. inbox \o t \in Seq(MessageType) /\ Range(inbox \o t) = Range(inbox) \cup Range(t)
      BY <1>6, <1>7, RangeConcat
    <2> QED
      BY <1>6, <2>1, <2>2
  <1>9. AtMostOne(inbox', DetachAnswers)
    <2>1. Range(t) \cap DetachAnswers = {}
      BY <1>4, <1>6
    <2> QED
      BY <1>2, <1>5, <1>6, <1>7, <2>1, OnceConcat
  <1>10. Range(inbox') \cap DetachAnswers # {} => inflight'["detach"] = "handled"
    BY <1>0, <1>2, <1>4, <1>8 DEF DetachInv
  <1>11. TypeOK'
    BY <1>0, <1>2, <1>3, <1>8 DEF TypeOK, MessageType, books, promises, state
  <1>12. CountsInv' /\ DetachInv' /\ WaitInv' /\ CurrentInv' /\ BooksInv'
    BY <1>2, <1>9, <1>10, ServerKeeps
  <1> QED
    BY <1>11, <1>12 DEF IInv

\* The server detaches, and answers.
LEMMA ServerDetachesKeeps == ASSUME IInv, NEW k \in Requests, ServerDetaches(k) PROVE IInv'
  <1>0. TypeOK /\ DetachInv
    BY DEF IInv
  <1>1. /\ inflight[k] = "sent" /\ inflight' = [inflight EXCEPT ![k] = "handled"]
        /\ used' = used \/ (used.faults < MaxFaults /\ used' = [used EXCEPT !.faults = @ + 1])
        /\ \E type \in {"ok", "error"} : inbox' = Append(inbox, Message(type, k, NoSnapshot))
        /\ server' = [server EXCEPT !.has = FALSE]
        /\ UNCHANGED <<link, lease, mode, books, promises, state, jobs, torn, suspect>>
    BY DEF ServerDetaches
  <1>2. PICK type \in {"ok", "error"} : inbox' = Append(inbox, Message(type, k, NoSnapshot))
    BY <1>1
  <1>3. PICK m : m = Message(type, k, NoSnapshot)
    OBVIOUS
  <1>4. m \in MessageType /\ (k # "detach" => m \notin DetachAnswers)
    <2>1. NoSnapshot \in Snapshots
      BY DEF NoSnapshot, Snapshots
    <2> QED
      BY <1>3, <2>1, MessageIs
  <1>5. /\ inflight' \in InflightType /\ inflight'[k] = "handled"
        /\ \A i \in Requests \ {k} : inflight'[i] = inflight[i]
    BY <1>0, <1>1 DEF TypeOK, InflightType
  <1>6. \A i \in Requests : inflight'[i] = "no" <=> inflight[i] = "no"
    BY <1>1, <1>5
  <1>7. server' \in [has : BOOLEAN, snapshot : Snapshots, reply : Snapshots]
    BY <1>0, <1>1 DEF TypeOK
  <1>8. /\ inbox' \in Seq(MessageType) /\ AtMostOne(inbox', DetachAnswers)
        /\ Range(inbox') \cap DetachAnswers # {} => inflight'["detach"] = "handled"
    <2>1. CASE k = "detach"
      <3>1. inbox \in Seq(MessageType) /\ Range(inbox) \cap DetachAnswers = {}
        BY <1>0, <1>1, <2>1 DEF TypeOK, MessageType, DetachInv
      <3>2. inbox' \in Seq(MessageType)
        BY <1>2, <1>3, <1>4, <3>1, RangeAppend
      <3>3. AtMostOne(inbox', DetachAnswers)
        BY <1>2, <1>3, <1>4, <3>1, OnceAppend
      <3> QED
        BY <1>5, <2>1, <3>2, <3>3
    <2>2. CASE k # "detach"
      <3>1. inflight'["detach"] = inflight["detach"]
        BY <1>5, <2>2 DEF Requests
      <3> QED
        BY <1>0, <1>2, <1>3, <1>4, <2>2, <3>1, Sends
    <2> QED
      BY <2>1, <2>2
  <1>9. /\ used' \in [leases : 0..MaxLeases, faults : 0..MaxFaults, changes : 0..MaxChanges]
        /\ used'.leases = used.leases
    BY <1>0, <1>1, FaultIs
  <1>10. TypeOK'
    BY <1>0, <1>1, <1>5, <1>7, <1>8, <1>9 DEF TypeOK, InflightType, MessageType, books, promises, state
  <1>11. CountsInv' /\ DetachInv' /\ WaitInv' /\ CurrentInv' /\ BooksInv'
    BY <1>1, <1>6, <1>8, <1>9, ServerKeeps
  <1> QED
    BY <1>10, <1>11 DEF IInv

\* The session changes, or is removed.
LEMMA ServerChangesKeeps == ASSUME IInv, ServerChanges \/ ServerRemoves PROVE IInv'
  <1>0. TypeOK /\ DetachInv
    BY DEF IInv
  <1>1. UNCHANGED <<link, lease, mode, books, promises, state, jobs, inflight, torn, suspect>>
    BY DEF ServerChanges, ServerRemoves
  <1>2. server \in [has : BOOLEAN, snapshot : Snapshots, reply : Snapshots]
    BY <1>0 DEF TypeOK
  <1>3. /\ server.snapshot \in Snapshots /\ server.snapshot.epoch + 1 \in Nat /\ server.snapshot.rev + 1 \in Nat
        /\ NoSnapshot \in Snapshots
        /\ [server.snapshot EXCEPT !.rev = @ + 1] \in Snapshots
        /\ [epoch |-> server.snapshot.epoch + 1, rev |-> 1] \in Snapshots
    BY <1>2 DEF Snapshots, NoSnapshot
  <1>4. ASSUME ServerChanges
        PROVE  /\ used' \in [leases : 0..MaxLeases, faults : 0..MaxFaults, changes : 0..MaxChanges]
               /\ used'.leases = used.leases
               /\ server' \in [has : BOOLEAN, snapshot : Snapshots, reply : Snapshots]
    <2>1. used \in [leases : 0..MaxLeases, faults : 0..MaxFaults, changes : 0..MaxChanges]
      BY <1>0 DEF TypeOK
    <2>2. used.changes < MaxChanges /\ used' = [used EXCEPT !.changes = @ + 1]
      BY <1>4 DEF ServerChanges
    <2>3. used.changes + 1 \in 0..MaxChanges
      BY <2>1, <2>2, BoundsAssumption
    <2>4. \/ server' = [server EXCEPT !.snapshot.rev = @ + 1]
          \/ server' = [server EXCEPT !.snapshot = [epoch |-> server.snapshot.epoch + 1, rev |-> 1]]
      BY <1>4 DEF ServerChanges
    <2>5. server' \in [has : BOOLEAN, snapshot : Snapshots, reply : Snapshots]
      BY <1>2, <1>3, <2>4
    <2> QED
      BY <2>1, <2>2, <2>3, <2>5
  <1>5. ASSUME ServerRemoves
        PROVE  /\ used' \in [leases : 0..MaxLeases, faults : 0..MaxFaults, changes : 0..MaxChanges]
               /\ used'.leases = used.leases
               /\ server' \in [has : BOOLEAN, snapshot : Snapshots, reply : Snapshots]
    <2>1. /\ used.faults < MaxFaults /\ used' = [used EXCEPT !.faults = @ + 1]
          /\ server' = [server EXCEPT !.has = FALSE]
      BY <1>5 DEF ServerRemoves
    <2> QED
      BY <1>0, <1>2, <2>1, FaultIs
  <1>6. inbox' = inbox \/ \E m \in MessageType \ DetachAnswers : inbox' = Append(inbox, m)
    <2>1. CASE ServerChanges
      <3>1. PICK s \in Snapshots : s = [server.snapshot EXCEPT !.rev = @ + 1]
        BY <1>3
      <3>2. inbox' = inbox \/ inbox' = Append(inbox, Message("event", "attach", s))
        BY <2>1, <3>1 DEF ServerChanges
      <3>3. Message("event", "attach", s) \in MessageType \ DetachAnswers
        BY <3>1, MessageIs DEF Requests
      <3> QED
        BY <3>2, <3>3
    <2>2. CASE ServerRemoves
      <3>1. inbox' = Append(inbox, Message("removed", "attach", NoSnapshot))
        BY <2>2 DEF ServerRemoves
      <3>2. Message("removed", "attach", NoSnapshot) \in MessageType \ DetachAnswers
        BY <1>3, MessageIs DEF Requests
      <3> QED
        BY <3>1, <3>2
    <2> QED
      BY <2>1, <2>2
  <1>7. /\ inbox' \in Seq(MessageType) /\ AtMostOne(inbox', DetachAnswers)
        /\ Range(inbox') \cap DetachAnswers # {} => inflight["detach"] = "handled"
    <2>1. CASE inbox' = inbox
      BY <1>0, <2>1 DEF TypeOK, MessageType, DetachInv
    <2>2. CASE \E m \in MessageType \ DetachAnswers : inbox' = Append(inbox, m)
      BY <1>0, <2>2, Sends
    <2> QED
      BY <1>6, <2>1, <2>2
  <1>8. TypeOK'
    BY <1>0, <1>1, <1>4, <1>5, <1>7 DEF TypeOK, MessageType, books, promises, state
  <1>9. CountsInv' /\ DetachInv' /\ WaitInv' /\ CurrentInv' /\ BooksInv'
    BY <1>1, <1>4, <1>5, <1>7, ServerKeeps
  <1> QED
    BY <1>8, <1>9 DEF IInv

-----------------------------------------------------------------------------
(* The leases: the theorems *)

\* A client without leases.
LEMMA InitHolds == Init => IInv
  <1> SUFFICES ASSUME Init PROVE IInv
    OBVIOUS
  <1> USE DEF Init
  <1>1. /\ Range(jobs) = {} /\ Range(inbox) = {} /\ DOMAIN inbox = {}
        /\ \A l \in Leases : l # 0 /\ lease[l] = NoLease
    BY BoundsAssumption DEF Range, Leases
  <1>2. TypeOK
    <2>1. lease \in [Leases -> [pc : Labels, generation : Nat, hard : BOOLEAN]]
      BY DEF NoLease, Labels
    <2>2. snapshot \in Snapshots /\ previous \in Snapshots /\ server \in [has : BOOLEAN, snapshot : Snapshots, reply : Snapshots]
      BY DEF Snapshots, NoSnapshot
    <2>3. used \in [leases : 0..MaxLeases, faults : 0..MaxFaults, changes : 0..MaxChanges] /\ count \in 0..MaxLeases
      BY BoundsAssumption
    <2>4. jobs \in Seq([of : {"lease", "attach", "reconcile"}, lease : {0} \cup Leases, ok : BOOLEAN])
      OBVIOUS
    <2>5. inbox \in Seq([type : {"ok", "error", "event", "removed"}, request : Requests, snapshot : Snapshots])
      OBVIOUS
    <2>6. mode \in [Leases -> {"shared", "exclusive"}] /\ inflight \in [Requests -> {"no", "sent", "handled"}]
      OBVIOUS
    <2>7. cleanup \in BOOLEAN /\ attachment \in BOOLEAN /\ reconciliation \in BOOLEAN /\ attached \in BOOLEAN
      OBVIOUS
    <2>8. torn \in BOOLEAN /\ suspect \in BOOLEAN
      OBVIOUS
    <2>9. generation \in Nat /\ exclusive \in {0} \cup Leases /\ detachment \in {0} \cup Leases
      OBVIOUS
    <2>10. link \in {"disconnected", "connecting", "connected", "disposed"}
      OBVIOUS
    <2> HIDE DEF Init
    <2> QED
      BY <2>1, <2>2, <2>3, <2>4, <2>5, <2>6, <2>7, <2>8, <2>9, <2>10 DEF TypeOK
  <1>3. CountsInv
    BY <1>1 DEF CountsInv, NoLease
  <1>4. DetachInv
    BY <1>1 DEF DetachInv, AtMostOne, NoLease, Requests
  <1>5. WaitInv
    BY <1>1 DEF WaitInv, NoLease, Requests
  <1>6. CurrentInv
    BY <1>1 DEF CurrentInv, NoLease
  <1>7. BooksInv
    <2>1. Reserved = {}
      BY <1>1 DEF Reserved, Acquiring, NoLease
    <2> QED
      BY <2>1, FS_EmptySet DEF BooksInv, Exact
  <1> QED
    BY <1>2, <1>3, <1>4, <1>5, <1>6, <1>7 DEF IInv

\* A step that changes nothing.
LEMMA StutterKeeps == ASSUME IInv, UNCHANGED vars PROVE IInv'
  <1>1. /\ UNCHANGED <<link, lease, mode, books, promises, state, jobs, torn>>
        /\ UNCHANGED <<inflight, inbox, server, used, suspect>>
    BY DEF vars
  <1>2. TypeOK'
    BY <1>1 DEF IInv, TypeOK, books, promises, state
  <1>3. AtMostOne(inbox', DetachAnswers) /\ (Range(inbox') \cap DetachAnswers # {} => inflight'["detach"] = "handled")
    BY <1>1 DEF IInv, DetachInv
  <1>4. CountsInv' /\ DetachInv' /\ WaitInv' /\ CurrentInv' /\ BooksInv'
    BY <1>1, <1>3, ServerKeeps
  <1> QED
    BY <1>2, <1>4 DEF IInv

\* IInv holds in every state: the conjuncts of the inductive invariant.
THEOREM InvCorrect == Spec => []IInv
  <1>1. IInv /\ [Next]_vars => IInv'
    <2> SUFFICES ASSUME IInv, [Next]_vars PROVE IInv'
      OBVIOUS
    <2>1. ASSUME NEW l \in Leases, NEW m \in {"shared", "exclusive"}, acquireSession(l, m) PROVE IInv'
      BY <2>1, AcquireKeeps
    <2>2. ASSUME NEW l \in Leases, NEW hard \in BOOLEAN, release(l, hard) PROVE IInv'
      BY <2>2, ReleaseKeeps
    <2>3. CASE RunJob
      BY <2>3, RunJobKeeps
    <2>4. CASE Deliver
      BY <2>4, DeliverKeeps
    <2>5. CASE connect \/ handshake
      BY <2>5, ConnectKeeps
    <2>6. ASSUME NEW how \in {"disconnected", "disposed"}, disconnect(how) PROVE IInv'
      BY <2>6, DisconnectKeeps
    <2>7. CASE Server
      <3>1. ASSUME NEW k \in Requests, ServerDetaches(k) PROVE IInv'
        BY <3>1, ServerDetachesKeeps
      <3> QED
        BY <2>7, <3>1, ServerAttachesKeeps, ServerAnswersKeeps DEF Server
    <2>8. CASE ServerChanges \/ ServerRemoves
      BY <2>8, ServerChangesKeeps
    <2>9. CASE UNCHANGED vars
      BY <2>9, StutterKeeps
    <2> QED
      BY <2>1, <2>2, <2>3, <2>4, <2>5, <2>6, <2>7, <2>8, <2>9 DEF Next
  <1> QED
    BY <1>1, InitHolds, PTL DEF Spec

\* PiClient's fields keep their types, and count and generation their bounds.
THEOREM TypeCorrect == Spec => []TypeOK
  <1>1. IInv => TypeOK
    BY DEF IInv
  <1> QED
    BY <1>1, InvCorrect, PTL

\* Between two turns of the event loop the lease books of PiClient are exact:
\* #sessionLeaseCounts counts the leases that exist, and an exclusive lease is
\* alone, however many users there are and however their acquisitions, releases
\* and lost connections interleave, as long as no removal tears a lease.
THEOREM LeasesCounted == Spec => []LeasesAreCounted
  <1>1. IInv => LeasesAreCounted
    BY IdleExact DEF LeasesAreCounted, Idle, Exact
  <1> QED
    BY <1>1, InvCorrect, PTL

-----------------------------------------------------------------------------
(* The attachment: the inductive invariant *)

LastOnly(q, T) == \A i \in DOMAIN q : q[i] \in T => i = Len(q)

Settlements == {j \in JobType : j.of # "lease"}
Answers == {m \in MessageType : m.type \in {"ok", "error"}}
AnswersTo(k) == {m \in Answers : m.request = k}
Failures == {m \in AnswersTo("attach") : m.type = "error"}
Removals == {m \in MessageType : m.type = "removed"}
Finals == Removals \cup AnswersTo("detach") \cup AnswersTo("reconcile")
Carriers == {m \in MessageType : m.type = "event" \/ (m.type = "ok" /\ m.request = "attach")}
In(T) == \E m \in Range(inbox) : m \in T

\* Nothing that the server did is still to reach the client.
Over == ~ server.has /\ inbox = <<>>
Someone(pc) == \E l \in Leases : lease[l].pc = pc
Promised(k) ==
    \/ k = "attach" /\ attachment
    \/ k = "reconcile" /\ reconciliation
    \/ k = "detach" /\ detachment # 0

\* One request is pending at a time, and someone waits for it.  One that was
\* settled is settled for good: the server has done its part, and what it sent
\* before has arrived.
OnePromise == /\ ~ (attachment /\ reconciliation)
              /\ detachment # 0 => ~ attachment /\ ~ reconciliation
DetachPromise ==
    detachment # 0 => /\ \A j \in Range(jobs) : IsOf(j, detachment)
                      /\ inflight["detach"] = "no" => Over
AttachPromise == attachment => ~ cleanup /\ Someone("attachment")
ReconcilePromise ==
    reconciliation =>
      /\ Someone("reconciliation")
      /\ \/ cleanup
         \/ inflight["reconcile"] = "no" /\ \A j \in Range(jobs) : j.of = "reconcile" /\ ~ j.ok
RequestPromise == \A k \in Requests : inflight[k] # "no" => Promised(k)
JobPromise == \A j \in Range(jobs) : j.of # "lease" => Promised(j.of) /\ inflight[j.of] = "no"
PromisesInv ==
    OnePromise /\ DetachPromise /\ AttachPromise /\ ReconcilePromise /\ RequestPromise /\ JobPromise

\* A batch of leases is resumed for one reason and with one outcome, before
\* anything else is settled.
ReconciledJob(j) ==
    /\ detachment = 0 /\ ~ reconciliation
    /\ j.ok => ~ cleanup /\ (attachment \/ (Over /\ ~ attached))
    /\ ~ j.ok => ~ attachment /\ (server.has => suspect)
AttachedJob(j) ==
    /\ detachment = 0 /\ ~ attachment /\ ~ reconciliation
    /\ ~ j.ok => (server.has => suspect)
LeaseJob(j) ==
    \/ lease[j.lease].pc = "releasing" /\ j.lease = detachment
    \/ lease[j.lease].pc = "detachment" /\ detachment = 0
    \/ lease[j.lease].pc = "reconciliation" /\ ReconciledJob(j)
    \/ lease[j.lease].pc = "attachment" /\ AttachedJob(j)
SettleJob(j) ==
    /\ j.of = "attach" /\ ~ j.ok => (server.has => suspect)
    /\ j.of = "reconcile" => Over /\ (j.ok => ~ attached)
OneBatch ==
    \A j, k \in Range(jobs) : j.of = "lease" /\ k.of = "lease" =>
        lease[j.lease].pc = lease[k.lease].pc /\ j.ok = k.ok
JobsInv ==
    /\ \A l \in Leases : AtMostOne(jobs, JobsOf(l))
    /\ LastOnly(jobs, Settlements)
    /\ OneBatch
    /\ \A j \in Range(jobs) : IF j.of = "lease" THEN LeaseJob(j) ELSE SettleJob(j)

\* A request that the server has handled is answered once, in order.
LinkInv ==
    /\ link # "connected" => Over /\ server.reply = NoSnapshot /\ ~ attached
    /\ server.snapshot.epoch > 0
    /\ AtMostOne(inbox, Answers)
    /\ \A k \in Requests : In(AnswersTo(k)) => inflight[k] = "handled"
    /\ server.reply # NoSnapshot => inflight["attach"] = "handled" /\ ~ In(Answers)

\* A removal is on its way to a client with a request that it precedes: it will
\* tear the lease that waits for the answer.
Crossed ==
    \E i \in DOMAIN inbox :
        /\ inbox[i] \in Removals
        /\ \E k \in Requests : /\ inflight[k] # "no"
                               /\ \A n \in DOMAIN inbox : inbox[n] \in AnswersTo(k) => n > i

\* Otherwise the client knows, or is about to learn, what the server holds for it.
OfThis(s) == s.epoch = server.snapshot.epoch /\ s.rev <= server.snapshot.rev
Newest ==
    \/ \E m \in Range(inbox) : m \in Carriers /\ m.snapshot = server.snapshot
    \/ server.reply = server.snapshot
    \/ attached /\ snapshot = server.snapshot
    \/ In(Failures)
    \/ suspect /\ inflight["attach"] # "handled"
ReplyInv == server.reply # NoSnapshot => server.has /\ OfThis(server.reply)
FinalsInv == LastOnly(inbox, Finals) /\ (In(Finals) => ~ server.has)
CarriersInv ==
    \A m \in Range(inbox) : m \in Carriers =>
        (server.has \/ In(Finals)) /\ (server.has => OfThis(m.snapshot))
KnownInv ==
    /\ server.has /\ (~ suspect \/ inflight["attach"] # "no") =>
         snapshot = NoSnapshot \/ OfThis(snapshot)
    /\ ~ server.has /\ inflight["attach"] # "no" /\ ~ In(Finals) => snapshot = NoSnapshot
HeldInv ==
    /\ attached => server.has \/ suspect \/ In(Finals)
    /\ server.has => Newest
    /\ server.has /\ ~ suspect => Reserved # {}
ServerInv == ReplyInv /\ FinalsInv /\ CarriersInv /\ KnownInv /\ HeldInv

WireInv == LinkInv /\ (~ Crossed => ServerInv)
AttachInv == ~ torn => PromisesInv /\ JobsInv /\ WireInv

-----------------------------------------------------------------------------
(* The last of a sequence *)

\* What only the last may be: of the others, of one more, and of none.
LEMMA LastTail ==
    ASSUME NEW S, NEW s \in Seq(S), s # <<>>, NEW T, LastOnly(s, T)
    PROVE  LastOnly(Tail(s), T) /\ (Head(s) \in T => Tail(s) = <<>>)
  <1>1. PICK t : t = Tail(s)
    OBVIOUS
  <1>2. /\ t \in Seq(S) /\ Len(t) = Len(s) - 1 /\ Len(s) \in Nat \ {0} /\ Head(s) = s[1]
        /\ \A i \in 1..Len(t) : t[i] = s[i + 1]
    BY <1>1, HeadTailProperties, EmptySeq
  <1>3. DOMAIN s = 1..Len(s) /\ DOMAIN t = 1..(Len(s) - 1)
    BY <1>2
  <1>4. LastOnly(t, T)
    <2> SUFFICES ASSUME NEW i \in 1..(Len(s) - 1), t[i] \in T PROVE i = Len(t)
      BY <1>3 DEF LastOnly
    <2>1. i + 1 \in 1..Len(s) /\ s[i + 1] \in T
      BY <1>2
    <2>2. i + 1 = Len(s)
      BY <1>3, <2>1 DEF LastOnly
    <2> QED
      BY <1>2, <2>2
  <1>5. ASSUME Head(s) \in T PROVE t = <<>>
    <2>1. 1 \in 1..Len(s)
      BY <1>2
    <2>2. 1 = Len(s)
      BY <1>2, <1>3, <1>5, <2>1 DEF LastOnly
    <2> QED
      BY <1>2, <2>2, EmptySeq
  <1> QED
    BY <1>1, <1>4, <1>5

\* One more after others that are none of them.
LEMMA LastAppend ==
    ASSUME NEW S, NEW s \in Seq(S), NEW x \in S, NEW T, \A y \in Range(s) : y \notin T
    PROVE  LastOnly(Append(s, x), T) /\ LastOnly(s, T)
  <1>1. PICK t : t = Append(s, x)
    OBVIOUS
  <1>2. /\ t \in Seq(S) /\ Len(t) = Len(s) + 1 /\ Len(s) \in Nat
        /\ \A i \in 1..Len(s) : t[i] = s[i]
    BY <1>1
  <1>3. DOMAIN s = 1..Len(s) /\ DOMAIN t = 1..(Len(s) + 1)
    BY <1>2
  <1>4. \A i \in 1..(Len(s) + 1) : i \in 1..Len(s) \/ i = Len(s) + 1
    BY <1>2
  <1>5. \A i \in 1..Len(s) : s[i] \notin T
    BY <1>3 DEF Range
  <1>6. LastOnly(t, T)
    BY <1>2, <1>3, <1>4, <1>5 DEF LastOnly
  <1>7. LastOnly(s, T)
    BY <1>3, <1>5 DEF LastOnly
  <1> QED
    BY <1>1, <1>6, <1>7

\* A sequence without them.
LEMMA LastNone ==
    ASSUME NEW s, NEW T, \A y \in Range(s) : y \notin T
    PROVE  LastOnly(s, T)
  BY DEF LastOnly, Range

-----------------------------------------------------------------------------
(* Removals that cross a request *)

\* A removal with a request of which no answer is on its way.
LEMMA CrossedBy ==
    ASSUME TypeOK, NEW m \in Range(inbox), m \in Removals, NEW k \in Requests, inflight[k] # "no",
           ~ In(AnswersTo(k))
    PROVE  Crossed
  <1>1. PICK i \in DOMAIN inbox : inbox[i] = m
    BY DEF Range
  <1>2. \A n \in DOMAIN inbox : inbox[n] \notin AnswersTo(k)
    BY DEF In, Range
  <1> QED
    BY <1>1, <1>2 DEF Crossed

\* A removal and a request that crossed stay so when more messages are sent.
LEMMA CrossedStays ==
    ASSUME TypeOK, Crossed, NEW t \in Seq(MessageType), inbox' = inbox \/ inbox' = inbox \o t,
           \A k \in Requests : inflight[k] # "no" => inflight'[k] # "no"
    PROVE  Crossed'
  <1>1. PICK i \in DOMAIN inbox, k \in Requests :
           /\ inbox[i] \in Removals /\ inflight[k] # "no"
           /\ \A n \in DOMAIN inbox : inbox[n] \in AnswersTo(k) => n > i
    BY DEF Crossed
  <1>2. CASE inbox' = inbox
    BY <1>1, <1>2 DEF Crossed
  <1>3. CASE inbox' = inbox \o t
    <2>1. PICK s, u : s = inbox /\ u = inbox'
      OBVIOUS
    <2>2. s \in Seq(MessageType)
      BY <2>1 DEF TypeOK, MessageType
    <2>3. /\ u \in Seq(MessageType) /\ Len(u) = Len(s) + Len(t) /\ Len(s) \in Nat /\ Len(t) \in Nat
          /\ \A n \in 1..(Len(s) + Len(t)) : u[n] = IF n <= Len(s) THEN s[n] ELSE t[n - Len(s)]
      BY <1>3, <2>1, <2>2, ConcatProperties
    <2>4. DOMAIN s = 1..Len(s) /\ DOMAIN u = 1..(Len(s) + Len(t))
      BY <2>2, <2>3
    <2>5. i \in 1..Len(s)
      BY <2>1, <2>4
    <2>6. i \in DOMAIN u /\ u[i] = s[i]
      BY <2>3, <2>4, <2>5
    <2>7. ASSUME NEW n \in DOMAIN u, u[n] \in AnswersTo(k) PROVE n > i
      <3>1. CASE n <= Len(s)
        <4>1. n \in DOMAIN s /\ u[n] = s[n]
          BY <2>3, <2>4, <3>1
        <4> QED
          BY <1>1, <2>1, <2>7, <4>1
      <3>2. CASE ~ (n <= Len(s))
        BY <2>3, <2>4, <2>5, <3>2
      <3> QED
        BY <3>1, <3>2
    <2> QED
      BY <1>1, <2>1, <2>6, <2>7 DEF Crossed
  <1> QED
    BY <1>2, <1>3

\* ... and when a message arrives that is not the removal.
LEMMA CrossedWaits ==
    ASSUME TypeOK, Crossed, inbox # <<>>, inbox' = Tail(inbox), Head(inbox) \notin Removals,
           \A k \in Requests : inflight'[k] = inflight[k] \/ Head(inbox) \in AnswersTo(k)
    PROVE  Crossed'
  <1>1. PICK i \in DOMAIN inbox, k \in Requests :
           /\ inbox[i] \in Removals /\ inflight[k] # "no"
           /\ \A n \in DOMAIN inbox : inbox[n] \in AnswersTo(k) => n > i
    BY DEF Crossed
  <1>2. PICK s, t : s = inbox /\ t = inbox'
    OBVIOUS
  <1>3. s \in Seq(MessageType) /\ s # <<>> /\ t = Tail(s)
    BY <1>2 DEF TypeOK, MessageType
  <1>4. /\ t \in Seq(MessageType) /\ Len(t) = Len(s) - 1 /\ Len(s) \in Nat \ {0} /\ Head(s) = s[1]
        /\ \A n \in 1..Len(t) : t[n] = s[n + 1]
    BY <1>3, HeadTailProperties, EmptySeq
  <1>5. DOMAIN s = 1..Len(s) /\ DOMAIN t = 1..(Len(s) - 1)
    BY <1>3, <1>4
  <1>6. i # 1 /\ i \in 1..Len(s) /\ 1 \in 1..Len(s)
    BY <1>1, <1>2, <1>4, <1>5
  <1>7. ~ (1 > i)
    BY <1>6
  <1>8. s[1] \notin AnswersTo(k)
    BY <1>1, <1>2, <1>5, <1>6, <1>7
  <1>9. inflight'[k] # "no"
    BY <1>1, <1>2, <1>4, <1>8
  <1>10. PICK h : h = i - 1
    OBVIOUS
  <1>11. h \in DOMAIN t /\ t[h] = s[i]
    <2>1. h \in 1..(Len(s) - 1) /\ h + 1 = i
      BY <1>4, <1>6, <1>10
    <2> QED
      BY <1>4, <1>5, <2>1
  <1>12. ASSUME NEW n \in DOMAIN t, t[n] \in AnswersTo(k) PROVE n > h
    <2>1. n + 1 \in 1..Len(s) /\ t[n] = s[n + 1] /\ n \in Nat
      BY <1>4, <1>5
    <2>2. n + 1 > i
      BY <1>1, <1>2, <1>5, <1>12, <2>1
    <2> QED
      BY <1>6, <1>10, <2>1, <2>2
  <1> QED
    BY <1>1, <1>2, <1>9, <1>11, <1>12 DEF Crossed

-----------------------------------------------------------------------------
(* What the client does *)

Asked == \A k \in Requests : inflight'[k] = inflight[k] \/ (inflight[k] = "no" /\ inflight'[k] = "sent")
Recalled ==
    /\ \/ snapshot' = snapshot
       \/ snapshot' = NoSnapshot /\ (server.has => ~ attached)
       \/ snapshot = NoSnapshot /\ inflight'["attach"] = "no" /\ (server.has => suspect)
    /\ inflight'["attach"] = inflight["attach"] \/ snapshot' = NoSnapshot

\* What the client does without a message leaves what it knows of the server.
LEMMA ClientKeepsWire ==
    ASSUME TypeOK, WireInv, UNCHANGED <<link, inbox, server, suspect, attached>>, Asked, Recalled,
           server.has /\ ~ suspect /\ Reserved # {} => Reserved' # {}
    PROVE  WireInv'
  <1>1. LinkInv'
    BY DEF WireInv, LinkInv, Asked, Over, In, Requests
  <1>2. ASSUME ~ Crossed' PROVE ServerInv'
    <2>1. ~ Crossed
      <3>1. \A k \in Requests : inflight[k] # "no" => inflight'[k] # "no"
        BY DEF Asked
      <3>2. <<>> \in Seq(MessageType)
        OBVIOUS
      <3> QED
        BY <1>2, <3>1, <3>2, CrossedStays
    <2>2. ServerInv /\ LinkInv
      BY <2>1 DEF WireInv
    <2>4. ReplyInv' /\ FinalsInv' /\ CarriersInv'
      BY <2>2 DEF ServerInv, ReplyInv, FinalsInv, CarriersInv, OfThis, In
    <2>5. inflight["attach"] # "no" => inflight'["attach"] = inflight["attach"]
      BY DEF Asked, Requests
    <2>7. In(Finals)' <=> In(Finals)
      BY DEF In
    <2>8. KnownInv'
      BY <2>2, <2>5, <2>7 DEF ServerInv, KnownInv, Recalled, OfThis
    <2>9. server.snapshot # NoSnapshot
      BY <2>2 DEF LinkInv, NoSnapshot
    <2>10. server.has /\ Newest => Newest'
      <3>1. inflight["attach"] # "handled" => inflight'["attach"] # "handled"
        BY DEF Asked, Requests
      <3>2. In(Failures) => In(Failures)'
        BY DEF In
      <3> QED
        BY <2>9, <3>1, <3>2 DEF Newest, Recalled
    <2>11. HeldInv'
      BY <2>2, <2>7, <2>10 DEF ServerInv, HeldInv
    <2> QED
      BY <2>4, <2>8, <2>11 DEF ServerInv
  <1> QED
    BY <1>1, <1>2 DEF WireInv

\* The jobs that are left for a lease to join: none of them is its own.
Rest(l, rest) ==
    /\ rest \in Seq(JobType) /\ Range(rest) \subseteq Range(jobs)
    /\ \A m \in Leases : AtMostOne(rest, JobsOf(m))
    /\ LastOnly(rest, Settlements)
    /\ \A j \in Range(rest) : ~ IsOf(j, l)

\* The jobs of a client are of their type.
LEMMA JobsAre ==
    ASSUME TypeOK
    PROVE  /\ jobs \in Seq(JobType)
           /\ \A j \in Range(jobs) : /\ j \in JobType /\ j.of \in {"lease", "attach", "reconcile"}
                                     /\ j.ok \in BOOLEAN /\ (j \in Settlements <=> j.of # "lease")
  <1>1. jobs \in Seq(JobType)
    BY DEF TypeOK, JobType
  <1>2. \A i \in DOMAIN jobs : jobs[i] \in JobType
    BY <1>1
  <1> QED
    BY <1>1, <1>2 DEF Range, JobType, Settlements

\* Those behind a lease's job are others'.
LEMMA HeadRest ==
    ASSUME TypeOK, JobsInv, jobs # <<>>, NEW l \in Leases, IsOf(Head(jobs), l)
    PROVE  Rest(l, Tail(jobs)) /\ Head(jobs) \in Range(jobs) /\ Range(jobs) = {Head(jobs)} \cup Range(Tail(jobs))
  <1>1. jobs \in Seq(JobType)
    BY JobsAre
  <1>2. PICK h, t : h = Head(jobs) /\ t = Tail(jobs)
    OBVIOUS
  <1>3. h \in JobType /\ t \in Seq(JobType) /\ Range(jobs) = {h} \cup Range(t)
    BY <1>1, <1>2, RangeTail
  <1>4. \A m \in Leases : AtMostOne(t, JobsOf(m)) /\ (h \in JobsOf(m) => Range(t) \cap JobsOf(m) = {})
    BY <1>1, <1>2, OnceTail DEF JobsInv
  <1>5. LastOnly(t, Settlements)
    BY <1>1, <1>2, LastTail DEF JobsInv
  <1>6. h \in JobsOf(l)
    BY <1>2, <1>3 DEF JobsOf
  <1>7. \A j \in Range(t) : j \in JobType
    BY <1>3, JobsAre
  <1>8. \A j \in Range(t) : ~ IsOf(j, l)
    BY <1>4, <1>6, <1>7 DEF JobsOf
  <1> QED
    BY <1>2, <1>3, <1>4, <1>5, <1>8 DEF Rest

\* Behind a settlement there are none.
LEMMA HeadSettles ==
    ASSUME TypeOK, JobsInv, jobs # <<>>
    PROVE  /\ Head(jobs) \in Range(jobs) /\ Head(jobs) \in JobType /\ Head(jobs).ok \in BOOLEAN
           /\ Head(jobs).of # "lease" => Tail(jobs) = <<>>
  <1>1. jobs \in Seq(JobType)
    BY JobsAre
  <1>2. PICK h : h = Head(jobs)
    OBVIOUS
  <1>3. h \in JobType /\ h \in Range(jobs)
    BY <1>1, <1>2, RangeTail
  <1>4. h \in Settlements => Tail(jobs) = <<>>
    BY <1>1, <1>2, LastTail DEF JobsInv
  <1> QED
    BY <1>2, <1>3, <1>4 DEF Settlements, JobType

\* Between two calls there are no jobs.
LEMMA IdleRest ==
    ASSUME jobs = <<>>, NEW l
    PROVE  Rest(l, jobs) /\ Range(jobs) = {}
  <1>1. Range(jobs) = {} /\ DOMAIN jobs = {} /\ jobs \in Seq(JobType)
    BY DEF Range
  <1> QED
    BY <1>1 DEF Rest, AtMostOne, LastOnly

\* A rejection joins the others, of which none is a settlement.
LEMMA RestJoins ==
    ASSUME TypeOK, NEW l, NEW rest, Rest(l, rest), NEW k \in {"attach", "reconcile"},
           jobs' = rest \/ (jobs' = Append(rest, Settles(k, FALSE)) /\ \A j \in Range(rest) : j.of = "lease")
    PROVE  /\ \A m \in Leases : AtMostOne(jobs', JobsOf(m))
           /\ LastOnly(jobs', Settlements)
           /\ \A j \in Range(jobs') : j \in Range(rest) \/ (j.of = k /\ ~ j.ok /\ jobs' # rest)
  <1>1. rest \in Seq(JobType)
    BY DEF Rest
  <1>2. CASE jobs' = rest
    BY <1>2 DEF Rest
  <1>3. CASE jobs' = Append(rest, Settles(k, FALSE)) /\ \A j \in Range(rest) : j.of = "lease"
    <2>1. PICK x : x = Settles(k, FALSE)
      OBVIOUS
    <2>2. x \in JobType /\ x.of = k /\ ~ x.ok /\ x.of # "lease"
      BY <2>1, SettlesIs DEF Requests
    <2>3. Range(Append(rest, x)) = Range(rest) \cup {x}
      BY <1>1, <2>2, RangeAppend
    <2>4. \A m \in Leases : x \notin JobsOf(m)
      BY <2>2 DEF JobsOf, IsOf
    <2>5. \A m \in Leases : AtMostOne(Append(rest, x), JobsOf(m))
      BY <1>1, <2>2, <2>4, OnceAppend DEF Rest
    <2>6. \A j \in Range(rest) : j \notin Settlements
      BY <1>3 DEF Settlements
    <2>7. LastOnly(Append(rest, x), Settlements)
      BY <1>1, <2>2, <2>6, LastAppend
    <2>8. Append(rest, x) # rest
      <3>1. Len(Append(rest, x)) = Len(rest) + 1 /\ Len(rest) \in Nat
        BY <1>1, <2>2
      <3> QED
        BY <3>1
    <2> QED
      BY <1>3, <2>1, <2>2, <2>3, <2>5, <2>7, <2>8
  <1> QED
    BY <1>2, <1>3

\* A lease joins the pending request k, or asks for it, while the others whose
\* turn is to come wait for a detach or, when k attaches, were reconciled.
Joined(l, rest, k, pc) ==
    /\ lease' = [lease EXCEPT ![l].pc = pc]
    /\ IF Promised(k) THEN jobs' = rest /\ UNCHANGED inflight ELSE Send(k, rest)
    /\ detachment' = 0 /\ detachment = 0
    /\ attachment' = (k = "attach") /\ reconciliation' = (k = "reconcile")
    /\ attachment => k = "attach"
    /\ reconciliation => k = "reconcile"
    /\ cleanup <=> k = "reconcile"
    /\ UNCHANGED <<link, inbox, server, suspect, attached, cleanup>>
Batch(rest, k) ==
    \A j \in Range(rest) : j.of = "lease" =>
        \/ lease[j.lease].pc = "detachment"
        \/ lease[j.lease].pc = "reconciliation" /\ j.ok /\ k = "attach"

\* Joining keeps the promises and the jobs in order.
LEMMA JoinedKeeps ==
    ASSUME TypeOK, CountsInv, WaitInv, PromisesInv, JobsInv, LinkInv, NEW l \in Leases, NEW rest, Rest(l, rest),
           NEW k \in {"attach", "reconcile"}, NEW pc, pc = IF k = "attach" THEN "attachment" ELSE "reconciliation",
           Joined(l, rest, k, pc), Batch(rest, k), lease[l].pc # pc
    PROVE  PromisesInv' /\ JobsInv' /\ Asked
  <1>1. /\ lease' = [lease EXCEPT ![l].pc = pc] /\ detachment' = 0 /\ detachment = 0
        /\ attachment' = (k = "attach") /\ reconciliation' = (k = "reconcile")
        /\ attachment => k = "attach"
        /\ reconciliation => k = "reconcile"
        /\ cleanup <=> k = "reconcile"
        /\ UNCHANGED <<link, inbox, server, suspect, attached, cleanup>>
    BY DEF Joined
  <1>2. Promised(k)' /\ (\A r \in Requests \ {k} : ~ Promised(r))
    BY <1>1 DEF Promised, Requests
  <1>3. rest \in Seq(JobType) /\ k \in Requests /\ (Over' <=> Over)
    BY <1>1 DEF Rest, Requests, Over
  <1>4. /\ \A j \in Range(rest) : j \in Range(jobs) /\ j \in JobType
        /\ \A j \in Range(rest) : j.of # "lease" => j.of = k /\ Promised(k) /\ inflight[k] = "no"
    <2>1. \A j \in Range(rest) : j \in Range(jobs) /\ j \in JobType /\ j.of \in {"lease", "attach", "reconcile"}
      BY JobsAre DEF Rest
    <2> QED
      BY <1>2, <2>1 DEF PromisesInv, JobPromise, Requests
  <1>5. /\ lease' \in LeaseType /\ lease'[l].pc = pc /\ \A m \in Leases \ {l} : lease'[m] = lease[m]
    BY <1>1 DEF TypeOK, LeaseType, Labels
  <1>6. /\ \A r \in Requests \ {k} : inflight'[r] = inflight[r] /\ inflight[r] = "no"
        /\ inflight'[k] = inflight[k] \/ (inflight[k] = "no" /\ inflight'[k] = "sent" /\ ~ Promised(k))
        /\ \/ jobs' = rest
           \/ /\ jobs' = Append(rest, Settles(k, FALSE)) /\ (\A j \in Range(rest) : j.of = "lease")
              /\ Over /\ inflight'[k] = "no"
    <2>1. \A r \in Requests : inflight[r] # "no" => Promised(r)
      BY DEF PromisesInv, RequestPromise
    <2>2. CASE Promised(k)
      BY <1>2, <2>1, <2>2 DEF Joined
    <2>3. CASE ~ Promised(k)
      <3>1. Send(k, rest) /\ inflight[k] = "no"
        BY <1>3, <2>1, <2>3 DEF Joined
      <3>2. \A j \in Range(rest) : j.of = "lease"
        BY <1>4, <2>3
      <3>3. CASE link = "connected"
        <4>1. inflight' = [inflight EXCEPT ![k] = "sent"] /\ jobs' = rest
          BY <3>1, <3>3 DEF Send
        <4> QED
          BY <1>2, <1>3, <2>1, <2>3, <3>1, <4>1 DEF TypeOK
      <3>4. CASE link # "connected"
        <4>1. jobs' = Append(rest, Settles(k, FALSE)) /\ inflight' = inflight
          BY <3>1, <3>4 DEF Send
        <4>2. Over
          BY <3>4 DEF LinkInv
        <4> QED
          BY <1>2, <2>1, <3>1, <3>2, <4>1, <4>2
      <3> QED
        BY <3>3, <3>4
    <2> QED
      BY <2>2, <2>3
  <1>7. Asked
    BY <1>6 DEF Asked
  <1>8. /\ \A m \in Leases : AtMostOne(jobs', JobsOf(m))
        /\ LastOnly(jobs', Settlements)
        /\ \A j \in Range(jobs') : j \in Range(rest) \/ (j.of = k /\ ~ j.ok /\ jobs' # rest)
    BY <1>6, RestJoins
  <1>9. \A j \in Range(jobs') : j.of # "lease" => j.of = k /\ inflight'[k] = "no"
    BY <1>4, <1>6, <1>8
  <1>10. PromisesInv'
    <2>1. OnePromise' /\ DetachPromise'
      BY <1>1 DEF OnePromise, DetachPromise
    <2>2. AttachPromise' /\ ReconcilePromise'
      BY <1>1, <1>5 DEF AttachPromise, ReconcilePromise, Someone
    <2>3. RequestPromise'
      BY <1>2, <1>6 DEF RequestPromise
    <2>4. JobPromise'
      BY <1>2, <1>9 DEF JobPromise
    <2> QED
      BY <2>1, <2>2, <2>3, <2>4 DEF PromisesInv
  <1>11. ASSUME NEW j \in Range(jobs'), j.of = "lease"
         PROVE  /\ j \in Range(rest) /\ j \in Range(jobs) /\ j.lease \in Leases /\ j.lease # l
                /\ lease'[j.lease] = lease[j.lease]
    <2>1. j \in Range(rest) /\ j \in Range(jobs)
      BY <1>4, <1>8, <1>11
    <2>2. j.lease \in Leases /\ ~ IsOf(j, l)
      BY <1>11, <2>1 DEF CountsInv, Rest
    <2> QED
      BY <1>5, <1>11, <2>1, <2>2 DEF IsOf
  <1>12. OneBatch'
    BY <1>11 DEF OneBatch, JobsInv
  <1>13. ASSUME NEW j \in Range(jobs') PROVE IF j.of = "lease" THEN LeaseJob(j)' ELSE SettleJob(j)'
    <2>1. CASE j.of = "lease"
      <3>1. /\ j \in Range(rest) /\ j \in Range(jobs) /\ j.lease \in Leases /\ j.lease # l
            /\ lease'[j.lease] = lease[j.lease]
        BY <1>11, <2>1
      <3>2. CASE lease[j.lease].pc = "detachment"
        BY <1>1, <2>1, <3>1, <3>2 DEF LeaseJob
      <3>3. CASE lease[j.lease].pc = "reconciliation" /\ j.ok /\ k = "attach"
        BY <1>1, <2>1, <3>1, <3>3 DEF LeaseJob, ReconciledJob
      <3> QED
        BY <2>1, <3>1, <3>2, <3>3 DEF Batch
    <2>2. CASE j.of # "lease"
      <3>1. CASE j \in Range(rest)
        <4>1. j \in Range(jobs)
          BY <1>4, <3>1
        <4>2. SettleJob(j)
          BY <2>2, <4>1 DEF JobsInv
        <4> QED
          BY <1>1, <1>3, <2>2, <4>2 DEF SettleJob
      <3>2. CASE j.of = k /\ ~ j.ok /\ jobs' # rest
        <4>1. Over'
          BY <1>3, <1>6, <3>2
        <4> QED
          BY <2>2, <3>2, <4>1 DEF SettleJob, Over
      <3> QED
        BY <1>8, <3>1, <3>2
    <2> QED
      BY <2>1, <2>2
  <1>14. JobsInv'
    BY <1>8, <1>12, <1>13 DEF JobsInv
  <1> QED
    BY <1>7, <1>10, <1>14

\* A lease that waits for nothing any more leaves the others as they are.
LEMMA LeavesKeeps ==
    ASSUME TypeOK, CountsInv, PromisesInv, JobsInv, NEW l \in Leases, NEW rest, Rest(l, rest), jobs' = rest,
           \A m \in Leases \ {l} : lease'[m] = lease[m],
           attachment => lease[l].pc # "attachment", reconciliation => lease[l].pc # "reconciliation",
           UNCHANGED <<promises, inflight, inbox, server, suspect, attached, cleanup>>
    PROVE  PromisesInv' /\ JobsInv'
  <1>1. \A j \in Range(jobs') : j \in Range(jobs)
    BY DEF Rest
  <1>2. /\ detachment' = detachment /\ attachment' = attachment /\ reconciliation' = reconciliation
        /\ (Over' <=> Over) /\ \A k : Promised(k)' <=> Promised(k)
    BY DEF promises, Over, Promised
  <1>3. /\ attachment /\ Someone("attachment") => Someone("attachment")'
        /\ reconciliation /\ Someone("reconciliation") => Someone("reconciliation")'
    BY DEF Someone
  <1>4. PromisesInv'
    <2>1. OnePromise' /\ DetachPromise'
      BY <1>1, <1>2 DEF PromisesInv, OnePromise, DetachPromise
    <2>2. AttachPromise' /\ ReconcilePromise'
      BY <1>1, <1>2, <1>3 DEF PromisesInv, AttachPromise, ReconcilePromise
    <2>3. RequestPromise' /\ JobPromise'
      BY <1>1, <1>2 DEF PromisesInv, RequestPromise, JobPromise
    <2> QED
      BY <2>1, <2>2, <2>3 DEF PromisesInv
  <1>5. \A j \in Range(jobs') : j.of = "lease" => lease'[j.lease] = lease[j.lease]
    BY <1>1 DEF CountsInv, Rest, IsOf
  <1>6. OneBatch'
    BY <1>1, <1>5 DEF OneBatch, JobsInv
  <1>7. ASSUME NEW j \in Range(jobs') PROVE IF j.of = "lease" THEN LeaseJob(j)' ELSE SettleJob(j)'
    <2>1. IF j.of = "lease" THEN LeaseJob(j) ELSE SettleJob(j)
      BY <1>1 DEF JobsInv
    <2>2. j.of = "lease" => LeaseJob(j)'
      BY <1>2, <1>5, <2>1 DEF LeaseJob, ReconciledJob, AttachedJob
    <2>3. j.of # "lease" => SettleJob(j)'
      BY <1>2, <2>1 DEF SettleJob
    <2> QED
      BY <2>2, <2>3
  <1>8. JobsInv'
    BY <1>6, <1>7 DEF JobsInv, Rest
  <1> QED
    BY <1>4, <1>8

\* The clean-up that is pending is required, unless it is about to fail.
LEMMA ReconcileCleans ==
    ASSUME TypeOK, WaitInv, PromisesInv, jobs = <<>> \/ \E j \in Range(jobs) : j.of = "lease", reconciliation
    PROVE  cleanup
  <1>1. CASE jobs = <<>>
    <2>1. Range(jobs) = {}
      BY <1>1 DEF Range
    <2>2. inflight["reconcile"] # "no"
      BY <2>1 DEF WaitInv, Pending
    <2> QED
      BY <2>2 DEF PromisesInv, ReconcilePromise
  <1>2. CASE \E j \in Range(jobs) : j.of = "lease"
    BY <1>2 DEF PromisesInv, ReconcilePromise
  <1> QED
    BY <1>1, <1>2

\* #attachSession(), or the pending attach.
LEMMA AttachKeeps ==
    ASSUME TypeOK, CountsInv, WaitInv, PromisesInv, JobsInv, LinkInv, NEW l \in Leases, NEW rest, Rest(l, rest),
           Attach(l, rest), Batch(rest, "attach"), ~ cleanup, ~ reconciliation, detachment = 0,
           attachment \/ (server.has => ~ attached), lease[l].pc # "attachment",
           UNCHANGED <<link, inbox, server, suspect, cleanup>>
    PROVE  PromisesInv' /\ JobsInv' /\ Asked /\ Recalled /\ attached' = attached
  <1>1. attached' = attached /\ attachment' = TRUE /\ detachment' = detachment /\ reconciliation' = reconciliation
    BY DEF Attach
  <1>2. Promised("attach") <=> attachment
    BY DEF Promised
  <1>3. lease' = [lease EXCEPT ![l].pc = "attachment"]
    BY DEF Attach
  <1>4. IF Promised("attach") THEN jobs' = rest /\ UNCHANGED inflight ELSE Send("attach", rest)
    BY <1>2 DEF Attach
  <1>5. attachment' = ("attach" = "attach") /\ reconciliation' = ("attach" = "reconcile")
    <2>1. reconciliation \in BOOLEAN
      BY DEF TypeOK
    <2> QED
      BY <1>1, <2>1
  <1>6. Joined(l, rest, "attach", "attachment")
    BY <1>1, <1>3, <1>4, <1>5 DEF Joined
  <1>7. PromisesInv' /\ JobsInv' /\ Asked
    BY <1>6, JoinedKeeps
  <1>8. Recalled
    <2>1. CASE attachment
      BY <2>1 DEF Attach, Recalled
    <2>2. CASE ~ attachment
      <3>1. snapshot' = NoSnapshot
        BY <2>2 DEF Attach, Forgotten
      <3> QED
        BY <2>2, <3>1 DEF Recalled
    <2> QED
      BY <2>1, <2>2
  <1> QED
    BY <1>1, <1>7, <1>8

\* After the pending detach.
LEMMA AfterDetachmentKeeps ==
    ASSUME TypeOK, CountsInv, WaitInv, PromisesInv, JobsInv, LinkInv, NEW l \in Leases, NEW rest, Rest(l, rest),
           AfterDetachment(l, rest), \A j \in Range(rest) : j.of = "lease" => lease[j.lease].pc = "detachment",
           jobs = <<>> \/ \E j \in Range(jobs) : j.of = "lease",
           detachment = 0, lease[l].pc \in {"none", "detachment"},
           UNCHANGED <<link, inbox, server, suspect, generation, cleanup>>
    PROVE  PromisesInv' /\ JobsInv' /\ Asked /\ Recalled /\ attached' = attached /\ Reserved' # {}
  <1>1. reconciliation => cleanup
    BY ReconcileCleans
  <1>2. attachment => ~ cleanup
    BY DEF PromisesInv, AttachPromise
  <1>3. \A k : Batch(rest, k)
    BY DEF Batch
  <1>4. lease'[l].pc \in Acquiring \/ (lease'[l].pc = "active" /\ lease'[l].generation = generation')
    BY DEF AfterDetachment, Attach, Goto, Acquiring, TypeOK
  <1>5. Reserved' # {}
    BY <1>4 DEF Reserved
  <1>6. CASE cleanup
    <2>1. /\ Goto(l, "reconciliation") /\ reconciliation' = TRUE
          /\ UNCHANGED <<attached, snapshot, previous, detachment, attachment>>
          /\ IF reconciliation THEN jobs' = rest /\ UNCHANGED inflight ELSE Send("reconcile", rest)
      BY <1>6 DEF AfterDetachment, state
    <2>2. Promised("reconcile") <=> reconciliation
      BY DEF Promised
    <2>3. attachment' = ("reconcile" = "attach") /\ reconciliation' = ("reconcile" = "reconcile")
      <3>1. attachment \in BOOLEAN
        BY DEF TypeOK
      <3> QED
        BY <1>2, <1>6, <2>1, <3>1
    <2>4. Joined(l, rest, "reconcile", "reconciliation")
      BY <1>2, <1>6, <2>1, <2>2, <2>3 DEF Joined, Goto
    <2>5. PromisesInv' /\ JobsInv' /\ Asked
      BY <1>3, <2>4, JoinedKeeps
    <2>6. inflight'["attach"] = inflight["attach"]
      <3>1. inflight' = inflight \/ inflight' = [inflight EXCEPT !["reconcile"] = "sent"]
        BY <2>1 DEF Send
      <3> QED
        BY <3>1 DEF TypeOK, Requests
    <2> QED
      BY <1>5, <2>1, <2>5, <2>6 DEF Recalled
  <1>7. CASE ~ cleanup /\ ~ attached
    <2>1. Attach(l, rest)
      BY <1>7 DEF AfterDetachment
    <2> QED
      BY <1>1, <1>3, <1>5, <1>7, <2>1, AttachKeeps
  <1>8. CASE ~ cleanup /\ attached
    <2>1. /\ lease' = [lease EXCEPT ![l].pc = "active", ![l].generation = generation] /\ jobs' = rest
          /\ UNCHANGED <<state, inflight, promises>>
      BY <1>8 DEF AfterDetachment
    <2>2. attached' = attached /\ snapshot' = snapshot
      BY <2>1 DEF state
    <2>3. \A m \in Leases \ {l} : lease'[m] = lease[m]
      BY <2>1 DEF TypeOK
    <2>4. PromisesInv' /\ JobsInv'
      BY <2>1, <2>2, <2>3, LeavesKeeps
    <2> QED
      BY <1>5, <2>1, <2>2, <2>4 DEF Asked, Recalled
  <1> QED
    BY <1>6, <1>7, <1>8

\* acquireSession()
LEMMA AcquireAttach ==
    ASSUME IInv, AttachInv, NEW l \in Leases, NEW m \in {"shared", "exclusive"}, acquireSession(l, m)
    PROVE  AttachInv'
  <1>0. TypeOK /\ CountsInv /\ WaitInv
    BY DEF IInv
  <1>1. /\ jobs = <<>> /\ l = used.leases + 1 /\ reserveSessionLease(l, m)
        /\ UNCHANGED <<link, inbox, server, torn, suspect>>
    BY DEF acquireSession
  <1>2. UNCHANGED <<generation, cleanup>>
    BY <1>1 DEF reserveSessionLease
  <1> SUFFICES ASSUME ~ torn PROVE PromisesInv' /\ JobsInv' /\ WireInv'
    BY <1>1 DEF AttachInv
  <1>3. PromisesInv /\ JobsInv /\ WireInv /\ LinkInv
    BY DEF AttachInv, WireInv
  <1>4. lease[l].pc = "none"
    <2>1. used.leases \in Nat /\ l > used.leases
      BY <1>0, <1>1, BoundsAssumption DEF TypeOK
    <2> QED
      BY <1>0, <2>1 DEF CountsInv
  <1>5. Rest(l, jobs) /\ Range(jobs) = {}
    BY <1>1, IdleRest
  <1>6. CASE detachment # 0 /\ Goto(l, "detachment") /\ UNCHANGED <<state, jobs, inflight, promises>>
    <2>1. \A k \in Leases \ {l} : lease'[k] = lease[k]
      BY <1>0, <1>6 DEF Goto, TypeOK
    <2>2. attached' = attached /\ snapshot' = snapshot
      BY <1>6 DEF state
    <2>3. PromisesInv' /\ JobsInv'
      BY <1>0, <1>1, <1>2, <1>3, <1>4, <1>5, <1>6, <2>1, <2>2, LeavesKeeps
    <2>4. Reserved' # {}
      BY <1>0, <1>6 DEF Reserved, Goto, Acquiring, TypeOK
    <2>5. Asked /\ Recalled
      BY <1>6, <2>2 DEF Asked, Recalled
    <2>6. WireInv'
      BY <1>0, <1>1, <1>3, <2>2, <2>4, <2>5, ClientKeepsWire
    <2> QED
      BY <2>3, <2>6
  <1>7. CASE detachment = 0 /\ AfterDetachment(l, jobs)
    <2>1. PromisesInv' /\ JobsInv' /\ Asked /\ Recalled /\ attached' = attached /\ Reserved' # {}
      BY <1>0, <1>1, <1>2, <1>3, <1>4, <1>5, <1>7, AfterDetachmentKeeps
    <2>2. WireInv'
      BY <1>0, <1>1, <1>3, <2>1, ClientKeepsWire
    <2> QED
      BY <2>1, <2>2
  <1> QED
    BY <1>6, <1>7 DEF acquireSession

\* Two leases that exist are counted as two.
LEMMA CountedTwice ==
    ASSUME Exact, NEW l \in Reserved, NEW k \in Reserved, l # k
    PROVE  ~ (count <= 1)
  <1>1. IsFiniteSet(Reserved) /\ Cardinality(Reserved) \in Nat
    BY ReservedFinite
  <1>2. PICK S : S = Reserved \ {l}
    OBVIOUS
  <1>3. IsFiniteSet(S) /\ Cardinality(S) = Cardinality(Reserved) - 1
    BY <1>1, <1>2, FS_RemoveElement
  <1>4. Cardinality(S) # 0 /\ Cardinality(S) \in Nat
    BY <1>2, <1>3, FS_EmptySet, FS_CardinalityType
  <1> QED
    BY <1>1, <1>3, <1>4 DEF Exact

\* ... and one that is alone as one.
LEMMA CountedOnce ==
    ASSUME Exact, ~ (count <= 1), NEW l
    PROVE  \E k \in Reserved : k # l
  <1>1. IsFiniteSet(Reserved) /\ Cardinality(Reserved) \in Nat
    BY ReservedFinite
  <1>2. ASSUME \A k \in Reserved : k = l PROVE FALSE
    <2>1. Reserved = {} \/ Reserved = {l}
      BY <1>2
    <2>2. Cardinality({}) = 0 /\ Cardinality({l}) = 1
      BY FS_EmptySet, FS_Singleton
    <2> QED
      BY <2>1, <2>2 DEF Exact
  <1> QED
    BY <1>2

\* detach() or dispose() of a lease.
LEMMA ReleaseAttach ==
    ASSUME IInv, AttachInv, NEW l \in Leases, NEW hard \in BOOLEAN, release(l, hard)
    PROVE  AttachInv'
  <1>0. TypeOK /\ CountsInv /\ DetachInv /\ WaitInv
    BY DEF IInv
  <1>1. /\ jobs = <<>> /\ link = "connected" /\ Active(l) /\ (LastLease(l) => detachment = 0)
        /\ UNCHANGED <<link, attachment, reconciliation, state, inbox, server, torn, suspect>>
    BY DEF release
  <1> SUFFICES ASSUME ~ torn PROVE PromisesInv' /\ JobsInv' /\ WireInv'
    BY <1>1 DEF AttachInv
  <1>2. PromisesInv /\ JobsInv /\ WireInv
    BY DEF AttachInv
  <1>3. Exact
    BY <1>1, IdleExact
  <1>4. l \in Reserved /\ lease[l].pc = "active" /\ lease[l].generation = generation
    BY <1>1 DEF Active, Reserved
  <1>5. attached' = attached /\ snapshot' = snapshot
    BY <1>1 DEF state
  <1>6. Rest(l, jobs) /\ Range(jobs) = {}
    BY <1>1, IdleRest
  <1>7. CASE LastLease(l)
    <2>1. /\ lease' = [lease EXCEPT ![l].pc = "releasing", ![l].hard = hard]
          /\ detachment' = l /\ Send("detach", jobs) /\ UNCHANGED books /\ detachment = 0
      BY <1>1, <1>7 DEF release
    <2>2. jobs' = jobs /\ inflight' = [inflight EXCEPT !["detach"] = "sent"]
      BY <1>1, <2>1 DEF Send
    <2>3. \A k \in Leases \ {l} : k \notin Reserved
      BY <1>3, <1>4, <1>7, CountedTwice DEF LastLease
    <2>4. \A pc \in Acquiring : ~ Someone(pc)
      BY <1>4, <2>3 DEF Someone, Reserved, Acquiring
    <2>5. ~ attachment /\ ~ reconciliation
      BY <1>2, <2>4 DEF PromisesInv, AttachPromise, ReconcilePromise, Acquiring
    <2>6. l # 0
      BY BoundsAssumption DEF Leases
    <2>7. \A k \in Requests : inflight[k] = "no" /\ (inflight'[k] # "no" => k = "detach")
      <3>1. \A k \in Requests : ~ Promised(k)
        BY <2>1, <2>5 DEF Promised
      <3>2. \A k \in Requests : inflight[k] = "no"
        BY <1>2, <3>1 DEF PromisesInv, RequestPromise
      <3> QED
        BY <1>0, <2>2, <3>2 DEF TypeOK
    <2>8. inflight'["detach"] = "sent"
      BY <1>0, <2>2 DEF TypeOK, Requests
    <2>9. PromisesInv'
      BY <1>1, <1>6, <2>1, <2>2, <2>5, <2>6, <2>7, <2>8
         DEF PromisesInv, OnePromise, DetachPromise, AttachPromise, ReconcilePromise, RequestPromise, JobPromise, Promised
    <2>10. JobsInv'
      BY <1>2, <1>6, <2>2 DEF JobsInv, OneBatch
    <2>11. Reserved' # {}
      <3>1. lease'[l].pc = "releasing" /\ lease'[l].generation = generation'
        BY <1>0, <1>4, <2>1 DEF TypeOK, books
      <3> QED
        BY <3>1 DEF Reserved
    <2>12. Asked
      BY <1>0, <2>2, <2>7 DEF Asked, TypeOK
    <2>13. Recalled
      BY <1>0, <1>5, <2>2 DEF Recalled, TypeOK, Requests
    <2>14. WireInv'
      BY <1>0, <1>1, <1>2, <1>5, <2>11, <2>12, <2>13, ClientKeepsWire
    <2> QED
      BY <2>9, <2>10, <2>14
  <1>8. CASE ~ LastLease(l)
    <2>1. /\ Goto(l, "done") /\ releaseSessionLease(l) /\ UNCHANGED <<cleanup, detachment, inflight, jobs>>
      BY <1>8 DEF release
    <2>2. lease'[l].pc = "done" /\ \A k \in Leases \ {l} : lease'[k] = lease[k]
      BY <1>0, <2>1 DEF Goto, TypeOK
    <2>3. UNCHANGED promises
      BY <1>1, <2>1 DEF promises
    <2>4. PromisesInv' /\ JobsInv'
      BY <1>0, <1>1, <1>2, <1>4, <1>5, <1>6, <2>1, <2>2, <2>3, LeavesKeeps
    <2>5. Reserved' # {}
      <3>1. PICK k \in Reserved : k # l
        BY <1>3, <1>8, CountedOnce DEF LastLease
      <3>2. k \in Reserved'
        BY <2>1, <2>2, <3>1 DEF Reserved, releaseSessionLease
      <3> QED
        BY <3>2
    <2>6. Asked /\ Recalled
      BY <1>5, <2>1 DEF Asked, Recalled
    <2>7. WireInv'
      BY <1>0, <1>1, <1>2, <1>5, <2>5, <2>6, ClientKeepsWire
    <2> QED
      BY <2>4, <2>7
  <1> QED
    BY <1>7, <1>8

-----------------------------------------------------------------------------
(* Continuations *)

\* The leases that a settled promise wakes, when no other job is left.
LEMMA WokenAlone ==
    ASSUME TypeOK, NEW pc, NEW ok \in BOOLEAN, jobs' = <<>> \o Woken(pc, ok)
    PROVE  /\ \A l \in Leases : AtMostOne(jobs', JobsOf(l))
           /\ LastOnly(jobs', Settlements)
           /\ \A j \in Range(jobs') : j.of = "lease" /\ j.ok = ok /\ j.lease \in Leases /\ lease[j.lease].pc = pc
  <1>1. PICK w, W : w = Woken(pc, ok) /\ W = {Job("lease", l, ok) : l \in Waiting(pc)}
    OBVIOUS
  <1>2. w \in Seq(JobType) /\ Range(w) = W /\ \A l : AtMostOne(w, JobsOf(l))
    BY <1>1, WokenIs
  <1>3. jobs' = w
    <2>1. <<>> \o w = w
      BY <1>2
    <2> QED
      BY <1>1, <2>1
  <1>4. \A j \in W : j.of = "lease" /\ j.ok = ok /\ j.lease \in Leases /\ lease[j.lease].pc = pc
    BY <1>1, WokenAre
  <1>5. \A j \in Range(w) : j \notin Settlements
    BY <1>2, <1>4 DEF Settlements
  <1>6. LastOnly(w, Settlements)
    BY <1>5, LastNone
  <1> QED
    BY <1>2, <1>3, <1>4, <1>6

\* #attachSession() settles.
LEMMA AttachSettles ==
    ASSUME IInv, PromisesInv, JobsInv, WireInv, jobs # <<>>, NEW j, j = Head(jobs), j.of = "attach",
           attachment' = FALSE, snapshot' = IF ~ j.ok /\ snapshot = NoSnapshot THEN previous ELSE snapshot,
           jobs' = Tail(jobs) \o Woken("attachment", j.ok),
           UNCHANGED <<lease, books, detachment, reconciliation, attached, inflight>>,
           UNCHANGED <<link, inbox, server, suspect>>
    PROVE  PromisesInv' /\ JobsInv' /\ WireInv'
  <1>0. TypeOK /\ CountsInv /\ DetachInv /\ WaitInv
    BY DEF IInv
  <1>1. j \in Range(jobs) /\ j.ok \in BOOLEAN /\ Tail(jobs) = <<>>
    BY <1>0, HeadSettles
  <1>2. attachment /\ inflight["attach"] = "no"
    BY <1>1 DEF PromisesInv, JobPromise, Promised
  <1>3. detachment = 0 /\ ~ reconciliation
    BY <1>2 DEF PromisesInv, OnePromise
  <1>4. /\ \A l \in Leases : AtMostOne(jobs', JobsOf(l))
        /\ LastOnly(jobs', Settlements)
        /\ \A i \in Range(jobs') : i.of = "lease" /\ i.ok = j.ok /\ i.lease \in Leases /\ lease[i.lease].pc = "attachment"
    BY <1>0, <1>1, WokenAlone
  <1>5. ~ j.ok => (server.has => suspect)
    BY <1>1 DEF JobsInv, SettleJob
  <1>6. \A i \in Range(jobs') : LeaseJob(i)'
    BY <1>3, <1>4, <1>5 DEF LeaseJob, AttachedJob
  <1>7. JobsInv'
    <2>1. PICK ok : ok = j.ok
      OBVIOUS
    <2>2. \A i \in Range(jobs') : i.of = "lease" /\ i.ok = ok /\ lease'[i.lease].pc = "attachment" /\ LeaseJob(i)'
      BY <1>4, <1>6, <2>1
    <2> QED
      BY <1>4, <2>2 DEF JobsInv, OneBatch
  <1>8. PromisesInv'
    <2>1. \A k \in Requests : inflight'[k] = "no"
      BY <1>2, <1>3 DEF PromisesInv, RequestPromise, Promised
    <2> QED
      BY <1>3, <1>4, <2>1
         DEF PromisesInv, OnePromise, DetachPromise, AttachPromise, ReconcilePromise, RequestPromise, JobPromise
  <1>9. Asked /\ Recalled
    BY <1>2, <1>5 DEF Asked, Recalled
  <1>10. Reserved' = Reserved
    BY DEF Reserved, books
  <1> QED
    BY <1>0, <1>7, <1>8, <1>9, <1>10, ClientKeepsWire

\* #reconcileSessionCleanup() settles.
LEMMA ReconcileSettles ==
    ASSUME IInv, PromisesInv, JobsInv, WireInv, jobs # <<>>, NEW j, j = Head(jobs), j.of = "reconcile",
           reconciliation' = FALSE, cleanup' = (cleanup /\ ~ j.ok),
           jobs' = Tail(jobs) \o Woken("reconciliation", j.ok),
           UNCHANGED <<lease, count, exclusive, generation, detachment, attachment, state, inflight>>,
           UNCHANGED <<link, inbox, server, suspect>>
    PROVE  PromisesInv' /\ JobsInv' /\ WireInv'
  <1>0. TypeOK /\ CountsInv /\ DetachInv /\ WaitInv
    BY DEF IInv
  <1>1. j \in Range(jobs) /\ j.ok \in BOOLEAN /\ Tail(jobs) = <<>>
    BY <1>0, HeadSettles
  <1>2. reconciliation /\ inflight["reconcile"] = "no"
    BY <1>1 DEF PromisesInv, JobPromise, Promised
  <1>3. detachment = 0 /\ ~ attachment
    BY <1>2 DEF PromisesInv, OnePromise
  <1>4. /\ \A l \in Leases : AtMostOne(jobs', JobsOf(l))
        /\ LastOnly(jobs', Settlements)
        /\ \A i \in Range(jobs') : i.of = "lease" /\ i.ok = j.ok /\ i.lease \in Leases /\ lease[i.lease].pc = "reconciliation"
    BY <1>0, <1>1, WokenAlone
  <1>5. Over /\ (j.ok => ~ attached)
    BY <1>1 DEF JobsInv, SettleJob
  <1>6. attached' = attached /\ snapshot' = snapshot /\ Over' /\ ~ server'.has
    BY <1>5 DEF state, Over
  <1>7. \A i \in Range(jobs') : LeaseJob(i)'
    BY <1>3, <1>4, <1>5, <1>6 DEF LeaseJob, ReconciledJob
  <1>8. JobsInv'
    <2>1. PICK ok : ok = j.ok
      OBVIOUS
    <2>2. \A i \in Range(jobs') : i.of = "lease" /\ i.ok = ok /\ lease'[i.lease].pc = "reconciliation" /\ LeaseJob(i)'
      BY <1>4, <1>7, <2>1
    <2> QED
      BY <1>4, <2>2 DEF JobsInv, OneBatch
  <1>9. PromisesInv'
    <2>1. \A k \in Requests : inflight'[k] = "no"
      BY <1>2, <1>3 DEF PromisesInv, RequestPromise, Promised
    <2> QED
      BY <1>3, <1>4, <2>1
         DEF PromisesInv, OnePromise, DetachPromise, AttachPromise, ReconcilePromise, RequestPromise, JobPromise
  <1>10. Asked /\ Recalled
    BY <1>6 DEF Asked, Recalled
  <1>11. Reserved' = Reserved
    BY DEF Reserved
  <1> QED
    BY <1>0, <1>6, <1>8, <1>9, <1>10, <1>11, ClientKeepsWire

\* The detach of a releasing lease is settled.
LEMMA ReleasedAttach ==
    ASSUME IInv, PromisesInv, JobsInv, WireInv, jobs # <<>>, NEW l \in Leases, IsOf(Head(jobs), l),
           lease[l].pc = "releasing", Released(l, Head(jobs).ok, Tail(jobs)),
           UNCHANGED <<link, inbox, server, suspect>>
    PROVE  PromisesInv' /\ JobsInv' /\ WireInv'
  <1>0. TypeOK /\ CountsInv /\ DetachInv /\ WaitInv
    BY DEF IInv
  <1>1. /\ Rest(l, Tail(jobs)) /\ Head(jobs) \in Range(jobs)
    BY <1>0, HeadRest
  <1>2. detachment = l /\ l # 0
    BY <1>0, BoundsAssumption DEF DetachInv, Leases
  <1>3. Tail(jobs) = <<>>
    <2>1. PICK t : t = Tail(jobs)
      OBVIOUS
    <2>2. Range(t) = {} /\ t \in Seq(JobType)
      BY <1>1, <1>2, <2>1 DEF Rest, PromisesInv, DetachPromise
    <2>3. DOMAIN t = 1..Len(t) /\ Len(t) \in Nat
      BY <2>2
    <2>4. ~ (1 \in 1..Len(t))
      BY <2>2, <2>3 DEF Range
    <2>5. Len(t) = 0
      BY <2>3, <2>4
    <2> QED
      BY <2>1, <2>2, <2>5, EmptySeq
  <1>4. /\ detachment' = 0 /\ jobs' = <<>> \o Woken("detachment", TRUE)
        /\ UNCHANGED <<inflight, attachment, reconciliation, attached, snapshot>>
    BY <1>3 DEF Released, state
  <1>5. \A k \in Leases \ {l} : lease'[k] = lease[k]
    BY <1>0 DEF Released, Goto, TypeOK
  <1>6. /\ \A k \in Leases : AtMostOne(jobs', JobsOf(k))
        /\ LastOnly(jobs', Settlements)
        /\ \A i \in Range(jobs') : i.of = "lease" /\ i.ok = TRUE /\ i.lease \in Leases /\ lease[i.lease].pc = "detachment"
    BY <1>0, <1>4, WokenAlone
  <1>7. \A i \in Range(jobs') : lease'[i.lease].pc = "detachment"
    BY <1>5, <1>6
  <1>8. \A i \in Range(jobs') : LeaseJob(i)'
    BY <1>4, <1>7 DEF LeaseJob
  <1>9. JobsInv'
    BY <1>6, <1>7, <1>8 DEF JobsInv, OneBatch
  <1>10. ~ attachment /\ ~ reconciliation
    BY <1>2 DEF PromisesInv, OnePromise
  <1>11. inflight["detach"] = "no"
    BY <1>0, <1>1, <1>2 DEF DetachInv
  <1>12. PromisesInv'
    <2>1. \A k \in Requests : inflight'[k] = "no"
      BY <1>4, <1>10, <1>11 DEF PromisesInv, RequestPromise, Promised
    <2> QED
      BY <1>4, <1>6, <1>10, <2>1
         DEF PromisesInv, OnePromise, DetachPromise, AttachPromise, ReconcilePromise, RequestPromise, JobPromise
  <1>13. ~ server.has
    BY <1>2, <1>11 DEF PromisesInv, DetachPromise, Over
  <1>14. Asked /\ Recalled
    BY <1>4 DEF Asked, Recalled
  <1> QED
    BY <1>0, <1>4, <1>9, <1>12, <1>13, <1>14, ClientKeepsWire

\* acquireSession() goes on, or gives its reservation back.
LEMMA ResumedAttach ==
    ASSUME IInv, PromisesInv, JobsInv, WireInv, jobs # <<>>, NEW l \in Leases, IsOf(Head(jobs), l),
           lease[l].pc # "releasing", Resumed(l, Head(jobs).ok, Tail(jobs)),
           UNCHANGED <<link, inbox, server, suspect>>
    PROVE  PromisesInv' /\ JobsInv' /\ WireInv'
  <1>0. TypeOK /\ CountsInv /\ DetachInv /\ WaitInv /\ LinkInv
    BY DEF IInv, WireInv
  <1>1. PICK h, rest : h = Head(jobs) /\ rest = Tail(jobs)
    OBVIOUS
  <1>2. Rest(l, rest) /\ h \in Range(jobs) /\ Range(jobs) = {h} \cup Range(rest)
    BY <1>0, <1>1, HeadRest
  <1>3. h.of = "lease" /\ h.lease = l /\ LeaseJob(h)
    BY <1>1, <1>2 DEF IsOf, JobsInv
  <1>4. \A j \in Range(rest) : j.of = "lease" => lease[j.lease].pc = lease[l].pc /\ j.ok = h.ok
    BY <1>2, <1>3 DEF JobsInv, OneBatch
  <1>5. h.ok \in BOOLEAN
    BY <1>0, <1>2, JobsAre
  <1>6. CASE lease[l].pc = "detachment"
    <2>1. AfterDetachment(l, rest) /\ UNCHANGED <<generation, cleanup>>
      BY <1>1, <1>6 DEF Resumed, books
    <2>2. detachment = 0
      BY <1>3, <1>6 DEF LeaseJob
    <2>3. PromisesInv' /\ JobsInv' /\ Asked /\ Recalled /\ attached' = attached /\ Reserved' # {}
      BY <1>0, <1>2, <1>3, <1>4, <1>6, <2>1, <2>2, AfterDetachmentKeeps
    <2> QED
      BY <1>0, <2>3, ClientKeepsWire
  <1>7. CASE lease[l].pc = "reconciliation" /\ h.ok
    <2>1. Attach(l, rest) /\ UNCHANGED books
      BY <1>1, <1>7 DEF Resumed
    <2>2. /\ detachment = 0 /\ ~ reconciliation /\ ~ cleanup
          /\ attachment \/ (Over /\ ~ attached)
      BY <1>3, <1>7 DEF LeaseJob, ReconciledJob
    <2>3. Batch(rest, "attach")
      BY <1>4, <1>7 DEF Batch
    <2>4. UNCHANGED <<link, inbox, server, suspect, cleanup>> /\ generation' = generation
      BY <2>1 DEF books
    <2>5. PromisesInv' /\ JobsInv' /\ Asked /\ Recalled /\ attached' = attached
      BY <1>0, <1>2, <1>7, <2>1, <2>2, <2>3, <2>4, AttachKeeps
    <2>6. lease'[l].pc \in Acquiring
      BY <1>0, <2>1 DEF Attach, Acquiring, TypeOK
    <2>7. Reserved' # {}
      BY <2>6 DEF Reserved
    <2> QED
      BY <1>0, <2>5, <2>7, ClientKeepsWire
  <1>8. CASE lease[l].pc = "attachment" /\ h.ok
    <2>1. /\ lease' = [lease EXCEPT ![l].pc = "active", ![l].generation = generation] /\ jobs' = rest
          /\ UNCHANGED <<books, state, inflight, promises>>
      BY <1>1, <1>8 DEF Resumed
    <2>2. lease'[l].pc = "active" /\ lease'[l].generation = generation' /\ \A m \in Leases \ {l} : lease'[m] = lease[m]
      BY <1>0, <2>1 DEF TypeOK, books
    <2>3. attached' = attached /\ snapshot' = snapshot /\ cleanup' = cleanup
      BY <2>1 DEF state, books
    <2>4. ~ attachment /\ ~ reconciliation
      BY <1>3, <1>8 DEF LeaseJob, AttachedJob
    <2>5. PromisesInv' /\ JobsInv'
      BY <1>0, <1>2, <2>1, <2>2, <2>3, <2>4, LeavesKeeps
    <2>6. Reserved' # {}
      BY <2>2 DEF Reserved
    <2>7. Asked /\ Recalled
      BY <2>1, <2>3 DEF Asked, Recalled
    <2> QED
      BY <1>0, <2>3, <2>5, <2>6, <2>7, ClientKeepsWire
  <1>9. CASE lease[l].pc \in {"reconciliation", "attachment"} /\ ~ h.ok
    <2>1. /\ Goto(l, "done") /\ jobs' = rest /\ UNCHANGED <<cleanup, state, inflight, promises>>
      BY <1>1, <1>9 DEF Resumed
    <2>2. \A m \in Leases \ {l} : lease'[m] = lease[m]
      BY <1>0, <2>1 DEF TypeOK, Goto
    <2>3. attached' = attached /\ snapshot' = snapshot
      BY <2>1 DEF state
    <2>4. ~ attachment /\ ~ reconciliation /\ (server.has => suspect)
      BY <1>3, <1>9 DEF LeaseJob, AttachedJob, ReconciledJob
    <2>5. PromisesInv' /\ JobsInv'
      BY <1>0, <1>2, <2>1, <2>2, <2>3, <2>4, LeavesKeeps
    <2>6. Asked /\ Recalled
      BY <2>1, <2>3 DEF Asked, Recalled
    <2> QED
      BY <1>0, <2>3, <2>4, <2>5, <2>6, ClientKeepsWire
  <1> QED
    BY <1>1, <1>6, <1>7, <1>8, <1>9 DEF Resumed

\* A settled promise resumes.
LEMMA RunJobAttach == ASSUME IInv, AttachInv, RunJob PROVE AttachInv'
  <1>0. TypeOK /\ CountsInv
    BY DEF IInv
  <1>1. PICK j : j = Head(jobs)
    OBVIOUS
  <1>2. jobs # <<>> /\ UNCHANGED <<link, inbox, server, torn, suspect>>
    BY DEF RunJob
  <1> SUFFICES ASSUME ~ torn PROVE PromisesInv' /\ JobsInv' /\ WireInv'
    BY <1>2 DEF AttachInv
  <1>3. PromisesInv /\ JobsInv /\ WireInv
    BY DEF AttachInv
  <1>4. j \in Range(jobs)
    BY <1>0, <1>1, <1>2, <1>3, HeadSettles
  <1>5. CASE /\ j.of = "attach" /\ attachment' = FALSE
             /\ snapshot' = IF ~ j.ok /\ snapshot = NoSnapshot THEN previous ELSE snapshot
             /\ jobs' = Tail(jobs) \o Woken("attachment", j.ok)
             /\ UNCHANGED <<lease, books, detachment, reconciliation, attached, inflight>>
    BY <1>1, <1>2, <1>3, <1>5, AttachSettles
  <1>6. CASE /\ j.of = "reconcile" /\ reconciliation' = FALSE /\ cleanup' = (cleanup /\ ~ j.ok)
             /\ jobs' = Tail(jobs) \o Woken("reconciliation", j.ok)
             /\ UNCHANGED <<lease, count, exclusive, generation, detachment, attachment, state, inflight>>
    BY <1>1, <1>2, <1>3, <1>6, ReconcileSettles
  <1>7. CASE j.of = "lease" /\ lease[j.lease].pc = "releasing" /\ Released(j.lease, j.ok, Tail(jobs))
    <2>1. j.lease \in Leases /\ IsOf(j, j.lease)
      BY <1>0, <1>4, <1>7 DEF CountsInv, IsOf
    <2> QED
      BY <1>1, <1>2, <1>3, <1>7, <2>1, ReleasedAttach
  <1>8. CASE j.of = "lease" /\ lease[j.lease].pc # "releasing" /\ Resumed(j.lease, j.ok, Tail(jobs))
    <2>1. j.lease \in Leases /\ IsOf(j, j.lease)
      BY <1>0, <1>4, <1>8 DEF CountsInv, IsOf
    <2> QED
      BY <1>1, <1>2, <1>3, <1>8, <2>1, ResumedAttach
  <1> QED
    BY <1>1, <1>5, <1>6, <1>7, <1>8 DEF RunJob

-----------------------------------------------------------------------------
(* Messages from the server *)

\* The first message and the others.
LEMMA HeadMessage ==
    ASSUME TypeOK, inbox # <<>>
    PROVE  /\ inbox \in Seq(MessageType) /\ Head(inbox) \in MessageType /\ Tail(inbox) \in Seq(MessageType)
           /\ Range(inbox) = {Head(inbox)} \cup Range(Tail(inbox)) /\ Head(inbox) \in Range(inbox)
  <1>1. inbox \in Seq(MessageType)
    BY DEF TypeOK, MessageType
  <1> QED
    BY <1>1, RangeTail

\* The message that answers the one request under way crosses no removal.
LEMMA AnswerIs ==
    ASSUME IInv, PromisesInv, WireInv, inbox # <<>>, NEW k \in Requests, Head(inbox) \in AnswersTo(k)
    PROVE  /\ inflight[k] = "handled" /\ Promised(k) /\ \A r \in Requests \ {k} : ~ Promised(r) /\ inflight[r] = "no"
           /\ ServerInv /\ server.reply = NoSnapshot
           /\ \A m \in Range(Tail(inbox)) : m \notin Answers
           /\ AtMostOne(Tail(inbox), Answers)
  <1>0. TypeOK /\ LinkInv
    BY DEF IInv, WireInv
  <1>1. PICK h, t : h = Head(inbox) /\ t = Tail(inbox)
    OBVIOUS
  <1>2. inbox \in Seq(MessageType) /\ h \in Range(inbox) /\ Range(inbox) = {h} \cup Range(t)
    BY <1>0, <1>1, HeadMessage
  <1>3. h \in AnswersTo(k) /\ h \in Answers
    BY <1>1 DEF AnswersTo
  <1>4. inflight[k] = "handled" /\ server.reply = NoSnapshot
    BY <1>0, <1>2, <1>3 DEF LinkInv, In
  <1>5. Promised(k)
    BY <1>4 DEF PromisesInv, RequestPromise
  <1>6. \A r \in Requests \ {k} : ~ Promised(r)
    BY <1>5 DEF PromisesInv, OnePromise, Promised, Requests
  <1>7. \A r \in Requests \ {k} : inflight[r] = "no"
    BY <1>6 DEF PromisesInv, RequestPromise
  <1>8. AtMostOne(t, Answers) /\ Range(t) \cap Answers = {}
    BY <1>0, <1>1, <1>2, <1>3, OnceTail DEF LinkInv
  <1>9. ~ Crossed
    <2> SUFFICES ASSUME Crossed PROVE FALSE
      OBVIOUS
    <2>1. PICK i \in DOMAIN inbox, r \in Requests :
             /\ inbox[i] \in Removals /\ inflight[r] # "no"
             /\ \A n \in DOMAIN inbox : inbox[n] \in AnswersTo(r) => n > i
      BY DEF Crossed
    <2>2. r = k
      BY <1>7, <2>1
    <2>3. DOMAIN inbox = 1..Len(inbox) /\ Len(inbox) \in Nat \ {0} /\ h = inbox[1]
      BY <1>1, <1>2, HeadTailProperties, EmptySeq
    <2>4. 1 \in DOMAIN inbox /\ ~ (1 > i)
      BY <2>1, <2>3
    <2> QED
      BY <1>3, <2>1, <2>2, <2>3, <2>4
  <1>10. ServerInv
    BY <1>9 DEF WireInv
  <1> QED
    BY <1>1, <1>4, <1>5, <1>6, <1>7, <1>8, <1>10

\* What is last is alone when it arrives.
LEMMA FinalArrives ==
    ASSUME TypeOK, FinalsInv, inbox # <<>>, Head(inbox) \in Finals
    PROVE  Tail(inbox) = <<>> /\ ~ server.has
  <1>1. inbox \in Seq(MessageType) /\ Head(inbox) \in Range(inbox)
    BY HeadMessage
  <1> QED
    BY <1>1, LastTail DEF FinalsInv, In

\* With nothing at the server and nothing under way, there is little to know.
LEMMA OverKnows ==
    ASSUME ~ server'.has, inbox' = <<>>, server'.reply = NoSnapshot,
           attached' => suspect', inflight'["attach"] # "no" => snapshot' = NoSnapshot
    PROVE  ServerInv'
  <1>1. Range(inbox') = {} /\ DOMAIN inbox' = {}
    BY DEF Range
  <1> QED
    BY <1>1 DEF ServerInv, ReplyInv, FinalsInv, CarriersInv, KnownInv, HeldInv, LastOnly, In

\* An answer settles its request.
LEMMA AnswerSettles ==
    ASSUME IInv, PromisesInv, JobsInv, WireInv, inbox # <<>>, NEW k \in Requests, NEW ok \in BOOLEAN,
           Head(inbox) \in AnswersTo(k), inbox' = Tail(inbox), inflight' = [inflight EXCEPT ![k] = "no"],
           jobs' = Append(jobs, Settles(k, ok)), ~ ok => suspect', k = "reconcile" /\ ok => ~ attached',
           UNCHANGED <<lease, books, promises, server>>
    PROVE  PromisesInv' /\ JobsInv'
  <1>0. TypeOK /\ CountsInv /\ DetachInv
    BY DEF IInv
  <1>1. /\ inflight[k] = "handled" /\ Promised(k) /\ \A r \in Requests \ {k} : ~ Promised(r) /\ inflight[r] = "no"
        /\ ServerInv
    BY AnswerIs
  <1>2. /\ detachment' = detachment /\ attachment' = attachment /\ reconciliation' = reconciliation
        /\ cleanup' = cleanup /\ \A r : Promised(r)' <=> Promised(r)
    BY DEF promises, books, Promised
  <1>3. PICK x : x = Settles(k, ok)
    OBVIOUS
  <1>4. /\ x \in JobType /\ x.ok = ok
        /\ k # "detach" => x.of = k
        /\ k = "detach" => IsOf(x, detachment)
    BY <1>0, <1>3, SettlesIs DEF Requests
  <1>5. jobs \in Seq(JobType) /\ jobs' = Append(jobs, x) /\ Range(jobs') = Range(jobs) \cup {x}
    <2>1. jobs \in Seq(JobType)
      BY <1>0, JobsAre
    <2> QED
      BY <1>3, <1>4, <2>1, RangeAppend
  <1>6. /\ k = "attach" <=> attachment
        /\ k = "reconcile" <=> reconciliation
        /\ k = "detach" <=> detachment # 0
    BY <1>1 DEF Promised, Requests
  <1>7. k = "detach" => Range(jobs) = {}
    BY <1>0, <1>1, <1>6 DEF PromisesInv, DetachPromise, DetachInv
  <1>8. ASSUME NEW j \in Range(jobs)
        PROVE  /\ j.of = "lease" /\ k # "detach"
               /\ \/ lease[j.lease].pc = "detachment"
                  \/ lease[j.lease].pc = "reconciliation" /\ j.ok /\ k = "attach" /\ ~ cleanup
    <2>1. k # "detach" /\ detachment = 0
      BY <1>6, <1>7
    <2>2. j.of \in {"lease", "attach", "reconcile"} /\ j.ok \in BOOLEAN
      BY <1>0, JobsAre
    <2>3. j.of = "lease"
      BY <1>1, <2>2 DEF PromisesInv, JobPromise, Requests
    <2>4. j.lease \in Leases /\ j.lease # 0
      BY <1>0, <2>3, BoundsAssumption DEF CountsInv, Leases
    <2>5. LeaseJob(j)
      BY <2>3 DEF JobsInv
    <2>6. attachment \/ reconciliation
      BY <1>6, <2>1 DEF Requests
    <2> QED
      BY <1>6, <2>1, <2>2, <2>3, <2>4, <2>5, <2>6 DEF LeaseJob, ReconciledJob, AttachedJob
  <1>9. k # "attach" => Over'
    <2>1. k # "attach" => Head(inbox) \in Finals
      BY DEF Finals, Requests
    <2>2. k # "attach" => Tail(inbox) = <<>> /\ ~ server.has
      BY <1>0, <1>1, <2>1, FinalArrives DEF ServerInv
    <2> QED
      BY <2>2 DEF Over
  <1>10. inflight'[k] = "no" /\ \A r \in Requests : inflight'[r] = "no"
    BY <1>0, <1>1 DEF TypeOK
  <1>11. PromisesInv'
    <2>1. OnePromise'
      BY <1>2 DEF PromisesInv, OnePromise
    <2>2. DetachPromise'
      BY <1>2, <1>4, <1>5, <1>6, <1>7, <1>9 DEF DetachPromise
    <2>3. AttachPromise'
      BY <1>2 DEF PromisesInv, AttachPromise, Someone
    <2>4. ReconcilePromise'
      BY <1>1, <1>2, <1>6 DEF PromisesInv, ReconcilePromise, Someone
    <2>5. RequestPromise'
      BY <1>10 DEF RequestPromise
    <2>6. JobPromise'
      <3> SUFFICES ASSUME NEW j \in Range(jobs'), j.of # "lease" PROVE Promised(j.of)' /\ inflight'[j.of] = "no"
        BY DEF JobPromise
      <3>1. j = x
        BY <1>5, <1>8
      <3>2. j.of = k
        BY <1>4, <3>1 DEF IsOf
      <3> QED
        BY <1>1, <1>2, <1>10, <3>2
    <2> QED
      BY <2>1, <2>2, <2>3, <2>4, <2>5, <2>6 DEF PromisesInv
  <1>12. JobsInv'
    <2>1. \A l \in Leases : AtMostOne(jobs', JobsOf(l))
      <3>1. CASE k = "detach"
        <4>1. \A l \in Leases : Range(jobs) \cap JobsOf(l) = {}
          BY <1>7, <3>1
        <4> QED
          BY <1>4, <1>5, <4>1, OnceAppend
      <3>2. CASE k # "detach"
        <4>1. \A l \in Leases : x \notin JobsOf(l) /\ AtMostOne(jobs, JobsOf(l))
          BY <1>4, <3>2 DEF JobsInv, JobsOf, IsOf, Requests
        <4> QED
          BY <1>4, <1>5, <4>1, OnceAppend
      <3> QED
        BY <3>1, <3>2
    <2>2. LastOnly(jobs', Settlements)
      <3>1. \A j \in Range(jobs) : j \notin Settlements
        BY <1>8 DEF Settlements
      <3> QED
        BY <1>4, <1>5, <3>1, LastAppend
    <2>3. OneBatch'
      <3>1. x.of = "lease" => Range(jobs) = {}
        BY <1>4, <1>7 DEF Requests
      <3>2. \A j \in Range(jobs') : j.of = "lease" => j = x \/ j \in Range(jobs)
        BY <1>5
      <3> QED
        BY <3>1, <3>2 DEF JobsInv, OneBatch
    <2>4. ASSUME NEW j \in Range(jobs') PROVE IF j.of = "lease" THEN LeaseJob(j)' ELSE SettleJob(j)'
      <3>1. CASE j \in Range(jobs)
        BY <1>2, <1>6, <1>8, <3>1 DEF LeaseJob, ReconciledJob, Requests
      <3>2. CASE j = x /\ k = "detach"
        <4>1. lease[j.lease].pc = "releasing" /\ j.lease = detachment /\ j.of = "lease"
          BY <1>0, <1>4, <1>6, <3>2 DEF DetachInv, IsOf, TypeOK
        <4> QED
          BY <1>2, <4>1 DEF LeaseJob
      <3>3. CASE j = x /\ k # "detach"
        BY <1>4, <1>9, <3>3 DEF SettleJob, Requests
      <3> QED
        BY <1>5, <3>1, <3>2, <3>3
    <2> QED
      BY <2>1, <2>2, <2>3, <2>4 DEF JobsInv
  <1> QED
    BY <1>11, <1>12

\* A message that has arrived leaves the others in order.
LEMMA TailLink ==
    ASSUME TypeOK, LinkInv, inbox # <<>>, link = "connected", inbox' = Tail(inbox), UNCHANGED <<link, server>>,
           \A k \in Requests : inflight'[k] = inflight[k] \/ Head(inbox) \in AnswersTo(k)
    PROVE  LinkInv'
  <1>1. PICK h, t : h = Head(inbox) /\ t = Tail(inbox)
    OBVIOUS
  <1>2. inbox \in Seq(MessageType) /\ h \in Range(inbox) /\ Range(inbox) = {h} \cup Range(t)
    BY <1>1, HeadMessage
  <1>3. AtMostOne(t, Answers) /\ (h \in Answers => Range(t) \cap Answers = {})
    BY <1>1, <1>2, OnceTail DEF LinkInv
  <1>4. inbox' = t /\ \A T : In(T)' => In(T)
    BY <1>1, <1>2 DEF In
  <1>5. ASSUME NEW k \in Requests, In(AnswersTo(k))' PROVE inflight'[k] = "handled"
    <2>1. PICK m \in Range(t) : m \in AnswersTo(k)
      BY <1>1, <1>5 DEF In
    <2>2. h \notin Answers
      BY <1>3, <2>1 DEF AnswersTo
    <2>3. In(AnswersTo(k))
      BY <1>2, <2>1 DEF In
    <2> QED
      BY <1>1, <2>2, <2>3 DEF LinkInv, AnswersTo
  <1>6. server.reply # NoSnapshot => inflight'["attach"] = "handled" /\ ~ In(Answers)'
    <2>1. server.reply # NoSnapshot => inflight["attach"] = "handled" /\ ~ In(Answers)
      BY DEF LinkInv
    <2>2. ~ In(Answers) => h \notin AnswersTo("attach")
      BY <1>2 DEF In, AnswersTo
    <2> QED
      BY <1>1, <1>4, <2>1, <2>2 DEF Requests
  <1> QED
    BY <1>3, <1>4, <1>5, <1>6 DEF LinkInv

\* A snapshot arrives: an event, or the answer to an attach.
LEMMA CarrierArrives ==
    ASSUME TypeOK, LinkInv, ServerInv, inbox # <<>>, Head(inbox) \in Carriers, inbox' = Tail(inbox),
           applySessionSnapshot(Head(inbox).snapshot), UNCHANGED <<server, lease, generation>>,
           \/ inflight' = inflight /\ suspect' = suspect
           \/ inflight["attach"] = "handled" /\ inflight'["attach"] = "no" /\ ~ suspect' /\ Reserved # {}
    PROVE  ServerInv'
  <1>1. PICK m, t : m = Head(inbox) /\ t = Tail(inbox)
    OBVIOUS
  <1>2. inbox \in Seq(MessageType) /\ m \in MessageType /\ m \in Range(inbox) /\ Range(inbox) = {m} \cup Range(t)
    BY <1>1, HeadMessage
  <1>3. m \in Carriers /\ m \notin Finals /\ m \notin Failures
    BY <1>1 DEF Carriers, Finals, Failures, Removals, AnswersTo, Answers
  <1>4. /\ In(Finals)' <=> In(Finals)
        /\ In(Failures)' <=> In(Failures)
        /\ Range(inbox') = Range(t)
    BY <1>1, <1>2, <1>3 DEF In
  <1>5. /\ server.has \/ In(Finals)
        /\ server.has => OfThis(m.snapshot)
    BY <1>2, <1>3 DEF ServerInv, CarriersInv
  <1>6. ReplyInv'
    BY DEF ServerInv, ReplyInv, OfThis
  <1>7. FinalsInv'
    BY <1>2, <1>4, LastTail DEF ServerInv, FinalsInv
  <1>8. CarriersInv'
    BY <1>2, <1>4 DEF ServerInv, CarriersInv, OfThis
  <1>9. /\ m.snapshot \in Snapshots /\ server.snapshot \in Snapshots /\ snapshot \in Snapshots
        /\ m.snapshot.rev \in Nat /\ server.snapshot.rev \in Nat /\ snapshot.rev \in Nat
    BY <1>2 DEF TypeOK, MessageType, Snapshots
  <1>10. \/ (snapshot = NoSnapshot \/ m.snapshot.rev >= snapshot.rev) /\ snapshot' = m.snapshot /\ attached' = TRUE
         \/ /\ snapshot # NoSnapshot /\ ~ (m.snapshot.rev >= snapshot.rev)
            /\ snapshot' = snapshot /\ attached' = attached
    BY <1>1 DEF applySessionSnapshot, IsNewer
  <1>11. KnownInv'
    <2>1. /\ ~ suspect' \/ inflight'["attach"] # "no" => ~ suspect \/ inflight["attach"] # "no"
      OBVIOUS
    <2>2. server.has /\ (~ suspect' \/ inflight'["attach"] # "no") => snapshot = NoSnapshot \/ OfThis(snapshot)
      BY <2>1 DEF ServerInv, KnownInv
    <2> QED
      BY <1>4, <1>5, <1>10, <2>2 DEF KnownInv, OfThis
  <1>12. ASSUME server.has PROVE Newest'
    <2>1. CASE suspect /\ inflight["attach"] = "no"
      BY <2>1 DEF Newest
    <2>2. CASE ~ suspect \/ inflight["attach"] # "no"
      <3>1. snapshot = NoSnapshot \/ OfThis(snapshot)
        BY <1>12, <2>2 DEF ServerInv, KnownInv
      <3>2. CASE m.snapshot = server.snapshot
        <4>1. snapshot = NoSnapshot \/ m.snapshot.rev >= snapshot.rev
          BY <1>9, <3>1, <3>2 DEF OfThis
        <4> QED
          BY <1>10, <3>2, <4>1 DEF Newest
      <3>3. CASE attached /\ snapshot = server.snapshot
        <4>1. m.snapshot.rev >= snapshot.rev => m.snapshot.rev = server.snapshot.rev /\ m.snapshot.epoch = server.snapshot.epoch
          BY <1>5, <1>9, <1>12, <3>3 DEF OfThis
        <4>2. m.snapshot.rev >= snapshot.rev => m.snapshot = server.snapshot
          BY <1>9, <4>1 DEF Snapshots
        <4>3. snapshot # NoSnapshot
          BY <3>3 DEF LinkInv, NoSnapshot
        <4> QED
          BY <1>10, <3>3, <4>2, <4>3 DEF Newest
      <3>4. CASE \E i \in Range(t) : i \in Carriers /\ i.snapshot = server.snapshot
        BY <1>4, <3>4 DEF Newest
      <3>5. CASE server.reply = server.snapshot \/ In(Failures)
        BY <1>4, <3>5 DEF Newest
      <3>6. CASE suspect /\ inflight["attach"] # "handled"
        BY <3>6 DEF Newest
      <3>7. Newest
        BY <1>12 DEF ServerInv, HeldInv
      <3> QED
        BY <1>2, <3>2, <3>3, <3>4, <3>5, <3>6, <3>7 DEF Newest
    <2> QED
      BY <2>1, <2>2 DEF TypeOK
  <1>13. HeldInv'
    <2>1. Reserved' = Reserved
      BY DEF Reserved
    <2>2. server.has /\ ~ suspect' => Reserved # {}
      BY DEF ServerInv, HeldInv
    <2> QED
      BY <1>4, <1>5, <1>12, <2>1, <2>2 DEF HeldInv
  <1> QED
    BY <1>6, <1>7, <1>8, <1>11, <1>13 DEF ServerInv

\* An attach that failed leaves everything open.
LEMMA FailureArrives ==
    ASSUME TypeOK, ServerInv, inbox # <<>>, Head(inbox) \in Failures, inbox' = Tail(inbox), server.reply = NoSnapshot,
           UNCHANGED <<server, lease, generation, snapshot, attached>>, suspect', inflight'["attach"] = "no"
    PROVE  ServerInv'
  <1>1. PICK m, t : m = Head(inbox) /\ t = Tail(inbox)
    OBVIOUS
  <1>2. inbox \in Seq(MessageType) /\ m \in Range(inbox) /\ Range(inbox) = {m} \cup Range(t)
    BY <1>1, HeadMessage
  <1>3. m \notin Finals
    BY <1>1 DEF Finals, Failures, Removals, AnswersTo, Answers
  <1>4. (In(Finals)' <=> In(Finals)) /\ Range(inbox') = Range(t)
    BY <1>1, <1>2, <1>3 DEF In
  <1>5. ReplyInv' /\ CarriersInv'
    BY <1>2, <1>4 DEF ServerInv, ReplyInv, CarriersInv, OfThis
  <1>6. FinalsInv'
    BY <1>2, <1>4, LastTail DEF ServerInv, FinalsInv
  <1>7. KnownInv' /\ HeldInv'
    BY DEF KnownInv, HeldInv, Newest
  <1> QED
    BY <1>5, <1>6, <1>7 DEF ServerInv

\* An event moves nothing but the snapshot.
LEMMA EventSettles ==
    ASSUME PromisesInv, JobsInv, inbox # <<>>, UNCHANGED <<lease, books, promises, jobs, inflight, server, suspect>>
    PROVE  PromisesInv' /\ JobsInv'
  <1>1. /\ detachment' = detachment /\ attachment' = attachment /\ reconciliation' = reconciliation
        /\ cleanup' = cleanup /\ ~ Over /\ \A r : Promised(r)' <=> Promised(r)
    BY DEF promises, books, Promised, Over
  <1>2. PromisesInv'
    <2>1. OnePromise' /\ DetachPromise'
      BY <1>1 DEF PromisesInv, OnePromise, DetachPromise
    <2>2. AttachPromise' /\ ReconcilePromise'
      BY <1>1 DEF PromisesInv, AttachPromise, ReconcilePromise, Someone
    <2>3. RequestPromise' /\ JobPromise'
      BY <1>1 DEF PromisesInv, RequestPromise, JobPromise
    <2> QED
      BY <2>1, <2>2, <2>3 DEF PromisesInv
  <1>3. ASSUME NEW j \in Range(jobs) PROVE IF j.of = "lease" THEN LeaseJob(j)' ELSE SettleJob(j)'
    <2>1. IF j.of = "lease" THEN LeaseJob(j) ELSE SettleJob(j)
      BY DEF JobsInv
    <2>2. j.of = "lease" => LeaseJob(j)'
      BY <1>1, <2>1 DEF LeaseJob, ReconciledJob, AttachedJob
    <2>3. j.of # "lease" => SettleJob(j)'
      BY <1>1, <2>1 DEF SettleJob
    <2> QED
      BY <2>2, <2>3
  <1>4. JobsInv'
    BY <1>3 DEF JobsInv, OneBatch
  <1> QED
    BY <1>2, <1>4

\* A removal that tears no lease meets no request and no job.
LEMMA RemovalSettles ==
    ASSUME IInv, PromisesInv, JobsInv, \A l \in Leases : lease[l].pc \notin Acquiring \cup {"releasing"},
           UNCHANGED <<lease, promises, jobs, inflight>>
    PROVE  PromisesInv' /\ JobsInv' /\ \A k \in Requests : inflight[k] = "no"
  <1>0. TypeOK /\ CountsInv /\ DetachInv
    BY DEF IInv
  <1>1. ~ attachment /\ ~ reconciliation
    BY DEF PromisesInv, AttachPromise, ReconcilePromise, Someone, Acquiring
  <1>2. detachment = 0
    BY <1>0 DEF DetachInv, TypeOK
  <1>3. \A k : ~ Promised(k)
    BY <1>1, <1>2 DEF Promised
  <1>4. \A k \in Requests : inflight[k] = "no"
    BY <1>3 DEF PromisesInv, RequestPromise
  <1>5. ASSUME NEW j \in Range(jobs) PROVE FALSE
    <2>1. j.of = "lease"
      BY <1>3 DEF PromisesInv, JobPromise
    <2>2. j.lease \in Leases /\ LeaseJob(j)
      BY <1>0, <2>1 DEF CountsInv, JobsInv
    <2> QED
      BY <2>2 DEF LeaseJob, Acquiring
  <1>6. detachment' = 0 /\ ~ attachment' /\ ~ reconciliation' /\ Range(jobs') = {} /\ \A k \in Requests : inflight'[k] = "no"
    BY <1>1, <1>2, <1>4, <1>5 DEF promises
  <1>7. PromisesInv'
    BY <1>6 DEF PromisesInv, OnePromise, DetachPromise, AttachPromise, ReconcilePromise, RequestPromise, JobPromise
  <1>8. JobsInv'
    BY <1>6 DEF JobsInv, OneBatch
  <1> QED
    BY <1>4, <1>7, <1>8

\* A message arrives.
LEMMA DeliverAttach == ASSUME IInv, AttachInv, Deliver PROVE AttachInv'
  <1>0. TypeOK
    BY DEF IInv
  <1>1. PICK m : m = Head(inbox)
    OBVIOUS
  <1>2. /\ inbox # <<>> /\ link = "connected" /\ inbox' = Tail(inbox)
        /\ UNCHANGED <<link, lease, promises, server>>
    BY DEF Deliver
  <1>3. m \in MessageType /\ m.request \in Requests /\ m.type \in {"ok", "error", "event", "removed"}
    <2>1. m \in MessageType
      BY <1>0, <1>1, <1>2, HeadMessage
    <2> QED
      BY <2>1 DEF MessageType
  <1>4. CASE m.type \in {"ok", "error"}
    <2>1. PICK k \in Requests, ok \in BOOLEAN : k = m.request /\ ok = (m.type = "ok")
      BY <1>3
    <2>2. /\ inflight' = [inflight EXCEPT ![k] = "no"] /\ jobs' = Append(jobs, Settles(k, ok))
          /\ suspect' = (m.type = "error") /\ UNCHANGED <<books, torn>>
      BY <1>1, <1>4, <2>1 DEF Deliver
    <2> SUFFICES ASSUME ~ torn PROVE PromisesInv' /\ JobsInv' /\ WireInv'
      BY <2>2 DEF AttachInv
    <2>3. PromisesInv /\ JobsInv /\ WireInv
      BY DEF AttachInv
    <2>4. m \in AnswersTo(k) /\ (~ ok <=> m.type = "error") /\ (ok <=> m.type = "ok")
      BY <1>3, <1>4, <2>1 DEF AnswersTo, Answers
    <2>5. ~ ok => suspect'
      BY <2>2, <2>4
    <2>6. /\ m.type = "ok" /\ k = "attach" => applySessionSnapshot(m.snapshot)
          /\ m.type = "ok" /\ k # "attach" => attached' = FALSE /\ snapshot' = snapshot
          /\ m.type = "error" => attached' = attached /\ snapshot' = snapshot
      BY <1>1, <2>1 DEF Deliver
    <2>7. PromisesInv' /\ JobsInv'
      <3>1. k = "reconcile" /\ ok => ~ attached'
        BY <2>4, <2>6
      <3> QED
        BY <1>1, <1>2, <2>2, <2>3, <2>4, <2>5, <3>1, AnswerSettles
    <2>8. /\ inflight[k] = "handled" /\ Promised(k) /\ (\A r \in Requests \ {k} : inflight[r] = "no")
          /\ ServerInv /\ server.reply = NoSnapshot
      BY <1>1, <1>2, <2>3, <2>4, AnswerIs
    <2>9. inflight'[k] = "no" /\ \A r \in Requests : inflight'[r] = "no" /\ (inflight'[r] = inflight[r] \/ r = k)
      BY <1>0, <2>2, <2>8 DEF TypeOK
    <2>10. LinkInv'
      <3>1. \A r \in Requests : inflight'[r] = inflight[r] \/ Head(inbox) \in AnswersTo(r)
        BY <1>1, <2>4, <2>9
      <3> QED
        BY <1>0, <1>2, <2>3, <3>1, TailLink DEF WireInv
    <2>11. generation' = generation
      BY <2>2 DEF books
    <2>12. ServerInv'
      <3>1. CASE k # "attach"
        <4>1. m \in Finals
          BY <2>4, <3>1 DEF Finals, Requests
        <4>2. Tail(inbox) = <<>> /\ ~ server.has
          BY <1>0, <1>1, <1>2, <2>8, <4>1, FinalArrives DEF ServerInv
        <4>3. attached' => suspect'
          BY <2>2, <2>4, <2>6, <3>1
        <4>4. inflight'["attach"] = "no"
          BY <2>9 DEF Requests
        <4> QED
          BY <1>2, <2>8, <4>2, <4>3, <4>4, OverKnows
      <3>2. CASE k = "attach" /\ m.type = "error"
        <4>1. m \in Failures
          BY <2>4, <3>2 DEF Failures
        <4> QED
          BY <1>0, <1>1, <1>2, <2>2, <2>6, <2>8, <2>9, <2>11, <3>2, <4>1, FailureArrives
      <3>3. CASE k = "attach" /\ m.type = "ok"
        <4>1. m \in Carriers /\ applySessionSnapshot(m.snapshot) /\ ~ suspect'
          BY <1>3, <2>1, <2>2, <2>6, <3>3 DEF Carriers
        <4>2. Reserved # {}
          <5>1. attachment
            BY <2>8, <3>3 DEF Promised
          <5> QED
            BY <2>3, <5>1 DEF PromisesInv, AttachPromise, Someone, Reserved, Acquiring
        <4>3. inflight["attach"] = "handled" /\ inflight'["attach"] = "no" /\ LinkInv
          BY <2>3, <2>8, <2>9, <3>3 DEF WireInv
        <4> QED
          BY <1>0, <1>1, <1>2, <2>8, <2>11, <4>1, <4>2, <4>3, CarrierArrives
      <3> QED
        BY <1>4, <3>1, <3>2, <3>3
    <2> QED
      BY <2>7, <2>10, <2>12 DEF WireInv
  <1>5. CASE m.type = "event"
    <2>1. /\ inflight' = inflight /\ jobs' = jobs /\ suspect' = suspect
          /\ applySessionSnapshot(m.snapshot) /\ UNCHANGED <<books, torn>>
      BY <1>1, <1>5 DEF Deliver
    <2> SUFFICES ASSUME ~ torn PROVE PromisesInv' /\ JobsInv' /\ WireInv'
      BY <2>1 DEF AttachInv
    <2>2. PromisesInv /\ JobsInv /\ WireInv
      BY DEF AttachInv
    <2>3. PromisesInv' /\ JobsInv'
      BY <1>2, <2>1, <2>2, EventSettles
    <2>4. LinkInv'
      BY <1>0, <1>2, <2>1, <2>2, TailLink DEF WireInv
    <2>5. m \in Carriers /\ m \notin Removals
      BY <1>3, <1>5 DEF Carriers, Removals
    <2>6. ASSUME ~ Crossed' PROVE ServerInv'
      <3>1. ~ Crossed
        BY <1>0, <1>1, <1>2, <2>1, <2>5, <2>6, CrossedWaits
      <3>2. ServerInv /\ LinkInv
        BY <2>2, <3>1 DEF WireInv
      <3>3. generation' = generation
        BY <2>1 DEF books
      <3> QED
        BY <1>0, <1>1, <1>2, <2>1, <2>5, <3>2, <3>3, CarrierArrives
    <2> QED
      BY <2>3, <2>4, <2>6 DEF WireInv
  <1>6. CASE m.type = "removed"
    <2>1. /\ inflight' = inflight /\ jobs' = jobs /\ attached' = FALSE /\ snapshot' = NoSnapshot
          /\ torn' = (torn \/ \E l \in Leases : lease[l].pc \in Acquiring \cup {"releasing"})
      BY <1>1, <1>6 DEF Deliver
    <2> SUFFICES ASSUME ~ torn, \A l \in Leases : lease[l].pc \notin Acquiring \cup {"releasing"}
                 PROVE  PromisesInv' /\ JobsInv' /\ WireInv'
      BY <2>1 DEF AttachInv
    <2>2. PromisesInv /\ JobsInv /\ WireInv
      BY DEF AttachInv
    <2>3. PromisesInv' /\ JobsInv' /\ \A k \in Requests : inflight[k] = "no"
      BY <1>2, <2>1, <2>2, RemovalSettles
    <2>4. ~ Crossed
      BY <2>3 DEF Crossed
    <2>5. ServerInv /\ LinkInv
      BY <2>2, <2>4 DEF WireInv
    <2>6. LinkInv'
      BY <1>0, <1>2, <2>1, <2>5, TailLink
    <2>7. m \in Finals
      BY <1>3, <1>6 DEF Finals, Removals
    <2>8. Tail(inbox) = <<>> /\ ~ server.has
      BY <1>0, <1>1, <1>2, <2>5, <2>7, FinalArrives DEF ServerInv
    <2>9. server.reply = NoSnapshot
      BY <2>5, <2>8 DEF ServerInv, ReplyInv
    <2>10. ServerInv'
      BY <1>2, <2>1, <2>8, <2>9, OverKnows
    <2> QED
      BY <2>3, <2>6, <2>10 DEF WireInv
  <1> QED
    BY <1>3, <1>4, <1>5, <1>6

-----------------------------------------------------------------------------
(* The connection *)

\* The connection is opened, and then established.
LEMMA ConnectAttach == ASSUME IInv, AttachInv, connect \/ handshake PROVE AttachInv'
  <1>0. TypeOK /\ DetachInv /\ WaitInv
    BY DEF IInv
  <1>1. /\ jobs = <<>> /\ link # "connected" /\ attached' \in {attached, FALSE} /\ snapshot' \in {snapshot, NoSnapshot}
        /\ UNCHANGED <<lease, books, promises, jobs, inflight, inbox, server, torn, suspect>>
    BY DEF connect, handshake, state
  <1> SUFFICES ASSUME ~ torn PROVE PromisesInv' /\ JobsInv' /\ WireInv'
    BY <1>1 DEF AttachInv
  <1>2. PromisesInv /\ JobsInv /\ LinkInv
    BY DEF AttachInv, WireInv
  <1>3. ~ server.has /\ inbox = <<>> /\ server.reply = NoSnapshot /\ ~ attached
    BY <1>1, <1>2 DEF LinkInv, Over
  <1>4. \A k \in Requests : inflight[k] = "no"
    BY <1>0, <1>1, IdleQuiet
  <1>5. Range(jobs) = {} /\ jobs' = jobs
    BY <1>1 DEF Range
  <1>6. ~ attached'
    BY <1>1, <1>3
  <1>7. PromisesInv'
    <2>1. /\ detachment' = detachment /\ attachment' = attachment /\ reconciliation' = reconciliation
          /\ cleanup' = cleanup
      BY <1>1 DEF promises, books
    <2>2. OnePromise' /\ AttachPromise' /\ RequestPromise' /\ JobPromise'
      BY <1>1, <1>2, <1>4, <1>5, <2>1 DEF PromisesInv, OnePromise, AttachPromise, RequestPromise, JobPromise, Someone
    <2>3. DetachPromise' /\ ReconcilePromise'
      BY <1>1, <1>2, <1>5, <2>1 DEF PromisesInv, DetachPromise, ReconcilePromise, Someone, Over
    <2> QED
      BY <2>2, <2>3 DEF PromisesInv
  <1>8. JobsInv'
    BY <1>2, <1>5 DEF JobsInv, OneBatch
  <1>9. LinkInv'
    BY <1>1, <1>2, <1>3, <1>6 DEF LinkInv, In, Over
  <1>10. ServerInv'
    <2>1. inflight'["attach"] = "no"
      BY <1>1, <1>4 DEF Requests
    <2> QED
      BY <1>1, <1>3, <1>6, <2>1, OverKnows
  <1> QED
    BY <1>7, <1>8, <1>9, <1>10 DEF WireInv

\* The one pending request is rejected.
LEMMA RejectAlone ==
    ASSUME TypeOK, NEW k \in Requests, \A r \in Requests \ {k} : inflight[r] = "no"
    PROVE  rejectPendingRequests = IF inflight[k] = "no" THEN <<>> ELSE <<Settles(k, FALSE)>>
  <1>1. PICK x \in JobType : x = Settles(k, FALSE)
    BY SettlesIs
  <1>2. /\ <<>> \o <<x>> = <<x>> /\ <<x>> \o <<>> = <<x>> /\ <<>> \o <<>> = <<>>
    <2>1. x \in JobType
      BY <1>1
    <2>2. <<x>> \in Seq(JobType)
      BY <2>1
    <2> QED
      BY <2>2, ConcatEmptySeq
  <1>3. PICK e, s : e = <<>> /\ s = <<x>>
    OBVIOUS
  <1>4. e \o s = s /\ s \o e = s /\ e \o e = e
    BY <1>2, <1>3
  <1>5. \A r \in Requests : (IF inflight[r] = "no" THEN <<>> ELSE <<Settles(r, FALSE)>>)
                             = IF r = k /\ inflight[k] # "no" THEN s ELSE e
    BY <1>1, <1>3
  <1>6. PICK a, b, c : /\ a = IF "attach" = k /\ inflight[k] # "no" THEN s ELSE e
                       /\ b = IF "detach" = k /\ inflight[k] # "no" THEN s ELSE e
                       /\ c = IF "reconcile" = k /\ inflight[k] # "no" THEN s ELSE e
    OBVIOUS
  <1>7. rejectPendingRequests = (a \o b) \o c
    BY <1>5, <1>6 DEF rejectPendingRequests, Requests
  <1>8. (a \o b) \o c = IF inflight[k] = "no" THEN e ELSE s
    <2>1. CASE inflight[k] = "no"
      BY <1>4, <1>6, <2>1
    <2>2. CASE inflight[k] # "no" /\ k = "attach"
      BY <1>4, <1>6, <2>2
    <2>3. CASE inflight[k] # "no" /\ k = "detach"
      BY <1>4, <1>6, <2>3
    <2>4. CASE inflight[k] # "no" /\ k = "reconcile"
      BY <1>4, <1>6, <2>4
    <2> QED
      BY <2>1, <2>2, <2>3, <2>4 DEF Requests
  <1> QED
    BY <1>1, <1>3, <1>7, <1>8

\* A queue with one job, or with none.
LEMMA OneJob ==
    ASSUME NEW x \in JobType, NEW q, q = <<x>> \/ q = <<>>
    PROVE  /\ Range(q) \subseteq {x} /\ (q = <<x>> => Range(q) = {x})
           /\ LastOnly(q, Settlements) /\ \A l : AtMostOne(q, JobsOf(l))
  <1>1. CASE q = <<>>
    <2>1. DOMAIN q = {} /\ Range(q) = {} /\ q # <<x>>
      BY <1>1 DEF Range
    <2> QED
      BY <2>1 DEF LastOnly, AtMostOne
  <1>2. CASE q = <<x>>
    <2>1. DOMAIN q = {1} /\ q[1] = x /\ Len(q) = 1
      BY <1>2
    <2> QED
      BY <2>1 DEF LastOnly, AtMostOne, Range
  <1> QED
    BY <1>1, <1>2

\* The connection is lost or closed.
LEMMA DisconnectAttach ==
    ASSUME IInv, AttachInv, NEW how \in {"disconnected", "disposed"}, disconnect(how)
    PROVE  AttachInv'
  <1>0. TypeOK /\ CountsInv /\ DetachInv /\ WaitInv
    BY DEF IInv
  <1>1. /\ jobs = <<>> /\ attached' = FALSE /\ invalidateAllSessionLeases /\ jobs' = rejectPendingRequests
        /\ inflight' = [k \in Requests |-> "no"] /\ inbox' = <<>>
        /\ server' = [server EXCEPT !.has = FALSE, !.reply = NoSnapshot] /\ suspect' = FALSE
        /\ UNCHANGED <<lease, promises, torn>>
    BY DEF disconnect
  <1>2. cleanup' = FALSE /\ Range(jobs) = {}
    BY <1>1 DEF invalidateAllSessionLeases, invalidateSessionLeases, Range
  <1> SUFFICES ASSUME ~ torn PROVE PromisesInv' /\ JobsInv' /\ WireInv'
    BY <1>1 DEF AttachInv
  <1>3. PromisesInv /\ JobsInv /\ LinkInv
    BY DEF AttachInv, WireInv
  <1>4. ~ server'.has /\ server'.reply = NoSnapshot /\ server'.snapshot = server.snapshot /\ Over'
    BY <1>0, <1>1 DEF TypeOK, Over
  <1>5. \A k \in Requests : inflight'[k] = "no"
    BY <1>1
  <1>6. /\ detachment' = detachment /\ attachment' = attachment /\ reconciliation' = reconciliation
        /\ \A k : Promised(k)' <=> Promised(k)
    BY <1>1 DEF promises, Promised
  <1>7. \A k \in Requests : inflight[k] # "no" => Promised(k)
    BY <1>3 DEF PromisesInv, RequestPromise
  <1>8. \A k, r \in Requests : Promised(k) /\ Promised(r) => k = r
    BY <1>3 DEF PromisesInv, OnePromise, Promised
  <1>9. PICK k \in Requests : \A r \in Requests \ {k} : inflight[r] = "no"
    <2>1. CASE \E k \in Requests : inflight[k] # "no"
      BY <1>7, <1>8, <2>1
    <2>2. CASE \A k \in Requests : inflight[k] = "no"
      BY <2>2 DEF Requests
    <2> QED
      BY <2>1, <2>2
  <1>10. PICK x \in JobType : x = Settles(k, FALSE)
    BY <1>0, SettlesIs
  <1>11. /\ ~ x.ok
         /\ k # "detach" => x.of = k
         /\ k = "detach" => IsOf(x, detachment)
    BY <1>0, <1>10, SettlesIs DEF Requests
  <1>12. (inflight[k] = "no" /\ jobs' = <<>>) \/ (inflight[k] # "no" /\ jobs' = <<x>>)
    BY <1>0, <1>1, <1>9, <1>10, RejectAlone
  <1>13. /\ Range(jobs') \subseteq {x} /\ (inflight[k] = "no" => Range(jobs') = {})
         /\ LastOnly(jobs', Settlements) /\ \A l : AtMostOne(jobs', JobsOf(l))
    <2>1. Range(<<>>) = {}
      BY DEF Range
    <2> QED
      BY <1>12, <2>1, OneJob
  <1>14. \A r \in Requests : Promised(r) => r = k /\ inflight[k] # "no"
    <2>1. /\ reconciliation => inflight["reconcile"] # "no"
          /\ attachment => inflight["attach"] # "no"
          /\ detachment # 0 => inflight["detach"] # "no"
      BY <1>0, <1>2 DEF WaitInv, Pending, HasJob
    <2> QED
      BY <1>9, <2>1 DEF Promised
  <1>15. PromisesInv'
    <2>1. OnePromise'
      BY <1>3, <1>6 DEF PromisesInv, OnePromise
    <2>2. DetachPromise'
      <3>1. detachment # 0 => k = "detach"
        BY <1>14 DEF Promised, Requests
      <3> QED
        BY <1>4, <1>6, <1>11, <1>13, <3>1 DEF DetachPromise
    <2>3. AttachPromise'
      BY <1>1, <1>2, <1>3, <1>6 DEF PromisesInv, AttachPromise, Someone
    <2>4. ReconcilePromise'
      <3>1. reconciliation => k = "reconcile"
        BY <1>14 DEF Promised, Requests
      <3>2. inflight'["reconcile"] = "no"
        BY <1>5 DEF Requests
      <3> QED
        BY <1>1, <1>3, <1>6, <1>11, <1>13, <3>1, <3>2 DEF PromisesInv, ReconcilePromise, Someone
    <2>5. RequestPromise'
      BY <1>5 DEF RequestPromise
    <2>6. JobPromise'
      <3> SUFFICES ASSUME NEW j \in Range(jobs'), j.of # "lease" PROVE Promised(j.of)' /\ inflight'[j.of] = "no"
        BY DEF JobPromise
      <3>1. j = x /\ inflight[k] # "no" /\ k # "detach" /\ j.of = k
        BY <1>11, <1>13 DEF IsOf
      <3> QED
        BY <1>5, <1>6, <1>7, <3>1
    <2> QED
      BY <2>1, <2>2, <2>3, <2>4, <2>5, <2>6 DEF PromisesInv
  <1>16. JobsInv'
    <2>1. OneBatch'
      BY <1>13 DEF OneBatch
    <2>2. ASSUME NEW j \in Range(jobs') PROVE IF j.of = "lease" THEN LeaseJob(j)' ELSE SettleJob(j)'
      <3>1. j = x /\ inflight[k] # "no"
        BY <1>13
      <3>2. CASE k = "detach"
        <4>1. detachment # 0
          BY <1>7, <3>1, <3>2 DEF Promised
        <4>2. lease[j.lease].pc = "releasing" /\ j.lease = detachment /\ j.of = "lease"
          BY <1>0, <1>11, <3>1, <3>2, <4>1 DEF DetachInv, IsOf, TypeOK
        <4> QED
          BY <1>1, <1>6, <4>2 DEF LeaseJob
      <3>3. CASE k # "detach"
        BY <1>4, <1>11, <3>1, <3>3 DEF SettleJob, Requests
      <3> QED
        BY <3>2, <3>3
    <2> QED
      BY <1>13, <2>1, <2>2 DEF JobsInv
  <1>17. LinkInv'
    <2>1. Range(inbox') = {} /\ DOMAIN inbox' = {}
      BY <1>1 DEF Range
    <2> QED
      BY <1>1, <1>3, <1>4, <2>1 DEF LinkInv, In, AtMostOne
  <1>18. ServerInv'
    <2>1. inflight'["attach"] = "no"
      BY <1>5 DEF Requests
    <2> QED
      BY <1>1, <1>4, <2>1, OverKnows
  <1> QED
    BY <1>15, <1>16, <1>17, <1>18 DEF WireInv

-----------------------------------------------------------------------------
(* The server *)

\* What the server does for a request concerns the promise of that request.
LEMMA ServerSettles ==
    ASSUME TypeOK, PromisesInv, JobsInv, UNCHANGED <<lease, books, promises, state, jobs, suspect>>,
           \A k \in Requests : inflight'[k] = "no" <=> inflight[k] = "no",
           Over => Over' \/ \E k \in Requests : inflight[k] # "no",
           server'.has => server.has \/ inflight["attach"] # "no"
    PROVE  PromisesInv' /\ JobsInv'
  <1>1. /\ detachment' = detachment /\ attachment' = attachment /\ reconciliation' = reconciliation
        /\ cleanup' = cleanup /\ attached' = attached /\ \A r : Promised(r)' <=> Promised(r)
    BY DEF promises, books, state, Promised
  <1>2. \A k \in Requests : inflight[k] # "no" => Promised(k)
    BY DEF PromisesInv, RequestPromise
  <1>3. Over => Over' \/ (detachment # 0 /\ inflight["detach"] # "no")
                      \/ (attachment /\ inflight["attach"] # "no")
                      \/ (reconciliation /\ inflight["reconcile"] # "no")
    BY <1>2 DEF Promised, Requests
  <1>4. inflight["attach"] # "no" => attachment
    BY <1>2 DEF Promised, Requests
  <1>5. OnePromise
    BY DEF PromisesInv
  <1>6. PromisesInv'
    <2>1. OnePromise' /\ AttachPromise' /\ RequestPromise' /\ JobPromise'
      <3>1. \A j \in Range(jobs) : j.of # "lease" => j.of \in Requests
        BY JobsAre DEF Requests
      <3> QED
        BY <1>1, <3>1 DEF PromisesInv, OnePromise, AttachPromise, RequestPromise, JobPromise, Someone
    <2>2. DetachPromise'
      BY <1>1, <1>3, <1>5 DEF PromisesInv, DetachPromise, OnePromise, Requests
    <2>3. ReconcilePromise'
      BY <1>1 DEF PromisesInv, ReconcilePromise, Someone, Requests
    <2> QED
      BY <2>1, <2>2, <2>3 DEF PromisesInv
  <1>7. ASSUME NEW j \in Range(jobs) PROVE IF j.of = "lease" THEN LeaseJob(j)' ELSE SettleJob(j)'
    <2>1. IF j.of = "lease" THEN LeaseJob(j) ELSE SettleJob(j)
      BY DEF JobsInv
    <2>2. ASSUME j.of = "lease" PROVE LeaseJob(j)'
      <3>1. LeaseJob(j)
        BY <2>1, <2>2
      <3>2. ReconciledJob(j) => ReconciledJob(j)'
        BY <1>1, <1>3, <1>4 DEF ReconciledJob
      <3>3. AttachedJob(j) => AttachedJob(j)'
        BY <1>1, <1>4 DEF AttachedJob
      <3> QED
        BY <1>1, <3>1, <3>2, <3>3 DEF LeaseJob
    <2>3. ASSUME j.of # "lease" PROVE SettleJob(j)'
      <3>1. SettleJob(j) /\ Promised(j.of) /\ inflight[j.of] = "no"
        BY <2>1, <2>3 DEF PromisesInv, JobPromise
      <3> QED
        BY <1>1, <1>3, <1>5, <3>1 DEF SettleJob, OnePromise, Promised
    <2> QED
      BY <2>2, <2>3
  <1>8. JobsInv'
    BY <1>7 DEF JobsInv, OneBatch
  <1> QED
    BY <1>6, <1>8

\* A request that the server has yet to handle is the only one, and no message
\* on its way answers it or, unless they crossed, ends the attachment.
LEMMA SentIs ==
    ASSUME IInv, PromisesInv, WireInv, NEW k \in Requests, inflight[k] = "sent"
    PROVE  /\ Promised(k) /\ (\A r \in Requests \ {k} : ~ Promised(r) /\ inflight[r] = "no")
           /\ link = "connected" /\ server.reply = NoSnapshot /\ ~ In(Answers)
           /\ ~ Crossed => ~ In(Finals)
  <1>0. TypeOK /\ WaitInv /\ LinkInv
    BY DEF IInv, WireInv
  <1>1. Promised(k) /\ inflight[k] # "no" /\ inflight[k] # "handled"
    BY DEF PromisesInv, RequestPromise
  <1>2. \A r \in Requests \ {k} : ~ Promised(r)
    BY <1>1 DEF PromisesInv, OnePromise, Promised, Requests
  <1>3. \A r \in Requests \ {k} : inflight[r] = "no"
    BY <1>2 DEF PromisesInv, RequestPromise
  <1>4. \A r \in Requests : inflight[r] # "handled"
    BY <1>1, <1>3
  <1>5. \A r \in Requests : ~ In(AnswersTo(r))
    BY <1>0, <1>4 DEF LinkInv
  <1>6. ~ In(Answers)
    <2> SUFFICES ASSUME NEW m \in Range(inbox), m \in Answers PROVE FALSE
      BY DEF In
    <2>1. m.request \in Requests /\ m \in AnswersTo(m.request)
      BY DEF Answers, AnswersTo, MessageType
    <2> QED
      BY <1>5, <2>1 DEF In
  <1>7. server.reply = NoSnapshot
    BY <1>0, <1>4 DEF LinkInv, Requests
  <1>8. ~ Crossed => ~ In(Finals)
    <2> SUFFICES ASSUME NEW m \in Range(inbox), m \in Finals PROVE Crossed
      BY DEF In
    <2>1. m \in Removals
      BY <1>6 DEF Finals, AnswersTo, In
    <2> QED
      BY <1>0, <1>1, <1>5, <2>1, CrossedBy
  <1>9. link = "connected"
    BY <1>0, <1>1 DEF WaitInv
  <1> QED
    BY <1>1, <1>2, <1>3, <1>6, <1>7, <1>8, <1>9

\* One more message.
LEMMA MessageSent ==
    ASSUME TypeOK, NEW m \in MessageType, inbox' = Append(inbox, m),
           \A k \in Requests : inflight[k] # "no" => inflight'[k] # "no"
    PROVE  /\ inbox \in Seq(MessageType) /\ Range(inbox') = Range(inbox) \cup {m}
           /\ Crossed => Crossed'
  <1>1. inbox \in Seq(MessageType)
    BY DEF TypeOK, MessageType
  <1>2. Range(inbox') = Range(inbox) \cup {m}
    BY <1>1, RangeAppend
  <1>3. PICK t : t = <<m>>
    OBVIOUS
  <1>4. t \in Seq(MessageType) /\ inbox' = inbox \o t
    BY <1>1, <1>3
  <1> QED
    BY <1>1, <1>2, <1>4, CrossedStays

\* The answer to a request.
LEMMA AnswerSent ==
    ASSUME IInv, PromisesInv, WireInv, NEW k \in Requests, inflight[k] = "sent",
           inflight' = [inflight EXCEPT ![k] = "handled"], NEW m \in AnswersTo(k), inbox' = Append(inbox, m),
           server'.snapshot = server.snapshot, server'.reply = server.reply, link' = link
    PROVE  LinkInv'
  <1>0. TypeOK /\ LinkInv
    BY DEF IInv, WireInv
  <1>1. (\A r \in Requests \ {k} : inflight[r] = "no") /\ link = "connected" /\ server.reply = NoSnapshot /\ ~ In(Answers)
    BY SentIs
  <1>2. m \in MessageType /\ m.request = k
    BY DEF AnswersTo, Answers
  <1>3. inbox \in Seq(MessageType) /\ Range(inbox') = Range(inbox) \cup {m}
    <2>1. inbox \in Seq(MessageType)
      BY <1>0 DEF TypeOK, MessageType
    <2> QED
      BY <1>2, <2>1, RangeAppend
  <1>4. Range(inbox) \cap Answers = {}
    BY <1>1 DEF In
  <1>5. AtMostOne(inbox', Answers)
    BY <1>2, <1>3, <1>4, OnceAppend
  <1>6. ASSUME NEW r \in Requests, In(AnswersTo(r))' PROVE inflight'[r] = "handled"
    <2>1. PICK x \in Range(inbox') : x \in AnswersTo(r)
      BY <1>6 DEF In
    <2>2. x = m
      BY <1>3, <1>4, <2>1 DEF AnswersTo
    <2>3. r = k
      BY <1>2, <2>1, <2>2 DEF AnswersTo
    <2> QED
      BY <1>0, <2>3 DEF TypeOK
  <1> QED
    BY <1>0, <1>1, <1>5, <1>6 DEF LinkInv

\* A message that answers nothing.
LEMMA EventSent ==
    ASSUME TypeOK, LinkInv, NEW m \in MessageType, m \notin Answers, inbox' = inbox \/ inbox' = Append(inbox, m),
           inbox' = inbox \/ link = "connected", link # "connected" => ~ server'.has,
           server'.snapshot.epoch > 0, server'.reply = server.reply, UNCHANGED <<link, inflight, attached>>
    PROVE  LinkInv'
  <1>1. inbox \in Seq(MessageType)
    BY DEF TypeOK, MessageType
  <1>2. Range(inbox') = Range(inbox) \/ Range(inbox') = Range(inbox) \cup {m}
    <2>1. CASE inbox' = inbox
      BY <2>1
    <2>2. CASE inbox' = Append(inbox, m)
      BY <1>1, <2>2, RangeAppend
    <2> QED
      BY <2>1, <2>2
  <1>3. \A T \in SUBSET Answers : In(T)' => In(T)
    BY <1>2 DEF In
  <1>4. AtMostOne(inbox', Answers)
    BY <1>1, OnceAppend DEF LinkInv
  <1>5. \A k \in Requests : In(AnswersTo(k))' => In(AnswersTo(k))
    BY <1>3 DEF AnswersTo
  <1>6. In(Answers)' => In(Answers)
    BY <1>3
  <1> QED
    BY <1>4, <1>5, <1>6 DEF LinkInv, Over

\* The last message that the server has for the client.
LEMMA FinalSent ==
    ASSUME TypeOK, NEW m \in Finals, inbox' = Append(inbox, m), ~ In(Finals), ~ server'.has, server'.reply = NoSnapshot
    PROVE  ServerInv'
  <1>1. m \in MessageType /\ inbox \in Seq(MessageType)
    BY DEF TypeOK, MessageType, Finals, Removals, AnswersTo, Answers
  <1>2. Range(inbox') = Range(inbox) \cup {m}
    BY <1>1, RangeAppend
  <1>3. In(Finals)'
    BY <1>2 DEF In
  <1>4. \A y \in Range(inbox) : y \notin Finals
    BY DEF In
  <1>5. LastOnly(inbox', Finals)
    BY <1>1, <1>4, LastAppend
  <1> QED
    BY <1>3, <1>5 DEF ServerInv, ReplyInv, FinalsInv, CarriersInv, KnownInv, HeldInv

\* The server detaches, and answers.
LEMMA ServerDetachesAttach ==
    ASSUME IInv, AttachInv, NEW k \in Requests, ServerDetaches(k)
    PROVE  AttachInv'
  <1>0. TypeOK
    BY DEF IInv
  <1>1. /\ k \in {"detach", "reconcile"} /\ inflight[k] = "sent" /\ inflight' = [inflight EXCEPT ![k] = "handled"]
        /\ \E type \in {"ok", "error"} : inbox' = Append(inbox, Message(type, k, NoSnapshot))
        /\ server' = [server EXCEPT !.has = FALSE]
        /\ UNCHANGED <<link, lease, books, promises, state, jobs, torn, suspect>>
    BY DEF ServerDetaches
  <1> SUFFICES ASSUME ~ torn PROVE PromisesInv' /\ JobsInv' /\ WireInv'
    BY <1>1 DEF AttachInv
  <1>2. PromisesInv /\ JobsInv /\ WireInv
    BY DEF AttachInv
  <1>3. server'.has = FALSE /\ server'.snapshot = server.snapshot /\ server'.reply = server.reply
    BY <1>0, <1>1 DEF TypeOK
  <1>4. \A r \in Requests : inflight'[r] = "no" <=> inflight[r] = "no"
    BY <1>0, <1>1 DEF TypeOK
  <1>5. PICK type \in {"ok", "error"} : inbox' = Append(inbox, Message(type, k, NoSnapshot))
    BY <1>1
  <1>6. PICK m : m = Message(type, k, NoSnapshot)
    OBVIOUS
  <1>7. m \in AnswersTo(k) /\ m \in Finals /\ m \in MessageType
    <2>1. m \in MessageType
      <3>1. NoSnapshot \in Snapshots
        BY DEF NoSnapshot, Snapshots
      <3> QED
        BY <1>6, <3>1, MessageIs
    <2>2. m.type = type /\ m.request = k
      BY <1>6 DEF Message
    <2> QED
      BY <1>1, <2>1, <2>2 DEF AnswersTo, Answers, Finals
  <1>8. inbox' = Append(inbox, m)
    BY <1>5, <1>6
  <1>9. PromisesInv' /\ JobsInv'
    BY <1>0, <1>1, <1>2, <1>3, <1>4, ServerSettles
  <1>10. LinkInv'
    BY <1>1, <1>2, <1>3, <1>7, <1>8, AnswerSent
  <1>11. ASSUME ~ Crossed' PROVE ServerInv'
    <2>1. ~ Crossed
      BY <1>0, <1>4, <1>7, <1>8, <1>11, MessageSent
    <2>2. ~ In(Finals) /\ server.reply = NoSnapshot
      BY <1>1, <1>2, <2>1, SentIs
    <2> QED
      BY <1>0, <1>3, <1>7, <1>8, <2>2, FinalSent
  <1> QED
    BY <1>9, <1>10, <1>11 DEF WireInv

\* The session is removed.
LEMMA ServerRemovesAttach == ASSUME IInv, AttachInv, ServerRemoves PROVE AttachInv'
  <1>0. TypeOK
    BY DEF IInv
  <1>1. PICK m : m = Message("removed", "attach", NoSnapshot)
    OBVIOUS
  <1>2. /\ link = "connected" /\ server.has /\ server.reply = NoSnapshot /\ inbox' = Append(inbox, m)
        /\ server' = [server EXCEPT !.has = FALSE]
        /\ UNCHANGED <<link, lease, books, promises, state, jobs, inflight, torn, suspect>>
    BY <1>1 DEF ServerRemoves
  <1> SUFFICES ASSUME ~ torn PROVE PromisesInv' /\ JobsInv' /\ WireInv'
    BY <1>2 DEF AttachInv
  <1>3. PromisesInv /\ JobsInv /\ WireInv /\ LinkInv
    BY DEF AttachInv, WireInv
  <1>4. ~ server'.has /\ server'.snapshot = server.snapshot /\ server'.reply = server.reply
    BY <1>0, <1>2 DEF TypeOK
  <1>5. m \in Finals /\ m \in MessageType /\ m \notin Answers
    <2>1. m \in MessageType
      <3>1. NoSnapshot \in Snapshots
        BY DEF NoSnapshot, Snapshots
      <3> QED
        BY <1>1, <3>1, MessageIs DEF Requests
    <2>2. m.type = "removed"
      BY <1>1 DEF Message
    <2> QED
      BY <2>1, <2>2 DEF Finals, Removals, Answers
  <1>6. PromisesInv' /\ JobsInv'
    BY <1>0, <1>2, <1>3, <1>4, ServerSettles DEF Over
  <1>7. LinkInv'
    BY <1>0, <1>2, <1>3, <1>4, <1>5, EventSent DEF state, LinkInv
  <1>8. ASSUME ~ Crossed' PROVE ServerInv'
    <2>1. ~ Crossed
      BY <1>0, <1>2, <1>5, <1>8, MessageSent
    <2>2. ~ In(Finals)
      BY <1>2, <1>3, <2>1 DEF WireInv, ServerInv, FinalsInv
    <2> QED
      BY <1>0, <1>2, <1>4, <1>5, <2>2, FinalSent
  <1> QED
    BY <1>6, <1>7, <1>8 DEF WireInv

\* A change of the session that the server holds for the client.
LEMMA ChangeSent ==
    ASSUME TypeOK, ServerInv, NEW m \in MessageType, m.type = "event", inbox' = Append(inbox, m), server.has, server'.has,
           server'.snapshot.epoch = server.snapshot.epoch, server'.snapshot.rev = server.snapshot.rev + 1,
           m.snapshot = server'.snapshot, server'.reply = server.reply,
           UNCHANGED <<lease, generation, attached, snapshot, inflight, suspect>>
    PROVE  ServerInv'
  <1>1. inbox \in Seq(MessageType) /\ server.snapshot \in Snapshots /\ server.reply \in Snapshots /\ snapshot \in Snapshots
    BY DEF TypeOK, MessageType
  <1>2. Range(inbox') = Range(inbox) \cup {m} /\ Range(inbox) \subseteq MessageType
    BY <1>1, RangeAppend DEF Range
  <1>3. \A s \in Snapshots : OfThis(s) => OfThis(s)'
    BY <1>1 DEF OfThis, Snapshots
  <1>4. OfThis(m.snapshot)'
    BY <1>1 DEF OfThis, Snapshots
  <1>5. m \notin Finals /\ m \in Carriers
    BY DEF Finals, Removals, AnswersTo, Answers, Carriers
  <1>6. \A y \in Range(inbox') : y \notin Finals
    BY <1>2, <1>5 DEF ServerInv, FinalsInv, In
  <1>7. ReplyInv'
    BY <1>1, <1>3 DEF ServerInv, ReplyInv
  <1>8. FinalsInv'
    BY <1>6, LastNone DEF FinalsInv, In
  <1>9. CarriersInv'
    <2>1. \A x \in Range(inbox) : x.snapshot \in Snapshots
      BY <1>2 DEF MessageType
    <2> QED
      BY <1>2, <1>3, <1>4, <2>1 DEF ServerInv, CarriersInv
  <1>10. KnownInv'
    BY <1>1, <1>3 DEF ServerInv, KnownInv
  <1>11. HeldInv'
    <2>1. Newest'
      BY <1>2, <1>5 DEF Newest
    <2>2. Reserved' = Reserved
      BY DEF Reserved
    <2> QED
      BY <2>1, <2>2 DEF ServerInv, HeldInv
  <1> QED
    BY <1>7, <1>8, <1>9, <1>10, <1>11 DEF ServerInv

\* The session changes.
LEMMA ServerChangesAttach == ASSUME IInv, AttachInv, ServerChanges PROVE AttachInv'
  <1>0. TypeOK
    BY DEF IInv
  <1>1. PICK s, m : s = [server.snapshot EXCEPT !.rev = @ + 1] /\ m = Message("event", "attach", s)
    OBVIOUS
  <1>2. UNCHANGED <<link, lease, books, promises, state, jobs, inflight, torn, suspect>>
    BY DEF ServerChanges
  <1>3. /\ server.has => inbox' = Append(inbox, m)
        /\ ~ server.has => inbox' = inbox
        /\ \/ server' = [server EXCEPT !.snapshot.rev = @ + 1]
           \/ ~ server.has /\ server' = [server EXCEPT !.snapshot = [epoch |-> server.snapshot.epoch + 1, rev |-> 1]]
    BY <1>1 DEF ServerChanges
  <1>4. server \in [has : BOOLEAN, snapshot : Snapshots, reply : Snapshots] /\ server.snapshot \in Snapshots
    BY <1>0 DEF TypeOK
  <1>5. /\ server'.has = server.has /\ server'.reply = server.reply
        /\ server'.snapshot.epoch \in {server.snapshot.epoch, server.snapshot.epoch + 1}
        /\ server.has => server'.snapshot = s
    BY <1>1, <1>3, <1>4 DEF Snapshots
  <1>6. s \in Snapshots /\ s.epoch = server.snapshot.epoch /\ s.rev = server.snapshot.rev + 1
    BY <1>1, <1>4 DEF Snapshots
  <1> SUFFICES ASSUME ~ torn PROVE PromisesInv' /\ JobsInv' /\ WireInv'
    BY <1>2 DEF AttachInv
  <1>7. PromisesInv /\ JobsInv /\ WireInv /\ LinkInv
    BY DEF AttachInv, WireInv
  <1>8. m \in MessageType /\ m \notin Answers /\ m.type = "event" /\ m.snapshot = s
    <2>1. m \in MessageType
      BY <1>1, <1>6, MessageIs DEF Requests
    <2> QED
      BY <1>1, <2>1 DEF Message, Answers
  <1>9. PromisesInv' /\ JobsInv'
    BY <1>0, <1>2, <1>3, <1>5, <1>7, ServerSettles DEF Over
  <1>10. LinkInv'
    <2>1. server'.snapshot.epoch > 0
      BY <1>4, <1>5, <1>7 DEF LinkInv, Snapshots
    <2>2. attached' = attached
      BY <1>2 DEF state
    <2>3. link # "connected" => ~ server.has
      BY <1>7 DEF LinkInv, Over
    <2>4. inbox' = inbox \/ inbox' = Append(inbox, m)
      BY <1>3
    <2>5. inbox' = inbox \/ link = "connected"
      BY <1>3, <2>3
    <2> QED
      BY <1>0, <1>2, <1>5, <1>7, <1>8, <2>1, <2>2, <2>3, <2>4, <2>5, EventSent
  <1>11. ASSUME ~ Crossed' PROVE ServerInv'
    <2>1. CASE server.has
      <3>1. ~ Crossed
        BY <1>0, <1>2, <1>3, <1>8, <1>11, <2>1, MessageSent
      <3>2. ServerInv
        BY <1>7, <3>1 DEF WireInv
      <3> QED
        BY <1>0, <1>2, <1>3, <1>5, <1>6, <1>8, <2>1, <3>2, ChangeSent DEF books, state
    <2>2. CASE ~ server.has
      <3>1. inbox' = inbox /\ ~ server'.has
        BY <1>3, <1>5, <2>2
      <3>2. ~ Crossed
        BY <1>2, <1>11, <3>1 DEF Crossed
      <3>3. ServerInv
        BY <1>7, <3>2 DEF WireInv
      <3>4. server'.reply = NoSnapshot
        BY <1>5, <2>2, <3>3 DEF ServerInv, ReplyInv
      <3>5. In(Finals)' <=> In(Finals)
        BY <3>1 DEF In
      <3>6. attached' = attached /\ snapshot' = snapshot
        BY <1>2 DEF state
      <3> QED
        BY <1>2, <2>2, <3>1, <3>3, <3>4, <3>5, <3>6
           DEF ServerInv, ReplyInv, FinalsInv, CarriersInv, KnownInv, HeldInv
    <2> QED
      BY <2>1, <2>2
  <1> QED
    BY <1>9, <1>10, <1>11 DEF WireInv

\* An attach is handled: it took effect, or it failed.
LEMMA AttachHandled ==
    ASSUME IInv, PromisesInv, ServerInv, LinkInv, ~ Crossed, inflight["attach"] = "sent", inflight'["attach"] = "handled",
           server.has => server'.has, server'.snapshot = server.snapshot,
           UNCHANGED <<lease, generation, attached, snapshot, suspect>>,
           NEW m \in Failures,
           \/ inbox' = inbox /\ server'.has /\ server'.reply = server.snapshot
           \/ inbox' = Append(inbox, m) /\ server'.reply = NoSnapshot
    PROVE  ServerInv'
  <1>0. TypeOK /\ WireInv
    BY DEF IInv, WireInv
  <1>1. m \in MessageType /\ m \notin Finals /\ m \notin Carriers
    BY DEF Failures, AnswersTo, Answers, Finals, Removals, Carriers
  <1>2. inbox \in Seq(MessageType) /\ server.snapshot \in Snapshots
    BY <1>0 DEF TypeOK, MessageType
  <1>3. inbox' = Append(inbox, m) => Range(inbox') = Range(inbox) \cup {m}
    BY <1>1, <1>2, RangeAppend
  <1>4. Range(inbox') = Range(inbox) \/ Range(inbox') = Range(inbox) \cup {m}
    BY <1>3
  <1>5. Promised("attach") /\ ~ In(Finals)
    BY <1>0, SentIs DEF Requests
  <1>6. \A y \in Range(inbox') : y \notin Finals
    BY <1>1, <1>4, <1>5 DEF In
  <1>7. ReplyInv'
    BY <1>2 DEF ReplyInv, OfThis, Snapshots
  <1>8. FinalsInv'
    BY <1>6, LastNone DEF FinalsInv, In
  <1>9. CarriersInv'
    BY <1>1, <1>4, <1>5 DEF ServerInv, CarriersInv, OfThis
  <1>10. KnownInv'
    BY <1>5 DEF ServerInv, KnownInv, OfThis
  <1>11. Newest'
    <2>1. CASE server'.reply = server.snapshot
      BY <2>1 DEF Newest
    <2>2. CASE inbox' = Append(inbox, m)
      BY <1>3, <2>2 DEF Newest, In
    <2> QED
      BY <2>1, <2>2
  <1>12. Reserved' # {}
    BY <1>5 DEF Promised, PromisesInv, AttachPromise, Someone, Reserved, Acquiring
  <1>13. attached' => server'.has \/ suspect'
    BY <1>5 DEF ServerInv, HeldInv
  <1> QED
    BY <1>7, <1>8, <1>9, <1>10, <1>11, <1>12, <1>13 DEF ServerInv, HeldInv

\* The server takes up an attach.
LEMMA ServerAttachesAttach == ASSUME IInv, AttachInv, ServerAttaches PROVE AttachInv'
  <1>0. TypeOK
    BY DEF IInv
  <1>1. PICK m : m = Message("error", "attach", NoSnapshot)
    OBVIOUS
  <1>2. /\ inflight["attach"] = "sent" /\ inflight' = [inflight EXCEPT !["attach"] = "handled"]
        /\ UNCHANGED <<link, lease, books, promises, state, jobs, torn, suspect>>
    BY DEF ServerAttaches
  <1>3. \/ server' = [server EXCEPT !.has = TRUE, !.reply = server.snapshot] /\ inbox' = inbox
        \/ \E effect \in BOOLEAN : server' = [server EXCEPT !.has = @ \/ effect] /\ inbox' = Append(inbox, m)
    BY <1>1 DEF ServerAttaches
  <1> SUFFICES ASSUME ~ torn PROVE PromisesInv' /\ JobsInv' /\ WireInv'
    BY <1>2 DEF AttachInv
  <1>4. PromisesInv /\ JobsInv /\ WireInv /\ LinkInv
    BY DEF AttachInv, WireInv
  <1>5. server \in [has : BOOLEAN, snapshot : Snapshots, reply : Snapshots]
    BY <1>0 DEF TypeOK
  <1>6. server'.snapshot = server.snapshot /\ (server.has => server'.has)
    BY <1>3, <1>5
  <1>7. \/ inbox' = inbox /\ server'.has /\ server'.reply = server.snapshot
        \/ inbox' = Append(inbox, m) /\ server'.reply = server.reply
    BY <1>3, <1>5
  <1>8. m \in Failures /\ m \in MessageType /\ m \in AnswersTo("attach") /\ m \notin Removals
    <2>1. m \in MessageType
      <3>1. NoSnapshot \in Snapshots
        BY DEF NoSnapshot, Snapshots
      <3> QED
        BY <1>1, <3>1, MessageIs DEF Requests
    <2>2. m.type = "error" /\ m.request = "attach"
      BY <1>1 DEF Message
    <2> QED
      BY <2>1, <2>2 DEF Failures, AnswersTo, Answers, Removals
  <1>9. /\ \A r \in Requests : inflight'[r] = "no" <=> inflight[r] = "no"
        /\ inflight'["attach"] = "handled" /\ "attach" \in Requests
    BY <1>0, <1>2 DEF TypeOK, Requests
  <1>10. /\ Promised("attach") /\ link = "connected" /\ server.reply = NoSnapshot /\ ~ In(Answers)
    BY <1>2, <1>4, <1>9, SentIs
  <1>11. PromisesInv' /\ JobsInv'
    BY <1>0, <1>2, <1>4, <1>9, ServerSettles
  <1>12. LinkInv'
    <2>1. CASE inbox' = inbox
      <3>1. \A T \in SUBSET Answers : ~ In(T)'
        BY <1>10, <2>1 DEF In
      <3>2. \A k \in Requests : ~ In(AnswersTo(k))'
        BY <3>1 DEF AnswersTo
      <3>3. ~ In(Answers)'
        BY <3>1
      <3>4. AtMostOne(inbox', Answers)
        BY <1>4, <2>1 DEF LinkInv
      <3> QED
        BY <1>2, <1>4, <1>6, <1>9, <1>10, <3>2, <3>3, <3>4 DEF LinkInv
    <2>2. CASE inbox' = Append(inbox, m) /\ server'.reply = server.reply
      BY <1>2, <1>4, <1>6, <1>8, <1>9, <2>2, AnswerSent
    <2> QED
      BY <1>7, <2>1, <2>2
  <1>13. ASSUME ~ Crossed' PROVE ServerInv'
    <2>1. ~ Crossed
      <3>1. CASE inbox' = inbox
        <4>1. <<>> \in Seq(MessageType)
          OBVIOUS
        <4> QED
          BY <1>0, <1>9, <1>13, <3>1, <4>1, CrossedStays
      <3>2. CASE inbox' = Append(inbox, m)
        BY <1>0, <1>8, <1>9, <1>13, <3>2, MessageSent
      <3> QED
        BY <1>7, <3>1, <3>2
    <2>2. ServerInv
      BY <1>4, <2>1 DEF WireInv
    <2>3. UNCHANGED <<lease, generation, attached, snapshot, suspect>>
      BY <1>2 DEF books, state
    <2> QED
      BY <1>2, <1>4, <1>6, <1>7, <1>8, <1>9, <1>10, <2>1, <2>2, <2>3, AttachHandled
  <1> QED
    BY <1>11, <1>12, <1>13 DEF WireInv

\* The server answers an attach.
LEMMA ServerAnswersAttach == ASSUME IInv, AttachInv, ServerAnswers PROVE AttachInv'
  <1>0. TypeOK
    BY DEF IInv
  <1>1. PICK e, a : e = Message("event", "attach", server.reply) /\ a = Message("ok", "attach", server.reply)
    OBVIOUS
  <1>2. /\ server.reply # NoSnapshot /\ inbox' = inbox \o <<e, a>> /\ server' = [server EXCEPT !.reply = NoSnapshot]
        /\ UNCHANGED <<link, lease, books, promises, state, jobs, inflight, torn, suspect>>
    BY <1>1 DEF ServerAnswers
  <1> SUFFICES ASSUME ~ torn PROVE PromisesInv' /\ JobsInv' /\ WireInv'
    BY <1>2 DEF AttachInv
  <1>3. PromisesInv /\ JobsInv /\ WireInv /\ LinkInv
    BY DEF AttachInv, WireInv
  <1>4. server'.has = server.has /\ server'.snapshot = server.snapshot /\ server'.reply = NoSnapshot /\ server.reply \in Snapshots
    BY <1>0, <1>2 DEF TypeOK
  <1>5. /\ e \in MessageType /\ a \in MessageType /\ e.type = "event" /\ a.type = "ok" /\ a.request = "attach"
        /\ e.snapshot = server.reply /\ a.snapshot = server.reply
    <2>1. e \in MessageType /\ a \in MessageType
      BY <1>1, <1>4, MessageIs DEF Requests
    <2> QED
      BY <1>1, <2>1 DEF Message
  <1>6. e \notin Answers /\ e \notin Finals /\ e \in Carriers /\ a \notin Finals /\ a \in Carriers
    BY <1>5 DEF Answers, AnswersTo, Finals, Removals, Carriers
  <1>7. PICK t : t = <<e, a>>
    OBVIOUS
  <1>8. t \in Seq(MessageType) /\ DOMAIN t = {1, 2} /\ t[1] = e /\ t[2] = a
    BY <1>5, <1>7
  <1>9. inbox \in Seq(MessageType) /\ inbox' = inbox \o t
    BY <1>0, <1>2, <1>7 DEF TypeOK, MessageType
  <1>10. Range(inbox') = Range(inbox) \cup {e, a}
    <2>1. Range(t) = {e, a}
      BY <1>8 DEF Range
    <2> QED
      BY <1>8, <1>9, <2>1, RangeConcat
  <1>11. inflight["attach"] = "handled" /\ ~ In(Answers) /\ link = "connected"
    BY <1>2, <1>3 DEF LinkInv
  <1>12. PromisesInv' /\ JobsInv'
    <2>1. Over => \E k \in Requests : inflight[k] # "no"
      BY <1>11 DEF Requests
    <2> QED
      BY <1>0, <1>2, <1>3, <1>4, <2>1, ServerSettles
  <1>13. LinkInv'
    <2>1. Range(inbox) \cap Answers = {}
      BY <1>11 DEF In
    <2>2. AtMostOne(t, Answers)
      BY <1>6, <1>8 DEF AtMostOne
    <2>3. AtMostOne(inbox', Answers)
      BY <1>8, <1>9, <2>1, <2>2, OnceConcat
    <2>4. ASSUME NEW k \in Requests, In(AnswersTo(k))' PROVE inflight'[k] = "handled"
      <3>1. PICK x \in Range(inbox') : x \in AnswersTo(k)
        BY <2>4 DEF In
      <3>2. x = a
        BY <1>6, <1>10, <2>1, <3>1 DEF AnswersTo
      <3> QED
        BY <1>2, <1>5, <1>11, <3>1, <3>2 DEF AnswersTo
    <2> QED
      BY <1>2, <1>3, <1>4, <1>11, <2>3, <2>4 DEF LinkInv
  <1>14. ASSUME ~ Crossed' PROVE ServerInv'
    <2>1. ~ Crossed
      BY <1>0, <1>2, <1>8, <1>9, <1>14, CrossedStays
    <2>2. ServerInv
      BY <1>3, <2>1 DEF WireInv
    <2>3. server.has /\ OfThis(server.reply) /\ ~ In(Finals)
      BY <1>2, <2>2 DEF ServerInv, ReplyInv, FinalsInv
    <2>4. \A y \in Range(inbox') : y \notin Finals
      BY <1>6, <1>10, <2>3 DEF In
    <2>5. FinalsInv' /\ ReplyInv'
      BY <1>4, <2>4, LastNone DEF FinalsInv, In, ReplyInv
    <2>6. CarriersInv'
      BY <1>4, <1>5, <1>10, <2>2, <2>3 DEF ServerInv, CarriersInv, OfThis
    <2>7. attached' = attached /\ snapshot' = snapshot /\ generation' = generation
      BY <1>2 DEF books, state
    <2>8. KnownInv'
      BY <1>2, <1>4, <2>2, <2>3, <2>7 DEF ServerInv, KnownInv, OfThis
    <2>9. Newest'
      <3>1. Newest
        BY <2>2, <2>3 DEF ServerInv, HeldInv
      <3>2. In(Failures) => In(Failures)'
        BY <1>10 DEF In
      <3>3. e \in Range(inbox') /\ Range(inbox) \subseteq Range(inbox')
        BY <1>10
      <3> QED
        BY <1>2, <1>4, <1>5, <1>6, <2>7, <3>1, <3>2, <3>3 DEF Newest
    <2>10. Reserved' = Reserved
      BY <1>2, <2>7 DEF Reserved
    <2>11. HeldInv'
      BY <1>2, <1>4, <2>2, <2>3, <2>9, <2>10 DEF ServerInv, HeldInv
    <2> QED
      BY <2>5, <2>6, <2>8, <2>11 DEF ServerInv
  <1> QED
    BY <1>12, <1>13, <1>14 DEF WireInv

-----------------------------------------------------------------------------
(* The attachment: the theorems *)

\* A client without a connection.
LEMMA InitAttach == Init => AttachInv
  <1> SUFFICES ASSUME Init PROVE AttachInv
    OBVIOUS
  <1>1. /\ link = "disconnected" /\ detachment = 0 /\ ~ attachment /\ ~ reconciliation
        /\ ~ attached /\ snapshot = NoSnapshot /\ jobs = <<>> /\ inbox = <<>>
        /\ ~ server.has /\ server.snapshot.epoch = 1 /\ server.reply = NoSnapshot
        /\ \A k \in Requests : inflight[k] = "no"
    BY DEF Init
  <1>2. Range(jobs) = {} /\ DOMAIN jobs = {} /\ Range(inbox) = {} /\ DOMAIN inbox = {}
    BY <1>1 DEF Range
  <1>3. PromisesInv
    BY <1>1, <1>2 DEF PromisesInv, OnePromise, DetachPromise, AttachPromise, ReconcilePromise, RequestPromise, JobPromise
  <1>4. JobsInv
    BY <1>2 DEF JobsInv, AtMostOne, LastOnly, OneBatch
  <1>5. LinkInv
    BY <1>1, <1>2 DEF LinkInv, Over, AtMostOne, In
  <1>6. ServerInv
    BY <1>1, <1>2 DEF ServerInv, ReplyInv, FinalsInv, CarriersInv, KnownInv, HeldInv, LastOnly, In, Requests
  <1> QED
    BY <1>3, <1>4, <1>5, <1>6 DEF AttachInv, WireInv

\* A step that changes nothing.
LEMMA StutterAttach == ASSUME IInv, AttachInv, UNCHANGED vars PROVE AttachInv'
  <1>1. UNCHANGED <<link, lease, books, promises, state, jobs, inflight, inbox, server, torn, suspect>>
    BY DEF vars
  <1> SUFFICES ASSUME ~ torn PROVE PromisesInv' /\ JobsInv' /\ WireInv'
    BY <1>1 DEF AttachInv
  <1>2. TypeOK /\ PromisesInv /\ JobsInv /\ WireInv
    BY DEF AttachInv, IInv
  <1>3. PromisesInv' /\ JobsInv'
    BY <1>1, <1>2, ServerSettles DEF Over
  <1>4. WireInv'
    <2>1. Asked /\ Recalled /\ attached' = attached /\ Reserved' = Reserved
      BY <1>1 DEF Asked, Recalled, Reserved, books, state
    <2> QED
      BY <1>1, <1>2, <2>1, ClientKeepsWire
  <1> QED
    BY <1>3, <1>4

\* Whatever the client and the server do, in whatever order the messages, the
\* continuations and the faults come, each knows of the other what AttachInv says.
THEOREM AttachCorrect == Spec => []AttachInv
  <1>1. IInv /\ AttachInv /\ [Next]_vars => AttachInv'
    <2> SUFFICES ASSUME IInv, AttachInv, [Next]_vars PROVE AttachInv'
      OBVIOUS
    <2>1. ASSUME NEW l \in Leases, NEW m \in {"shared", "exclusive"}, acquireSession(l, m) PROVE AttachInv'
      BY <2>1, AcquireAttach
    <2>2. ASSUME NEW l \in Leases, NEW hard \in BOOLEAN, release(l, hard) PROVE AttachInv'
      BY <2>2, ReleaseAttach
    <2>3. CASE RunJob
      BY <2>3, RunJobAttach
    <2>4. CASE Deliver
      BY <2>4, DeliverAttach
    <2>5. CASE connect \/ handshake
      BY <2>5, ConnectAttach
    <2>6. ASSUME NEW how \in {"disconnected", "disposed"}, disconnect(how) PROVE AttachInv'
      BY <2>6, DisconnectAttach
    <2>7. CASE Server
      <3>1. ASSUME NEW k \in Requests, ServerDetaches(k) PROVE AttachInv'
        BY <3>1, ServerDetachesAttach
      <3> QED
        BY <2>7, <3>1, ServerAttachesAttach, ServerAnswersAttach DEF Server
    <2>8. CASE ServerChanges \/ ServerRemoves
      BY <2>8, ServerChangesAttach, ServerRemovesAttach
    <2>9. CASE UNCHANGED vars
      BY <2>9, StutterAttach
    <2> QED
      BY <2>1, <2>2, <2>3, <2>4, <2>5, <2>6, <2>7, <2>8, <2>9 DEF Next
  <1> QED
    BY <1>1, InitAttach, InvCorrect, PTL DEF Spec

\* What a client in which nothing is in flight knows of the server.
LEMMA QuietKnows ==
    ASSUME IInv, AttachInv, ~ torn, Quiet
    PROVE  /\ ServerInv /\ ~ In(Finals)
           /\ server.has => suspect \/ (attached /\ snapshot = server.snapshot)
  <1>1. inbox = <<>> /\ \A k \in Requests : inflight[k] = "no"
    BY DEF Quiet
  <1>2. Range(inbox) = {} /\ DOMAIN inbox = {}
    BY <1>1 DEF Range
  <1>3. ServerInv /\ LinkInv
    BY <1>1 DEF AttachInv, WireInv, Crossed
  <1>4. \A T : ~ In(T)
    BY <1>2 DEF In
  <1>5. server.reply = NoSnapshot
    BY <1>1, <1>3 DEF LinkInv, Requests
  <1>6. server.snapshot # NoSnapshot
    BY <1>3 DEF LinkInv, NoSnapshot
  <1>7. server.has => suspect \/ (attached /\ snapshot = server.snapshot)
    BY <1>2, <1>3, <1>4, <1>5, <1>6 DEF ServerInv, HeldInv, Newest
  <1> QED
    BY <1>3, <1>4, <1>7

\* When nothing is in flight, PiClient holds the newest snapshot of a session
\* that the server counts as attached: #applySessionSnapshot's test of the
\* revision neither keeps an older snapshot nor the revisions of an earlier
\* opening, for any number of users, changes and lost connections.
THEOREM SnapshotCurrent == Spec => []SnapshotIsCurrent
  <1>1. IInv /\ AttachInv => SnapshotIsCurrent
    BY QuietKnows DEF SnapshotIsCurrent
  <1> QED
    BY <1>1, InvCorrect, AttachCorrect, PTL

\* When nothing is in flight, the server holds the session for PiClient while
\* it has leases: the last release detached it or asked for a clean-up, and no
\* lease that can be used is left without its attachment.
THEOREM AttachedLeased == Spec => []AttachedWhileLeased
  <1>1. ASSUME IInv, AttachInv PROVE AttachedWhileLeased
    <2> SUFFICES ASSUME ~ torn, Quiet
                 PROVE  /\ count = 0 => (server.has => suspect) /\ (attached => cleanup \/ suspect)
                        /\ (\E l \in Leases : Active(l)) => server.has \/ suspect
      BY DEF AttachedWhileLeased
    <2>1. attached => server.has \/ suspect
      BY <1>1, QuietKnows DEF ServerInv, HeldInv
    <2>2. server.has /\ ~ suspect => Reserved # {}
      BY <1>1, QuietKnows DEF ServerInv, HeldInv
    <2>3. count = Cardinality(Reserved)
      BY <1>1, IdleExact DEF Exact, Quiet, Idle
    <2>4. count = 0 => Reserved = {}
      BY <2>3, ReservedFinite, FS_EmptySet
    <2> QED
      BY <2>1, <2>2, <2>4 DEF Active
  <1> QED
    BY <1>1, InvCorrect, AttachCorrect, PTL
=============================================================================
