------------------------- MODULE BranchCacheProofs -------------------------
(***************************************************************************)
(* Proofs about BranchCache, for every number of lanes, entries, moves and *)
(* repairs: every entry is on a cached branch, a cached branch is the path *)
(* of its tip, fork() makes a whole session or none, and a scan of the     *)
(* cache gives what a walk along the parent links gives.                   *)
(***************************************************************************)
EXTENDS BranchCache, FiniteSetTheorems, SequenceTheorems, WellFoundedInduction, TLAPS

-----------------------------------------------------------------------------
(* Paths *)

\* Entries in the order they were appended: a parent comes before its children.
Entry == [parent : Nat, type : Types]
Tree(s) == s \in Seq(Entry) /\ \A i \in DOMAIN s : s[i].parent < i

\* The paths of all entries, as a function.
IsPaths(s, n, f) ==
    f = [i \in 0..n |-> IF i = 0 THEN {} ELSE f[s[i].parent] \cup {i}]

\* A least number in a set of numbers.
LEMMA Least == ASSUME NEW D, D \subseteq Nat, D # {} PROVE \E d \in D : \A e \in D : d <= e
  <1>1. PICK R : R = {p \in Nat \X Nat : p[1] < p[2]}
    OBVIOUS
  <1>2. IsWellFoundedOn(R, Nat)
    BY <1>1, NatLessThanWellFounded DEF OpToRel
  <1>3. PICK d \in D : \A e \in D : ~ (<<e, d>> \in R)
    BY <1>2, WFMin
  <1>4. d \in Nat /\ \A e \in D : e \in Nat /\ ~ (e < d)
    BY <1>1, <1>3
  <1> QED
    BY <1>4

\* A parent is an earlier entry, or none.
LEMMA ParentIs ==
    ASSUME NEW s, Tree(s)
    PROVE  /\ Len(s) \in Nat /\ DOMAIN s = 1..Len(s)
           /\ \A i \in 1..Len(s) : s[i].parent \in 0..(i - 1)
  <1>1. Len(s) \in Nat /\ DOMAIN s = 1..Len(s) /\ \A i \in 1..Len(s) : s[i] \in Entry
    BY DEF Tree
  <1>2. \A i \in 1..Len(s) : s[i].parent \in Nat
    BY <1>1 DEF Entry
  <1>3. \A i \in 1..Len(s) : s[i].parent < i
    BY <1>1 DEF Tree
  <1> QED
    BY <1>1, <1>2, <1>3

\* They exist.
LEMMA PathsExist == ASSUME NEW s, Tree(s), NEW n \in 0..Len(s) PROVE \E f : IsPaths(s, n, f)
  <1>1. PICK D : D = {k \in 0..Len(s) : ~ \E f : IsPaths(s, k, f)}
    OBVIOUS
  <1>2. Len(s) \in Nat /\ DOMAIN s = 1..Len(s)
    BY DEF Tree
  <1>3. SUFFICES ASSUME D # {} PROVE FALSE
    BY <1>1
  <1>4. PICK d \in D : \A e \in D : d <= e
    <2>1. D \subseteq Nat
      BY <1>1, <1>2
    <2> QED
      BY <1>3, <2>1, Least
  <1>5. d \in 0..Len(s) /\ ~ \E f : IsPaths(s, d, f)
    BY <1>1
  <1>6. CASE d = 0
    <2>1. PICK f : f = [i \in 0..0 |-> {}]
      OBVIOUS
    <2>2. f = [i \in 0..0 |-> IF i = 0 THEN {} ELSE f[s[i].parent] \cup {i}]
      <3>1. \A i \in 0..0 : i = 0
        OBVIOUS
      <3> QED
        BY <2>1, <3>1
    <2> QED
      BY <1>5, <1>6, <2>2 DEF IsPaths
  <1>7. CASE d # 0
    <2>1. d - 1 \in 0..Len(s) /\ d \in Nat /\ ~ (d <= d - 1)
      BY <1>2, <1>5, <1>7
    <2>2. PICK g : IsPaths(s, d - 1, g)
      BY <1>1, <1>4, <2>1
    <2>3. PICK f : f = [i \in 0..d |-> IF i = d THEN g[s[d].parent] \cup {d} ELSE g[i]]
      OBVIOUS
    <2>4. \A i \in 0..d : i # 0 => s[i].parent \in 0..(i - 1)
      <3>1. \A i \in 0..d : i # 0 => i \in 1..Len(s)
        BY <1>2, <1>5
      <3> QED
        BY <3>1, ParentIs
    <2>5. ASSUME NEW i \in 0..d PROVE f[i] = IF i = 0 THEN {} ELSE f[s[i].parent] \cup {i}
      <3>1. CASE i = d
        <4>1. s[d].parent \in 0..d /\ s[d].parent # d
          BY <1>7, <2>1, <2>4, <3>1
        <4> QED
          BY <1>7, <2>3, <3>1, <4>1
      <3>2. CASE i # d
        <4>1. i \in 0..(d - 1)
          BY <2>1, <3>2
        <4>2. f[i] = g[i] /\ g[i] = IF i = 0 THEN {} ELSE g[s[i].parent] \cup {i}
          BY <2>2, <2>3, <3>2, <4>1 DEF IsPaths
        <4>3. i # 0 => s[i].parent \in 0..d /\ s[i].parent # d
          BY <2>1, <2>4, <4>1
        <4>4. i # 0 => f[s[i].parent] = g[s[i].parent]
          BY <2>3, <4>3
        <4> QED
          BY <4>2, <4>4
      <3> QED
        BY <3>1, <3>2
    <2>6. IsPaths(s, d, f)
      <3>1. f = [i \in 0..d |-> f[i]]
        BY <2>3
      <3>2. [i \in 0..d |-> f[i]] = [i \in 0..d |-> IF i = 0 THEN {} ELSE f[s[i].parent] \cup {i}]
        BY <2>5
      <3> QED
        BY <3>1, <3>2 DEF IsPaths
    <2> QED
      BY <1>5, <2>6
  <1> QED
    BY <1>6, <1>7

\* The path of an entry, in a branch of given entries.
PathIn(s, e) ==
    LET P[i \in 0..Len(s)] == IF i = 0 THEN {} ELSE P[s[i].parent] \cup {i} IN P[e]
LEMMA PathInIs ==
    ASSUME NEW s, Tree(s)
    PROVE  /\ PathIn(s, 0) = {}
           /\ \A e \in 1..Len(s) : s[e].parent \in 0..(e - 1) /\ PathIn(s, e) = PathIn(s, s[e].parent) \cup {e}
  <1>1. Len(s) \in Nat /\ DOMAIN s = 1..Len(s)
    BY DEF Tree
  <1>2. PICK f : f = CHOOSE g : g = [i \in 0..Len(s) |-> IF i = 0 THEN {} ELSE g[s[i].parent] \cup {i}]
    OBVIOUS
  <1>3. f = [i \in 0..Len(s) |-> IF i = 0 THEN {} ELSE f[s[i].parent] \cup {i}]
    <2>1. \E g : g = [i \in 0..Len(s) |-> IF i = 0 THEN {} ELSE g[s[i].parent] \cup {i}]
      <3>1. Len(s) \in 0..Len(s)
        BY <1>1
      <3> QED
        BY <3>1, PathsExist DEF IsPaths
    <2> QED
      BY <1>2, <2>1
  <1>4. \A e : PathIn(s, e) = f[e]
    BY <1>2 DEF PathIn
  <1>5. \A e \in 1..Len(s) : s[e].parent \in 0..(e - 1) /\ s[e].parent \in 0..Len(s) /\ e \in 0..Len(s) /\ e # 0
    BY <1>1, ParentIs
  <1>6. 0 \in 0..Len(s)
    BY <1>1
  <1> QED
    BY <1>3, <1>4, <1>5, <1>6

-----------------------------------------------------------------------------
(* The inductive invariant *)

BranchType == [members : SUBSET Nat, tip : Nat]
LaneMaps == UNION {[D -> Nat] : D \in SUBSET Lanes}
Labels == {None, "query", "lanes", "tips", "lookup", "rows", "insert"}
CallType == [pc : Labels, start : Nat, branch : Nat, tree : BOOLEAN, ids : SUBSET Nat,
             lanes : LaneMaps, tips : SUBSET Nat, stale : BOOLEAN]
UsedType == [moves : Nat, repairs : Nat, branches : Nat]

TypeInv ==
    /\ exists \in BOOLEAN /\ Tree(entries) /\ leaf \in LaneMaps /\ used \in UsedType
    /\ branches \in [DOMAIN branches -> BranchType] /\ call \in CallType

\* Every lane is at an entry or before the first. A cached branch is the path
\* of its tip, every entry is on one, and the next branch id is not in use.
CacheInv ==
    /\ \A l \in DOMAIN leaf : leaf[l] <= Len(entries)
    /\ exists => "main" \in DOMAIN leaf
    /\ \A b \in DOMAIN branches :
          /\ b \in 1..used.branches /\ branches[b].tip \in 1..Len(entries)
          /\ branches[b].members = PathIn(entries, branches[b].tip)
    /\ exists => \A e \in 1..Len(entries) : \E b \in DOMAIN branches : e \in branches[b].members

\* What fork() has read so far: entries and lanes first, so that the tips read
\* last are those of branches that hold all of them.
OnPath(e) == \E t \in call.tips : e \in PathIn(entries, t)
CallInv == ~ call.stale =>
    /\ call.pc # None => exists
    /\ call.pc \in {"lanes", "tips"} => call.ids \subseteq 1..Len(entries)
    /\ call.pc \in {"tips", "insert"} => "main" \in DOMAIN call.lanes
    /\ call.pc = "tips" => \A l \in DOMAIN call.lanes : call.lanes[l] <= Len(entries)
    /\ call.pc \in {"lookup", "rows"} =>
          /\ call.start \in 1..Len(entries) /\ call.tips = {call.start}
          /\ call.lanes = [l \in {"main"} |-> call.start]
    /\ call.pc \in {"query", "rows"} => call.branch \in DOMAIN branches /\ call.start \in branches[call.branch].members
    /\ call.pc = "insert" =>
          /\ call.tips \subseteq 1..Len(entries)
          /\ \A l \in DOMAIN call.lanes : call.lanes[l] = 0 \/ OnPath(call.lanes[l])
          /\ \A e \in call.ids : OnPath(e)

IInv == TypeInv /\ CacheInv /\ CallInv /\ ForkIsWhole

-----------------------------------------------------------------------------
(* Lemmas about paths, lanes and branch ids *)

\* A path leads from an entry to the root; what it holds up to an entry on it is
\* that entry's path.
LEMMA PathShape ==
    ASSUME NEW s, Tree(s), NEW e \in 1..Len(s)
    PROVE  /\ PathIn(s, e) \subseteq 1..e /\ e \in PathIn(s, e)
           /\ \A x \in PathIn(s, e) : {y \in PathIn(s, e) : y <= x} = PathIn(s, x)
  <1> DEFINE P(d) == PathIn(s, d) \subseteq 1..d /\ \A x \in PathIn(s, d) : {y \in PathIn(s, d) : y <= x} = PathIn(s, x)
  <1>1. PICK D : D = {d \in 0..Len(s) : ~ P(d)}
    OBVIOUS
  <1>2. Len(s) \in Nat /\ D \subseteq Nat
    BY <1>1, ParentIs
  <1>3. D = {}
    <2>1. SUFFICES ASSUME D # {} PROVE FALSE
      OBVIOUS
    <2>2. PICK d \in D : \A c \in D : d <= c
      BY <1>2, <2>1, Least
    <2>3. d \in 0..Len(s) /\ ~ P(d)
      BY <1>1
    <2>4. CASE d = 0
      BY <2>3, <2>4, PathInIs
    <2>5. CASE d # 0
      <3>1. PICK p : p = s[d].parent
        OBVIOUS
      <3>2. d \in 1..Len(s) /\ p \in 0..(d - 1) /\ PathIn(s, d) = PathIn(s, p) \cup {d}
        BY <1>2, <2>3, <2>5, <3>1, PathInIs
      <3>3. p \in 0..Len(s) /\ ~ (d <= p) /\ p \in Nat /\ d \in Nat
        BY <1>2, <3>2
      <3>4. P(p)
        BY <1>1, <2>2, <3>3
      <3>5. PathIn(s, d) \subseteq 1..d /\ \A y \in PathIn(s, p) : y \in Nat /\ ~ (d <= y)
        BY <3>2, <3>4
      <3>6. ASSUME NEW x \in PathIn(s, d) PROVE {y \in PathIn(s, d) : y <= x} = PathIn(s, x)
        <4>1. CASE x = d
          BY <3>5, <4>1
        <4>2. CASE x # d
          <5>1. x \in PathIn(s, p)
            BY <3>2, <4>2
          <5>2. {y \in PathIn(s, d) : y <= x} = {y \in PathIn(s, p) : y <= x}
            BY <3>2, <3>5, <5>1
          <5> QED
            BY <3>4, <5>1, <5>2
        <4> QED
          BY <4>1, <4>2
      <3> QED
        BY <2>3, <3>5, <3>6
    <2> QED
      BY <2>4, <2>5
  <1>4. e \in 0..Len(s)
    BY <1>2
  <1>5. P(e)
    BY <1>1, <1>3, <1>4
  <1>6. e \in PathIn(s, e)
    BY PathInIs
  <1> QED
    BY <1>5, <1>6

\* More entries change no path.
LEMMA PathGrows ==
    ASSUME NEW s, NEW t, Tree(s), Tree(t), Len(s) <= Len(t), \A i \in 1..Len(s) : t[i] = s[i], NEW e \in 0..Len(s)
    PROVE  PathIn(t, e) = PathIn(s, e)
  <1>1. PICK D : D = {d \in 0..Len(s) : PathIn(t, d) # PathIn(s, d)}
    OBVIOUS
  <1>2. Len(s) \in Nat /\ Len(t) \in Nat /\ D \subseteq Nat
    BY <1>1, ParentIs
  <1>3. D = {}
    <2>1. SUFFICES ASSUME D # {} PROVE FALSE
      OBVIOUS
    <2>2. PICK d \in D : \A c \in D : d <= c
      BY <1>2, <2>1, Least
    <2>3. d \in 0..Len(s) /\ PathIn(t, d) # PathIn(s, d)
      BY <1>1
    <2>4. CASE d = 0
      BY <2>3, <2>4, PathInIs
    <2>5. CASE d # 0
      <3>1. PICK p : p = s[d].parent
        OBVIOUS
      <3>2. d \in 1..Len(s) /\ d \in 1..Len(t) /\ t[d] = s[d]
        BY <1>2, <2>3, <2>5
      <3>3. p \in 0..(d - 1) /\ PathIn(s, d) = PathIn(s, p) \cup {d} /\ PathIn(t, d) = PathIn(t, p) \cup {d}
        BY <3>1, <3>2, PathInIs
      <3>4. p \in 0..Len(s) /\ ~ (d <= p)
        BY <1>2, <3>2, <3>3
      <3>5. PathIn(t, p) = PathIn(s, p)
        BY <1>1, <2>2, <3>4
      <3> QED
        BY <2>3, <3>3, <3>5
    <2> QED
      BY <2>4, <2>5
  <1> QED
    BY <1>1, <1>3

\* The branch ids given out so far.
LEMMA MaxIs ==
    ASSUME NEW n \in Nat, NEW S \in SUBSET (0..n), S # {}
    PROVE  Max(S) \in S /\ \A x \in S : x <= Max(S)
  <1>1. PICK D : D = {n - x : x \in S}
    OBVIOUS
  <1>2. D \subseteq Nat /\ D # {}
    <2>1. \A x \in S : n - x \in Nat
      OBVIOUS
    <2> QED
      BY <1>1, <2>1
  <1>3. PICK d \in D : \A c \in D : d <= c
    BY <1>2, Least
  <1>4. PICK m \in S : d = n - m
    BY <1>1
  <1>5. \A x \in S : m >= x
    <2>1. \A x \in S : n - m <= n - x
      BY <1>1, <1>3, <1>4
    <2> QED
      BY <2>1
  <1>6. Max(S) \in S /\ \A x \in S : Max(S) >= x
    BY <1>4, <1>5 DEF Max
  <1>7. \A x \in S : x \in Nat
    OBVIOUS
  <1> QED
    BY <1>6, <1>7

\* Lanes, and no lanes.
LEMMA LaneMapIs ==
    /\ \A f \in LaneMaps : DOMAIN f \subseteq Lanes /\ f \in [DOMAIN f -> Nat]
    /\ \A D \in SUBSET Lanes : \A f \in [D -> Nat] : f \in LaneMaps
    /\ <<>> \in LaneMaps /\ DOMAIN <<>> = {}
  <1>1. \A f \in LaneMaps : DOMAIN f \subseteq Lanes /\ f \in [DOMAIN f -> Nat]
    BY DEF LaneMaps
  <1>2. \A D \in SUBSET Lanes : \A f \in [D -> Nat] : f \in LaneMaps
    BY DEF LaneMaps
  <1>3. <<>> \in [{} -> Nat] /\ DOMAIN <<>> = {}
    OBVIOUS
  <1> QED
    BY <1>1, <1>2, <1>3

-----------------------------------------------------------------------------
(* The writers *)

\* What a call has read stays true when entries are added and branches grow.
LEMMA CallKept ==
    ASSUME Tree(entries), Tree(entries'), Len(entries) <= Len(entries'),
           \A i \in 1..Len(entries) : entries'[i] = entries[i],
           CallInv, call \in CallType, exists' = exists, call' = call,
           \A b \in DOMAIN branches : b \in DOMAIN branches' /\ branches[b].members \subseteq branches'[b].members
    PROVE  CallInv'
  <1>1. Len(entries) \in Nat /\ Len(entries') \in Nat
    BY ParentIs
  <1>2. 1..Len(entries) \subseteq 1..Len(entries') /\ 1..Len(entries) \subseteq 0..Len(entries)
    BY <1>1
  <1>3. \A e \in 0..Len(entries) : PathIn(entries', e) = PathIn(entries, e)
    BY PathGrows
  <1>4. ASSUME ~ call.stale PROVE CallInv'
    <2>1. (call.pc # None => exists)'
      BY <1>4 DEF CallInv
    <2>2. (call.pc \in {"lanes", "tips"} => call.ids \subseteq 1..Len(entries))'
      BY <1>2, <1>4 DEF CallInv
    <2>3. (call.pc \in {"tips", "insert"} => "main" \in DOMAIN call.lanes)'
      BY <1>4 DEF CallInv
    <2>4. (call.pc \in {"lookup", "rows"} =>
              /\ call.start \in 1..Len(entries) /\ call.tips = {call.start}
              /\ call.lanes = [l \in {"main"} |-> call.start])'
      BY <1>2, <1>4 DEF CallInv
    <2>5. (call.pc \in {"query", "rows"} => call.branch \in DOMAIN branches /\ call.start \in branches[call.branch].members)'
      BY <1>4 DEF CallInv
    <2>6. ASSUME call.pc = "insert"
          PROVE  (/\ call.tips \subseteq 1..Len(entries)
                  /\ \A l \in DOMAIN call.lanes : call.lanes[l] = 0 \/ OnPath(call.lanes[l])
                  /\ \A e \in call.ids : OnPath(e))'
      <3>1. /\ call.tips \subseteq 1..Len(entries)
            /\ \A l \in DOMAIN call.lanes : call.lanes[l] = 0 \/ OnPath(call.lanes[l])
            /\ \A e \in call.ids : OnPath(e)
        BY <1>4, <2>6 DEF CallInv
      <3>2. ASSUME NEW e, OnPath(e) PROVE \E t \in call'.tips : e \in PathIn(entries', t)
        BY <1>2, <1>3, <3>1, <3>2 DEF OnPath
      <3>3. \A e : OnPath(e) => OnPath(e)'
        BY <3>2 DEF OnPath
      <3> QED
        BY <1>2, <3>1, <3>3
    <2>7. (call.pc = "tips" => \A l \in DOMAIN call.lanes : call.lanes[l] <= Len(entries))'
      <3>1. ASSUME call.pc = "tips", NEW l \in DOMAIN call.lanes PROVE call.lanes[l] <= Len(entries')
        <4>1. call.lanes \in [DOMAIN call.lanes -> Nat]
          BY LaneMapIs DEF CallType
        <4>2. call.lanes[l] \in Nat /\ call.lanes[l] <= Len(entries)
          BY <1>4, <3>1, <4>1 DEF CallInv
        <4> QED
          BY <1>1, <4>2
      <3> QED
        BY <3>1
    <2> QED
      BY <2>1, <2>2, <2>3, <2>4, <2>5, <2>6, <2>7 DEF CallInv
  <1> QED
    BY <1>4 DEF CallInv

\* The next branch id is the greatest in use, so far.
LEMMA NextId ==
    ASSUME NEW S \in SUBSET Nat, NEW m \in Nat, NEW n \in Nat, \A b \in S : b <= n, m <= n
    PROVE  Max({m} \cup S) \in Nat /\ \A b \in S : b <= Max({m} \cup S)
  <1>1. {m} \cup S \in SUBSET (0..n) /\ {m} \cup S # {}
    OBVIOUS
  <1> QED
    BY <1>1, MaxIs

\* An entry extends the branch that ends at its parent, or is the tip of a new
\* one that holds its path.
LEMMA AppendExtends ==
    ASSUME IInv, NEW l \in DOMAIN leaf, branches' \in appendEntryToBranchCache(Len(entries) + 1, leaf[l])
    PROVE  \E c :
              /\ branches' = [b \in DOMAIN branches' |-> branches'[b]]
              /\ DOMAIN branches' = DOMAIN branches \cup {c}
              /\ branches'[c] = Branch(PathIn(entries, leaf[l]) \cup {Len(entries) + 1}, Len(entries) + 1)
              /\ \A b \in DOMAIN branches : b # c => branches'[b] = branches[b]
              /\ \/ c = used.branches + 1
                 \/ c \in DOMAIN branches /\ branches[c].members = PathIn(entries, leaf[l])
  <1> DEFINE n == used.branches + 1
             e == Len(entries) + 1
  <1>1. /\ \A b \in DOMAIN branches : /\ b \in 1..used.branches /\ branches[b].tip \in 1..Len(entries)
                                      /\ branches[b].members = PathIn(entries, branches[b].tip)
        /\ used.branches \in Nat /\ Tree(entries)
        /\ branches = [b \in DOMAIN branches |-> branches[b]]
    BY DEF IInv, TypeInv, CacheInv, UsedType
  <1>2. n \notin DOMAIN branches
    BY <1>1
  <1>3. ASSUME NEW x, branches' = NewBranch(x)
        PROVE  /\ branches' = [b \in DOMAIN branches' |-> branches'[b]] /\ DOMAIN branches' = DOMAIN branches \cup {n}
               /\ branches'[n] = x /\ \A b \in DOMAIN branches : b # n => branches'[b] = branches[b]
    BY <1>2, <1>3 DEF NewBranch
  <1>4. CASE leaf[l] = 0
    <2>1. branches' = NewBranch(Branch({e}, e))
      BY <1>4 DEF appendEntryToBranchCache
    <2>2. PathIn(entries, leaf[l]) \cup {e} = {e}
      BY <1>1, <1>4, PathInIs
    <2> QED
      BY <1>3, <2>1, <2>2
  <1>5. CASE leaf[l] # 0 /\ WithTip(leaf[l]) # {}
    <2>1. PICK c \in WithTip(leaf[l]) : branches' = [branches EXCEPT ![c] = Branch(@.members \cup {e}, e)]
      BY <1>5 DEF appendEntryToBranchCache
    <2>2. c \in DOMAIN branches /\ branches[c].members = PathIn(entries, leaf[l])
      BY <1>1 DEF WithTip
    <2>3. branches' = [b \in DOMAIN branches |->
                          IF b = c THEN Branch(branches[c].members \cup {e}, e) ELSE branches[b]]
      BY <1>1, <2>1, <2>2
    <2>4. DOMAIN branches' = DOMAIN branches \cup {c} /\ branches' = [b \in DOMAIN branches' |-> branches'[b]]
      BY <2>2, <2>3
    <2>5. /\ branches'[c] = Branch(PathIn(entries, leaf[l]) \cup {e}, e)
          /\ \A b \in DOMAIN branches : b # c => branches'[b] = branches[b]
      BY <2>2, <2>3
    <2> QED
      BY <2>2, <2>4, <2>5
  <1>6. CASE leaf[l] # 0 /\ WithTip(leaf[l]) = {}
    <2>1. PICK b \in Containing(leaf[l]) : branches' = NewBranch(Branch(Through(b, leaf[l]) \cup {e}, e))
      BY <1>6 DEF appendEntryToBranchCache
    <2>2. Through(b, leaf[l]) = PathIn(entries, leaf[l])
      BY <1>1, PathShape DEF Containing, Through
    <2> QED
      BY <1>3, <2>1, <2>2
  <1> QED
    BY <1>4, <1>5, <1>6

\* appendEntry keeps the invariant.
LEMMA AppendInv ==
    ASSUME IInv, NEW l \in Lanes, NEW type \in Types, appendEntry(l, type)
    PROVE  IInv'
  <1> DEFINE n == Len(entries)
             e == Len(entries) + 1
  <1>1. PICK p : p = leaf[l]
    OBVIOUS
  <1>2. /\ exists /\ ~ dest.made /\ l \in DOMAIN leaf
        /\ entries' = Append(entries, [parent |-> p, type |-> type])
        /\ leaf' = [leaf EXCEPT ![l] = e]
        /\ branches' \in appendEntryToBranchCache(e, leaf[l])
        /\ used' = [used EXCEPT !.branches = Max({@} \cup DOMAIN branches')]
        /\ exists' = exists /\ call' = call /\ dest' = dest
    BY <1>1 DEF appendEntry, Open
  <1>3. /\ exists \in BOOLEAN /\ Tree(entries) /\ leaf \in LaneMaps /\ used \in UsedType
        /\ branches \in [DOMAIN branches -> BranchType] /\ call \in CallType /\ CallInv
    BY DEF IInv, TypeInv
  <1>4. /\ \A x \in DOMAIN leaf : leaf[x] \in Nat /\ leaf[x] <= n
        /\ DOMAIN leaf \subseteq Lanes /\ leaf \in [DOMAIN leaf -> Nat] /\ "main" \in DOMAIN leaf
        /\ n \in Nat /\ DOMAIN entries = 1..n
    BY <1>2, <1>3, ParentIs, LaneMapIs DEF IInv, CacheInv
  <1>5. p \in 0..n
    BY <1>1, <1>2, <1>4
  <1>6. Tree(entries') /\ Len(entries') = e /\ \A i \in 1..n : entries'[i] = entries[i]
    <2>1. [parent |-> p, type |-> type] \in Entry /\ entries \in Seq(Entry)
      BY <1>3, <1>5 DEF Entry, Tree
    <2>2. /\ entries' \in Seq(Entry) /\ Len(entries') = e /\ DOMAIN entries' = 1..e
          /\ \A i \in 1..n : entries'[i] = entries[i]
          /\ entries'[e] = [parent |-> p, type |-> type]
      BY <1>2, <1>4, <2>1
    <2>3. \A i \in 1..e : entries'[i].parent < i
      <3>1. \A i \in 1..n : entries[i].parent < i
        BY <1>3, <1>4 DEF Tree
      <3>2. \A i \in 1..e : i \in 1..n \/ i = e
        BY <1>4
      <3>3. entries'[e].parent < e
        BY <1>4, <1>5, <2>2
      <3> QED
        BY <2>2, <3>1, <3>2, <3>3
    <2> QED
      BY <2>2, <2>3 DEF Tree
  <1>7. entries'[e].parent = p
    BY <1>2, <1>3, <1>4 DEF Tree
  <1>8. PathIn(entries', e) = PathIn(entries, p) \cup {e} /\ \A d \in 0..n : PathIn(entries', d) = PathIn(entries, d)
    <2>1. n <= Len(entries') /\ e \in 1..Len(entries')
      BY <1>4, <1>6
    <2>2. \A d \in 0..n : PathIn(entries', d) = PathIn(entries, d)
      BY <1>3, <1>6, <2>1, PathGrows
    <2>3. PathIn(entries', e) = PathIn(entries', p) \cup {e}
      BY <1>6, <1>7, <2>1, PathInIs
    <2> QED
      BY <1>5, <2>2, <2>3
  <1>9. PICK c :
          /\ branches' = [b \in DOMAIN branches' |-> branches'[b]]
          /\ DOMAIN branches' = DOMAIN branches \cup {c}
          /\ branches'[c] = Branch(PathIn(entries, p) \cup {e}, e)
          /\ \A b \in DOMAIN branches : b # c => branches'[b] = branches[b]
          /\ \/ c = used.branches + 1
             \/ c \in DOMAIN branches /\ branches[c].members = PathIn(entries, p)
    BY <1>1, <1>2, AppendExtends
  <1>10. /\ \A b \in DOMAIN branches : /\ b \in 1..used.branches /\ branches[b].tip \in 1..n
                                       /\ branches[b].members = PathIn(entries, branches[b].tip)
         /\ \A x \in 1..n : \E b \in DOMAIN branches : x \in branches[b].members
         /\ used.branches \in Nat
    BY <1>2, <1>3 DEF IInv, CacheInv, UsedType
  <1>11. branches'[c].members = PathIn(entries', e) /\ branches'[c].tip = e
    BY <1>8, <1>9 DEF Branch
  <1>12. \A b \in DOMAIN branches : b \in DOMAIN branches' /\ branches[b].members \subseteq branches'[b].members
    BY <1>8, <1>9, <1>10, <1>11
  <1>13. used' \in UsedType /\ \A b \in DOMAIN branches' : b \in 1..used'.branches
    <2>1. \A b \in DOMAIN branches' : b \in 1..(used.branches + 1)
      BY <1>9, <1>10
    <2>2. used'.branches = Max({used.branches} \cup DOMAIN branches')
      BY <1>2, <1>3 DEF UsedType
    <2>3. DOMAIN branches' \in SUBSET Nat /\ used.branches + 1 \in Nat /\ used.branches <= used.branches + 1
          /\ \A b \in DOMAIN branches' : b <= used.branches + 1
      BY <1>10, <2>1
    <2>4. used'.branches \in Nat /\ \A b \in DOMAIN branches' : b <= used'.branches
      BY <1>10, <2>2, <2>3, NextId
    <2>5. used' \in UsedType
      BY <1>2, <1>3, <2>2, <2>4 DEF UsedType
    <2>6. \A b \in DOMAIN branches' : b \in Nat /\ 1 <= b
      BY <1>10, <2>1
    <2> QED
      BY <2>4, <2>5, <2>6
  <1>14. TypeInv'
    <2>1. leaf' \in LaneMaps
      <3>1. leaf' \in [DOMAIN leaf -> Nat] /\ DOMAIN leaf \in SUBSET Lanes
        BY <1>2, <1>4
      <3> QED
        BY <3>1, LaneMapIs
    <2>2. \A b \in DOMAIN branches' : branches'[b] \in BranchType
      <3>1. PathIn(entries', e) \in SUBSET Nat /\ e \in Nat
        BY <1>4, <1>6, PathShape
      <3>2. branches'[c] \in BranchType
        BY <1>8, <1>9, <3>1 DEF Branch, BranchType
      <3> QED
        BY <1>3, <1>9, <3>2
    <2>3. branches' \in [DOMAIN branches' -> BranchType]
      BY <1>9, <2>2
    <2> QED
      BY <1>2, <1>3, <1>6, <1>13, <2>1, <2>3 DEF TypeInv
  <1>15. CacheInv'
    <2>1. \A x \in DOMAIN leaf' : leaf'[x] <= Len(entries')
      BY <1>2, <1>4, <1>6
    <2>2. "main" \in DOMAIN leaf'
      BY <1>2, <1>4
    <2>3. ASSUME NEW b \in DOMAIN branches'
          PROVE  branches'[b].tip \in 1..Len(entries') /\ branches'[b].members = PathIn(entries', branches'[b].tip)
      <3>1. CASE b = c
        BY <1>4, <1>6, <1>11, <3>1
      <3>2. CASE b # c
        BY <1>4, <1>6, <1>8, <1>9, <1>10, <3>2
      <3> QED
        BY <3>1, <3>2
    <2>4. ASSUME NEW x \in 1..Len(entries') PROVE \E b \in DOMAIN branches' : x \in branches'[b].members
      <3>1. CASE x = e
        BY <1>8, <1>9, <1>11, <3>1
      <3>2. CASE x # e
        <4>1. x \in 1..n
          BY <1>4, <1>6, <3>2
        <4> QED
          BY <1>10, <1>12, <4>1
      <3> QED
        BY <3>1, <3>2
    <2> QED
      BY <1>13, <2>1, <2>2, <2>3, <2>4 DEF CacheInv
  <1>16. CallInv'
    <2>1. n <= Len(entries')
      BY <1>4, <1>6
    <2> QED
      BY <1>2, <1>3, <1>6, <1>12, <2>1, CallKept
  <1>17. ForkIsWhole'
    BY <1>2 DEF ForkIsWhole
  <1> QED
    BY <1>14, <1>15, <1>16, <1>17 DEF IInv

\* setLane keeps the invariant.
LEMMA SetLaneInv ==
    ASSUME IInv, NEW l \in Lanes, NEW to \in 0..MaxEntries, setLane(l, to)
    PROVE  IInv'
  <1>1. /\ exists /\ ~ dest.made /\ to \in Rows \cup {0}
        /\ used' = [used EXCEPT !.moves = @ + 1]
        /\ leaf' = [x \in DOMAIN leaf \cup {l} |-> IF x = l THEN to ELSE leaf[x]]
        /\ UNCHANGED <<exists, entries, branches, call, dest>>
    BY DEF setLane, Open
  <1>2. /\ exists \in BOOLEAN /\ Tree(entries) /\ leaf \in LaneMaps /\ used \in UsedType
        /\ branches \in [DOMAIN branches -> BranchType] /\ call \in CallType /\ CallInv
    BY DEF IInv, TypeInv
  <1>3. Len(entries) \in Nat /\ DOMAIN entries = 1..Len(entries) /\ to \in 0..Len(entries)
    BY <1>1, <1>2, ParentIs DEF Rows
  <1>4. DOMAIN leaf \subseteq Lanes /\ leaf \in [DOMAIN leaf -> Nat]
        /\ DOMAIN leaf' = DOMAIN leaf \cup {l} /\ \A x \in DOMAIN leaf' : leaf'[x] = IF x = l THEN to ELSE leaf[x]
    BY <1>1, <1>2, LaneMapIs
  <1>5. TypeInv'
    <2>1. leaf' \in [DOMAIN leaf' -> Nat] /\ DOMAIN leaf' \in SUBSET Lanes
      BY <1>1, <1>3, <1>4
    <2>2. leaf' \in LaneMaps
      BY <2>1, LaneMapIs
    <2>3. used' \in UsedType
      BY <1>1, <1>2 DEF UsedType
    <2> QED
      BY <1>1, <1>2, <2>2, <2>3 DEF TypeInv
  <1>6. CacheInv'
    <2>1. used'.branches = used.branches
      BY <1>1, <1>2 DEF UsedType
    <2>2. \A x \in DOMAIN leaf' : leaf'[x] <= Len(entries)
      BY <1>3, <1>4 DEF IInv, CacheInv
    <2> QED
      BY <1>1, <1>4, <2>1, <2>2 DEF IInv, CacheInv
  <1>7. CallInv'
    <2>1. Tree(entries') /\ Len(entries) <= Len(entries') /\ \A i \in 1..Len(entries) : entries'[i] = entries[i]
      BY <1>1, <1>2, <1>3
    <2> QED
      BY <1>1, <1>2, <2>1, CallKept
  <1>8. ForkIsWhole'
    BY <1>1 DEF ForkIsWhole
  <1> QED
    BY <1>5, <1>6, <1>7, <1>8 DEF IInv

\* A call under way is stale once the session was deleted or its cache repaired.
LEMMA CallStale ==
    ASSUME call \in CallType, call' = [call EXCEPT !.stale = call # NoCall]
    PROVE  call' \in CallType /\ CallInv'
  <1>1. call' \in CallType
    BY DEF CallType
  <1>2. CASE call # NoCall
    <2>1. call'.stale
      BY <1>2 DEF CallType
    <2> QED
      BY <1>1, <2>1 DEF CallInv
  <1>3. CASE call = NoCall
    <2>1. call'.pc = None
      BY <1>3 DEF NoCall, CallType
    <2>2. call'.pc \notin {"query", "lanes", "tips", "lookup", "rows", "insert"}
      BY <2>1 DEF None
    <2> QED
      BY <1>1, <2>1, <2>2 DEF CallInv
  <1> QED
    BY <1>2, <1>3

\* delete keeps the invariant.
LEMMA DeleteInv ==
    ASSUME IInv, delete
    PROVE  IInv'
  <1>1. /\ exists /\ ~ dest.made /\ exists' = FALSE
        /\ leaf' = <<>> /\ branches' = <<>>
        /\ call' = [call EXCEPT !.stale = call # NoCall]
        /\ UNCHANGED <<entries, dest, used>>
    BY DEF delete, Open
  <1>2. /\ Tree(entries) /\ used \in UsedType /\ call \in CallType
    BY DEF IInv, TypeInv
  <1>3. DOMAIN leaf' = {} /\ DOMAIN branches' = {} /\ leaf' \in LaneMaps
    BY <1>1, LaneMapIs
  <1>4. branches' \in [DOMAIN branches' -> BranchType]
    BY <1>1, <1>3
  <1>5. call' \in CallType /\ CallInv'
    BY <1>1, <1>2, CallStale
  <1>6. TypeInv'
    BY <1>1, <1>2, <1>3, <1>4, <1>5 DEF TypeInv
  <1>7. CacheInv'
    BY <1>1, <1>3 DEF CacheInv
  <1>8. ForkIsWhole'
    BY <1>1 DEF ForkIsWhole
  <1> QED
    BY <1>5, <1>6, <1>7, <1>8 DEF IInv

\* The elements of a finite set in some order, each of them.
LEMMA Listed ==
    ASSUME NEW n \in Nat, NEW T \in SUBSET (1..n)
    PROVE  /\ Cardinality(T) \in Nat /\ SetToSeq(T) \in [1..Cardinality(T) -> T]
           /\ \A t \in T : \E i \in 1..Cardinality(T) : SetToSeq(T)[i] = t
  <1>1. IsFiniteSet(T)
    <2>1. IsFiniteSet(1..n)
      BY FS_Interval
    <2> QED
      BY <2>1, FS_Subset
  <1>2. PICK k : k = Cardinality(T)
    OBVIOUS
  <1>3. k \in Nat /\ ExistsBijection(1..k, T) /\ IsFiniteSet(1..k) /\ Cardinality(1..k) = k
    <2>1. k \in Nat /\ ExistsBijection(1..k, T)
      BY <1>1, <1>2, FS_CardinalityType
    <2>2. IsFiniteSet(1..k) /\ Cardinality(1..k) = IF 1 > k THEN 0 ELSE k - 1 + 1
      BY <2>1, FS_Interval
    <2> QED
      BY <2>1, <2>2
  <1>4. PICK f : f = SetToSeq(T)
    OBVIOUS
  <1>5. f \in [1..k -> T] /\ IsInjective(f)
    <2>1. \E g \in [1..k -> T] : IsInjective(g)
      BY <1>3 DEF ExistsBijection, Bijection, Injection, IsInjective
    <2> QED
      BY <1>2, <1>4, <2>1 DEF SetToSeq
  <1>6. ASSUME NEW t \in T PROVE \E i \in 1..k : f[i] = t
    <2>1. SUFFICES ASSUME \A i \in 1..k : f[i] # t PROVE FALSE
      OBVIOUS
    <2>2. PICK U : U = T \ {t}
      OBVIOUS
    <2>3. IsFiniteSet(U) /\ Cardinality(U) = k - 1
      BY <1>1, <1>2, <2>2, FS_RemoveElement
    <2>4. f \in [1..k -> U] /\ Cardinality(U) < Cardinality(1..k)
      BY <1>3, <1>5, <2>1, <2>2, <2>3
    <2>5. \E x, y \in 1..k : x # y /\ f[x] = f[y]
      BY <1>3, <2>3, <2>4, FS_PigeonHole
    <2> QED
      BY <1>5, <2>5 DEF IsInjective
  <1> QED
    BY <1>2, <1>3, <1>4, <1>5, <1>6

\* Every entry is on the path of one that has no children.
LEMMA Covered ==
    ASSUME NEW s, Tree(s), NEW x \in 1..Len(s)
    PROVE  \E t \in 1..Len(s) : x \in PathIn(s, t) /\ \A i \in 1..Len(s) : s[i].parent # t
  <1>1. PICK D : D = {d \in 1..Len(s) : x \in PathIn(s, d)}
    OBVIOUS
  <1>2. Len(s) \in Nat
    BY ParentIs
  <1>3. D \in SUBSET (0..Len(s)) /\ x \in D
    BY <1>1, <1>2, PathShape
  <1>4. PICK m : m = Max(D)
    OBVIOUS
  <1>5. m \in D /\ \A d \in D : d <= m
    BY <1>2, <1>3, <1>4, MaxIs
  <1>6. ASSUME NEW i \in 1..Len(s), s[i].parent = m PROVE FALSE
    <2>1. m \in 0..(i - 1) /\ PathIn(s, i) = PathIn(s, m) \cup {i}
      BY <1>6, PathInIs
    <2>2. i \in D
      BY <1>1, <1>5, <2>1
    <2> QED
      BY <1>2, <1>5, <2>1, <2>2
  <1> QED
    BY <1>1, <1>5, <1>6

\* A rebuilt cache holds every entry, each branch the path of its tip.
LEMMA Rebuilt ==
    ASSUME Tree(entries), exists, used.branches \in Nat, NEW B, B = rebuildBranchCache
    PROVE  /\ B = [b \in DOMAIN B |-> B[b]]
           /\ \A b \in DOMAIN B :
                 /\ b \in 1..(used.branches + Len(entries))
                 /\ \E t \in 1..Len(entries) : B[b] = Branch(PathIn(entries, t), t)
           /\ \A e \in 1..Len(entries) : \E b \in DOMAIN B : e \in B[b].members
  <1>1. Len(entries) \in Nat /\ Rows = 1..Len(entries)
    BY ParentIs DEF Rows
  <1>2. PICK u, n : u = used.branches /\ n = Len(entries)
    OBVIOUS
  <1>3. PICK T : T = {e \in Rows : \A i \in Rows : entries[i].parent # e}
    OBVIOUS
  <1>4. PICK s, k : s = SetToSeq(T) /\ k = Cardinality(T)
    OBVIOUS
  <1>5. T \in SUBSET (1..n) /\ n \in Nat /\ IsFiniteSet(1..n) /\ Cardinality(1..n) = n
    <2>1. T \in SUBSET (1..n) /\ n \in Nat
      BY <1>1, <1>2, <1>3
    <2>2. IsFiniteSet(1..n) /\ Cardinality(1..n) = IF 1 > n THEN 0 ELSE n - 1 + 1
      BY <2>1, FS_Interval
    <2> QED
      BY <2>1, <2>2
  <1>6. k \in 0..n /\ s \in [1..k -> T] /\ \A t \in T : \E i \in 1..k : s[i] = t
    <2>1. k \in Nat /\ s \in [1..k -> T] /\ \A t \in T : \E i \in 1..k : s[i] = t
      BY <1>4, <1>5, Listed
    <2>2. k <= n
      BY <1>4, <1>5, FS_Subset
    <2> QED
      BY <1>5, <2>1, <2>2
  <1>7. B = [b \in {u + i : i \in 1..k} |-> Branch(PathIn(entries, s[b - u]), s[b - u])]
    <2>1. \A e : Path(e) = PathIn(entries, e)
      BY DEF Path, PathIn
    <2>2. rebuildBranchCache =
              LET S == {e \in Rows : \A i \in Rows : entries[i].parent # e}
                  f == SetToSeq(S)
              IN  [b \in {used.branches + i : i \in DOMAIN f} |->
                      LET tip == f[b - used.branches] IN Branch(PathIn(entries, tip), tip)]
      BY <2>1 DEF rebuildBranchCache
    <2>3. DOMAIN s = 1..k
      BY <1>6
    <2> QED
      BY <1>2, <1>3, <1>4, <2>2, <2>3
  <1>8. ASSUME NEW b \in DOMAIN B
        PROVE  b \in 1..(u + n) /\ \E t \in 1..n : B[b] = Branch(PathIn(entries, t), t)
    <2>1. PICK i \in 1..k : b = u + i
      BY <1>7
    <2>2. b \in 1..(u + n) /\ b - u = i
      BY <1>2, <1>5, <1>6, <2>1
    <2>3. B[b] = Branch(PathIn(entries, s[i]), s[i]) /\ s[i] \in 1..n
      BY <1>5, <1>6, <1>7, <2>2
    <2> QED
      BY <2>2, <2>3
  <1>9. ASSUME NEW e \in 1..n PROVE \E b \in DOMAIN B : e \in B[b].members
    <2>1. PICK t \in 1..n : e \in PathIn(entries, t) /\ \A i \in 1..n : entries[i].parent # t
      BY <1>2, Covered
    <2>2. t \in T
      BY <1>1, <1>2, <1>3, <2>1
    <2>3. PICK i \in 1..k : s[i] = t
      BY <1>6, <2>2
    <2>4. u + i \in DOMAIN B /\ (u + i) - u = i
      BY <1>2, <1>6, <1>7
    <2>5. B[u + i] = Branch(PathIn(entries, t), t)
      BY <1>7, <2>3, <2>4
    <2> QED
      BY <2>1, <2>4, <2>5 DEF Branch
  <1>10. B = [b \in DOMAIN B |-> B[b]]
    BY <1>7
  <1> QED
    BY <1>2, <1>8, <1>9, <1>10

\* repairBranchCache keeps the invariant.
LEMMA RepairInv ==
    ASSUME IInv, repairBranchCache
    PROVE  IInv'
  <1>1. /\ exists /\ ~ dest.made /\ branches' = rebuildBranchCache
        /\ used' = [used EXCEPT !.repairs = @ + 1, !.branches = Max({@} \cup DOMAIN branches')]
        /\ call' = [call EXCEPT !.stale = call # NoCall]
        /\ UNCHANGED <<exists, entries, leaf, dest>>
    BY DEF repairBranchCache, Open
  <1>2. /\ exists \in BOOLEAN /\ Tree(entries) /\ leaf \in LaneMaps /\ used \in UsedType /\ call \in CallType
        /\ used.branches \in Nat
    BY DEF IInv, TypeInv, UsedType
  <1>3. PICK B : B = branches'
    OBVIOUS
  <1>4. /\ B = [b \in DOMAIN B |-> B[b]]
        /\ \A b \in DOMAIN B :
              /\ b \in 1..(used.branches + Len(entries))
              /\ \E t \in 1..Len(entries) : B[b] = Branch(PathIn(entries, t), t)
        /\ \A e \in 1..Len(entries) : \E b \in DOMAIN B : e \in B[b].members
    BY <1>1, <1>2, <1>3, Rebuilt
  <1>5. Len(entries) \in Nat
    BY <1>2, ParentIs
  <1>6. used' \in UsedType /\ \A b \in DOMAIN branches' : b \in 1..used'.branches
    <2>1. used'.branches = Max({used.branches} \cup DOMAIN branches')
      BY <1>1, <1>2 DEF UsedType
    <2>2. \A b \in DOMAIN B : b \in Nat /\ 1 <= b /\ b <= used.branches + Len(entries)
      BY <1>2, <1>4, <1>5
    <2>3. Max({used.branches} \cup DOMAIN B) \in Nat /\ \A b \in DOMAIN B : b <= Max({used.branches} \cup DOMAIN B)
      <3>1. DOMAIN B \in SUBSET Nat /\ used.branches + Len(entries) \in Nat
            /\ used.branches <= used.branches + Len(entries)
        BY <1>2, <1>5, <2>2
      <3> QED
        BY <1>2, <2>2, <3>1, NextId
    <2>4. used' \in UsedType
      <3>1. PICK m : m = Max({used.branches} \cup DOMAIN B)
        OBVIOUS
      <3>2. used' = [moves |-> used.moves, repairs |-> used.repairs + 1, branches |-> m]
        BY <1>1, <1>2, <1>3, <3>1 DEF UsedType
      <3>3. used.moves \in Nat /\ used.repairs + 1 \in Nat /\ m \in Nat
        BY <1>2, <2>3, <3>1 DEF UsedType
      <3> QED
        BY <3>2, <3>3 DEF UsedType
    <2>5. \A b \in DOMAIN branches' : b \in Nat /\ 1 <= b /\ b <= used'.branches
      BY <1>3, <2>1, <2>2, <2>3
    <2>6. used'.branches \in Nat
      BY <1>3, <2>1, <2>3
    <2> QED
      BY <2>4, <2>5, <2>6
  <1>7. call' \in CallType /\ CallInv'
    BY <1>1, <1>2, CallStale
  <1>8. ASSUME NEW b \in DOMAIN B
        PROVE  /\ B[b] \in BranchType /\ B[b].tip \in 1..Len(entries)
               /\ B[b].members = PathIn(entries, B[b].tip)
    <2>1. PICK t \in 1..Len(entries) : B[b] = Branch(PathIn(entries, t), t)
      BY <1>4
    <2>2. PathIn(entries, t) \subseteq 1..t /\ t \in Nat
      BY <1>2, <1>5, PathShape
    <2>3. PathIn(entries, t) \in SUBSET Nat
      BY <2>2
    <2> QED
      BY <2>1, <2>2, <2>3 DEF Branch, BranchType
  <1>9. TypeInv'
    <2>1. branches' \in [DOMAIN branches' -> BranchType]
      BY <1>3, <1>4, <1>8
    <2> QED
      BY <1>1, <1>2, <1>6, <1>7, <2>1 DEF TypeInv
  <1>10. CacheInv'
    BY <1>1, <1>3, <1>4, <1>6, <1>8 DEF IInv, CacheInv
  <1>11. ForkIsWhole'
    BY <1>1 DEF ForkIsWhole
  <1> QED
    BY <1>7, <1>9, <1>10, <1>11 DEF IInv

-----------------------------------------------------------------------------
(* The readers *)

\* A step that only reads the source.
Reads == UNCHANGED <<exists, entries, leaf, branches, used>>

\* It leaves the cache as it was, and what was forked.
LEMMA ReadKeeps ==
    ASSUME IInv, Reads, call' \in CallType
    PROVE  TypeInv' /\ CacheInv' /\ (dest' = dest => ForkIsWhole')
  <1>1. TypeInv'
    BY DEF IInv, TypeInv, Reads
  <1>2. CacheInv'
    BY DEF IInv, CacheInv, Reads
  <1>3. ASSUME dest' = dest PROVE ForkIsWhole'
    <2>1. entries' = entries /\ ForkIsWhole
      BY DEF IInv, Reads
    <2>2. \A e : Path(e)' = Path(e)
      BY <2>1 DEF Path
    <2> QED
      BY <1>3, <2>1, <2>2 DEF ForkIsWhole
  <1> QED
    BY <1>1, <1>2, <1>3

\* The record of no call.
LEMMA NoCallIs == NoCall \in CallType /\ NoCall.pc = None /\ NoCall.ids = {}
  BY LaneMapIs DEF NoCall, CallType, Labels

\* There is no call.
LEMMA CallEnds == ASSUME call' = NoCall PROVE call' \in CallType /\ CallInv'
  <1>1. NoCall \in CallType /\ NoCall.pc = None
    BY NoCallIs
  <1>2. None \notin {"query", "lanes", "tips", "lookup", "rows", "insert"}
    BY DEF None
  <1> QED
    BY <1>1, <1>2 DEF CallInv

\* What the calls read holds in every state the invariant allows.
LEMMA SourceIs ==
    ASSUME IInv
    PROVE  /\ Tree(entries) /\ Len(entries) \in Nat /\ DOMAIN entries = 1..Len(entries) /\ call \in CallType
           /\ DOMAIN leaf \subseteq Lanes /\ leaf \in LaneMaps
           /\ \A l \in DOMAIN leaf : leaf[l] \in Nat /\ leaf[l] <= Len(entries)
           /\ Rows \subseteq 1..Len(entries) /\ (exists => Rows = 1..Len(entries))
           /\ exists => "main" \in DOMAIN leaf
           /\ \A b \in DOMAIN branches :
                 /\ b \in Nat /\ branches[b].tip \in 1..Len(entries)
                 /\ branches[b].members = PathIn(entries, branches[b].tip)
           /\ exists => \A e \in 1..Len(entries) : \E b \in DOMAIN branches : e \in branches[b].members
           /\ \A b \in DOMAIN branches : \A e : Through(b, e) \in SUBSET (1..Len(entries))
  <1>1. Tree(entries) /\ leaf \in LaneMaps /\ call \in CallType
    BY DEF IInv, TypeInv
  <1>2. Len(entries) \in Nat /\ DOMAIN entries = 1..Len(entries)
    BY <1>1, ParentIs
  <1>3. DOMAIN leaf \subseteq Lanes /\ \A l \in DOMAIN leaf : leaf[l] \in Nat
    BY <1>1, LaneMapIs
  <1>4. \A b \in DOMAIN branches :
           /\ b \in 1..used.branches /\ branches[b].tip \in 1..Len(entries)
           /\ branches[b].members = PathIn(entries, branches[b].tip)
    BY DEF IInv, CacheInv
  <1>5. used.branches \in Nat
    BY DEF IInv, TypeInv, UsedType
  <1>6. ASSUME NEW b \in DOMAIN branches, NEW e PROVE b \in Nat /\ Through(b, e) \in SUBSET (1..Len(entries))
    <2>1. b \in Nat
      BY <1>4, <1>5
    <2>2. branches[b].tip \in 1..Len(entries) /\ branches[b].members \subseteq 1..branches[b].tip
      BY <1>1, <1>4, PathShape
    <2> QED
      BY <1>2, <2>1, <2>2 DEF Through
  <1>7. Rows \subseteq 1..Len(entries) /\ (exists => Rows = 1..Len(entries))
    BY <1>2 DEF Rows
  <1> QED
    BY <1>1, <1>2, <1>3, <1>4, <1>6, <1>7 DEF IInv, CacheInv

\* readCachedBranch and findEntriesOnBranch only read.
LEMMA FindInv ==
    ASSUME IInv, (\E e \in Rows : readCachedBranch(e)) \/ findEntriesOnBranch
    PROVE  IInv'
  <1>1. Reads /\ dest' = dest
    BY DEF readCachedBranch, findEntriesOnBranch, Reads
  <1>2. call' \in CallType /\ CallInv'
    <2>1. CASE findEntriesOnBranch
      BY <2>1, CallEnds DEF findEntriesOnBranch
    <2>2. CASE \E e \in Rows : readCachedBranch(e)
      <3>1. PICK e \in Rows : readCachedBranch(e)
        BY <2>2
      <3>2. PICK b \in Containing(e) : call' = [NoCall EXCEPT !.pc = "query", !.start = e, !.branch = b]
        BY <3>1 DEF readCachedBranch
      <3>3. e \in Nat /\ b \in Nat
        BY SourceIs DEF Containing
      <3>4. call' \in CallType /\ call'.pc = "query" /\ call'.start = e /\ call'.branch = b
        BY <3>2, <3>3, NoCallIs DEF CallType, Labels
      <3>5. exists'
        <4>1. exists /\ exists' = exists
          BY <1>1, <3>1 DEF readCachedBranch, Open, Reads
        <4> QED
          BY <4>1
      <3>6. call'.branch \in DOMAIN branches' /\ call'.start \in branches'[call'.branch].members
        BY <1>1, <3>4 DEF Containing, Reads
      <3> QED
        BY <3>4, <3>5, <3>6 DEF CallInv
    <2> QED
      BY <2>1, <2>2
  <1> QED
    BY <1>1, <1>2, ReadKeeps DEF IInv

\* forkTree, readLanes and readTips: what is read first is on the paths of the
\* tips that are read last.
LEMMA TreeInv ==
    ASSUME IInv, forkTree \/ readLanes \/ readTips
    PROVE  IInv'
  <1>1. Reads /\ dest' = dest
    BY DEF forkTree, readLanes, readTips, Step, Reads
  <1>2. /\ exists' = exists /\ entries' = entries /\ leaf' = leaf /\ branches' = branches
        /\ \A e \in 1..Len(entries) : e \in Nat
        /\ call \in CallType
    BY <1>1, SourceIs DEF Reads
  <1>3. CASE forkTree
    <2>1. exists /\ call' = [NoCall EXCEPT !.pc = "lanes", !.tree = TRUE, !.ids = Rows]
      BY <1>3 DEF forkTree, Open
    <2>2. Rows = 1..Len(entries) /\ Rows \in SUBSET Nat
      BY <1>2, <2>1, SourceIs
    <2>3. call' \in CallType /\ call'.pc = "lanes" /\ call'.ids = 1..Len(entries)
      BY <2>1, <2>2, NoCallIs DEF CallType, Labels
    <2>4. CallInv'
      BY <1>2, <2>1, <2>3 DEF CallInv
    <2> QED
      BY <1>1, <2>3, <2>4, ReadKeeps DEF IInv
  <1>4. CASE readLanes
    <2>1. call.pc = "lanes" /\ call' = [call EXCEPT !.pc = "tips", !.lanes = leaf]
      BY <1>4 DEF readLanes, Step
    <2>2. call' \in CallType /\ call'.pc = "tips" /\ call'.ids = call.ids /\ call'.lanes = leaf /\ call'.stale = call.stale
      BY <1>2, <2>1, SourceIs DEF CallType, Labels
    <2>3. ~ call.stale => exists /\ call.ids \subseteq 1..Len(entries)
      BY <2>1 DEF IInv, CallInv, None
    <2>4. CallInv'
      BY <1>2, <2>2, <2>3, SourceIs DEF CallInv
    <2> QED
      BY <1>1, <2>2, <2>4, ReadKeeps DEF IInv
  <1>5. CASE readTips
    <2>1. call.pc = "tips" /\ call' = [call EXCEPT !.pc = "insert", !.tips = readBranchTipIds]
      BY <1>5 DEF readTips, Step
    <2>2. readBranchTipIds \subseteq 1..Len(entries) /\ readBranchTipIds \in SUBSET Nat
      BY <1>2, SourceIs DEF readBranchTipIds
    <2>3. /\ call' \in CallType /\ call'.pc = "insert" /\ call'.ids = call.ids /\ call'.lanes = call.lanes
          /\ call'.stale = call.stale /\ call'.tips = readBranchTipIds
      BY <1>2, <2>1, <2>2 DEF CallType, Labels
    <2>4. ~ call.stale => /\ exists /\ call.ids \subseteq 1..Len(entries) /\ "main" \in DOMAIN call.lanes
                          /\ \A l \in DOMAIN call.lanes : call.lanes[l] <= Len(entries)
      BY <2>1 DEF IInv, CallInv, None
    <2>5. ASSUME ~ call.stale, NEW e \in 1..Len(entries) PROVE OnPath(e)'
      <3>1. PICK b \in DOMAIN branches : e \in PathIn(entries, branches[b].tip)
        BY <2>4, <2>5, SourceIs
      <3>2. branches[b].tip \in call'.tips /\ e \in PathIn(entries', branches[b].tip)
        BY <1>2, <2>3, <3>1 DEF readBranchTipIds
      <3> QED
        BY <3>2 DEF OnPath
    <2>6. ASSUME ~ call.stale, NEW l \in DOMAIN call.lanes PROVE (call.lanes[l] = 0 \/ OnPath(call.lanes[l]))'
      <3>1. call.lanes[l] \in Nat /\ call.lanes[l] <= Len(entries)
        <4>1. call.lanes \in LaneMaps
          BY <1>2 DEF CallType
        <4> QED
          BY <2>4, <2>6, <4>1, LaneMapIs
      <3>2. call.lanes[l] = 0 \/ call.lanes[l] \in 1..Len(entries)
        BY <3>1, SourceIs
      <3>3. PICK x : x = call.lanes[l]
        OBVIOUS
      <3>4. x = 0 \/ OnPath(x)'
        BY <2>5, <2>6, <3>2, <3>3
      <3> QED
        BY <2>3, <3>3, <3>4 DEF OnPath
    <2>7. CallInv'
      <3>1. CASE call.stale
        BY <2>3, <3>1 DEF CallInv
      <3>2. CASE ~ call.stale
        <4>1. (/\ call.tips \subseteq 1..Len(entries)
               /\ \A l \in DOMAIN call.lanes : call.lanes[l] = 0 \/ OnPath(call.lanes[l])
               /\ \A e \in call.ids : OnPath(e))'
          BY <1>2, <2>2, <2>3, <2>4, <2>5, <2>6, <3>2
        <4> QED
          BY <1>2, <2>3, <2>4, <3>2, <4>1 DEF CallInv
      <3> QED
        BY <3>1, <3>2
    <2> QED
      BY <1>1, <2>3, <2>7, ReadKeeps DEF IInv
  <1> QED
    BY <1>3, <1>4, <1>5

\* forkBranch, lookUpBranch and readBranchRows: the rows read are the path of the
\* target.
LEMMA BranchInv ==
    ASSUME IInv,
           \/ \E e \in 0..MaxEntries, before \in BOOLEAN : forkBranch(e, before)
           \/ lookUpBranch \/ readBranchRows
    PROVE  IInv'
  <1>1. Reads /\ dest' = dest
    BY DEF forkBranch, lookUpBranch, readBranchRows, Step, Throws, Reads
  <1>2. /\ exists' = exists /\ entries' = entries /\ leaf' = leaf /\ branches' = branches
        /\ \A e \in 1..Len(entries) : e \in Nat
        /\ call \in CallType /\ Tree(entries) /\ Len(entries) \in Nat
    BY <1>1, SourceIs DEF Reads
  <1>3. CASE \E e \in 0..MaxEntries, before \in BOOLEAN : forkBranch(e, before)
    <2>1. PICK e \in 0..MaxEntries, before \in BOOLEAN : forkBranch(e, before)
      BY <1>3
    <2>2. PICK target : target = IF before THEN entries[e].parent ELSE e
      OBVIOUS
    <2>3. /\ exists /\ e \in {leaf["main"]} \cup Rows /\ (before => e # 0)
          /\ call' = [NoCall EXCEPT !.pc = IF target = 0 THEN "insert" ELSE "lookup",
                                    !.start = target, !.lanes = [l \in {"main"} |-> target],
                                    !.tips = {target} \ {0}]
      BY <2>1, <2>2 DEF forkBranch, Open
    <2>4. e \in 0..Len(entries)
      <3>1. leaf["main"] \in Nat /\ leaf["main"] <= Len(entries) /\ Rows = 1..Len(entries)
        BY <2>3, SourceIs
      <3> QED
        BY <1>2, <2>3, <3>1
    <2>5. target \in 0..Len(entries)
      <3>1. CASE before
        <4>1. e \in 1..Len(entries)
          BY <1>2, <2>3, <2>4, <3>1
        <4>2. target \in 0..(e - 1)
          BY <1>2, <2>2, <3>1, <4>1, ParentIs
        <4> QED
          BY <1>2, <4>1, <4>2
      <3>2. CASE ~ before
        BY <2>2, <2>4, <3>2
      <3> QED
        BY <3>1, <3>2
    <2>6. [l \in {"main"} |-> target] \in LaneMaps /\ {target} \ {0} \in SUBSET Nat /\ target \in Nat
      <3>1. {"main"} \in SUBSET Lanes /\ target \in Nat
        BY <1>2, <2>5, BoundsAssumption
      <3>2. [l \in {"main"} |-> target] \in [{"main"} -> Nat]
        BY <3>1
      <3> QED
        BY <3>1, <3>2, LaneMapIs
    <2>7. /\ call' \in CallType /\ call'.pc = IF target = 0 THEN "insert" ELSE "lookup"
          /\ call'.start = target /\ call'.lanes = [l \in {"main"} |-> target]
          /\ call'.tips = {target} \ {0} /\ call'.ids = {}
      BY <2>3, <2>6, NoCallIs DEF CallType, Labels
    <2>8. CallInv'
      <3>1. CASE target = 0
        <4>1. (/\ call.tips \subseteq 1..Len(entries)
               /\ \A l \in DOMAIN call.lanes : call.lanes[l] = 0 \/ OnPath(call.lanes[l])
               /\ \A x \in call.ids : OnPath(x))'
          BY <2>7, <3>1
        <4> QED
          BY <1>2, <2>3, <2>7, <3>1, <4>1 DEF CallInv
      <3>2. CASE target # 0
        <4>1. target \in 1..Len(entries) /\ call'.tips = {target} /\ call'.pc = "lookup"
          BY <1>2, <2>5, <2>7, <3>2
        <4> QED
          BY <1>2, <2>3, <2>7, <4>1 DEF CallInv
      <3> QED
        BY <3>1, <3>2
    <2> QED
      BY <1>1, <2>7, <2>8, ReadKeeps DEF IInv
  <1>4. CASE lookUpBranch
    <2>1. CASE call' = NoCall
      BY <1>1, <2>1, CallEnds, ReadKeeps DEF IInv
    <2>2. CASE \E b \in Containing(call.start) : call' = [call EXCEPT !.pc = "rows", !.branch = b]
      <3>1. PICK b \in Containing(call.start) : call' = [call EXCEPT !.pc = "rows", !.branch = b]
        BY <2>2
      <3>2. b \in DOMAIN branches /\ call.start \in branches[b].members /\ b \in Nat
        BY SourceIs DEF Containing
      <3>3. /\ call' \in CallType /\ call'.pc = "rows" /\ call'.start = call.start /\ call'.branch = b
            /\ call'.tips = call.tips /\ call'.lanes = call.lanes /\ call'.stale = call.stale
        BY <1>2, <3>1, <3>2 DEF CallType, Labels
      <3>4. ~ call.stale =>
              /\ exists /\ call.start \in 1..Len(entries) /\ call.tips = {call.start}
              /\ call.lanes = [l \in {"main"} |-> call.start]
        BY <1>4 DEF lookUpBranch, Step, IInv, CallInv, None
      <3>5. CallInv'
        BY <1>2, <3>2, <3>3, <3>4 DEF CallInv
      <3> QED
        BY <1>1, <3>3, <3>5, ReadKeeps DEF IInv
    <2> QED
      BY <1>4, <2>1, <2>2 DEF lookUpBranch, Throws
  <1>5. CASE readBranchRows
    <2>1. PICK ids : ids = IF call.branch \in DOMAIN branches THEN Through(call.branch, call.start) ELSE {}
      OBVIOUS
    <2>2. call.pc = "rows" /\ call' = [call EXCEPT !.pc = "insert", !.ids = ids]
      BY <1>5, <2>1 DEF readBranchRows, Step
    <2>3. ids \in SUBSET Nat
      BY <1>2, <2>1, SourceIs
    <2>4. /\ call' \in CallType /\ call'.pc = "insert" /\ call'.ids = ids
          /\ call'.tips = call.tips /\ call'.lanes = call.lanes /\ call'.stale = call.stale
      BY <1>2, <2>2, <2>3 DEF CallType, Labels
    <2>5. CASE call.stale
      <3>1. CallInv'
        BY <2>4, <2>5 DEF CallInv
      <3> QED
        BY <1>1, <2>4, <3>1, ReadKeeps DEF IInv
    <2>6. CASE ~ call.stale
      <3>1. /\ exists /\ call.start \in 1..Len(entries) /\ call.tips = {call.start}
            /\ call.lanes = [l \in {"main"} |-> call.start]
            /\ call.branch \in DOMAIN branches /\ call.start \in branches[call.branch].members
        BY <2>2, <2>6 DEF IInv, CallInv, None
      <3>2. ids = PathIn(entries, call.start)
        <4>1. branches[call.branch].tip \in 1..Len(entries)
              /\ branches[call.branch].members = PathIn(entries, branches[call.branch].tip)
          BY <3>1, SourceIs
        <4> QED
          BY <1>2, <2>1, <3>1, <4>1, PathShape DEF Through
      <3>3. PICK x : x = call.start
        OBVIOUS
      <3>4. x \in PathIn(entries, x)
        BY <1>2, <3>1, <3>3, PathShape
      <3>5. \A y \in PathIn(entries, x) : OnPath(y)'
        BY <1>2, <2>4, <3>1, <3>3 DEF OnPath
      <3>6. OnPath(x)' /\ call'.lanes = [l \in {"main"} |-> x] /\ call'.tips = {x} /\ x \in 1..Len(entries)
        BY <2>4, <3>1, <3>3, <3>4, <3>5
      <3>7. (\A l \in DOMAIN call.lanes : call.lanes[l] = 0 \/ OnPath(call.lanes[l]))'
        BY <3>6 DEF OnPath
      <3>8. (\A y \in call.ids : OnPath(y))'
        BY <2>4, <3>2, <3>3, <3>5
      <3>9. CallInv'
        BY <1>2, <2>4, <3>1, <3>6, <3>7, <3>8 DEF CallInv
      <3> QED
        BY <1>1, <2>4, <3>9, ReadKeeps DEF IInv
    <2> QED
      BY <2>5, <2>6
  <1> QED
    BY <1>3, <1>4, <1>5

\* insertFork makes a whole session, or none.
LEMMA InsertInv ==
    ASSUME IInv, insertFork
    PROVE  IInv'
  <1>1. Reads /\ call.pc = "insert" /\ call' = NoCall
    BY DEF insertFork, Step, Throws, Reads
  <1>2. TypeInv' /\ CacheInv' /\ CallInv' /\ (dest' = dest => ForkIsWhole')
    BY <1>1, CallEnds, ReadKeeps
  <1>3. entries' = entries /\ Tree(entries) /\ \A e : Path(e) = PathIn(entries, e) /\ Path(e)' = PathIn(entries, e)
    BY <1>1, SourceIs DEF Reads, Path, PathIn
  <1>4. ASSUME dest' # dest PROVE ForkIsWhole'
    <2>1. /\ \A t \in call.tips : Path(t) \subseteq call.ids
          /\ dest' = [ids |-> call.ids, lanes |-> call.lanes,
                      paths |-> {Path(t) : t \in call.tips}, made |-> TRUE,
                      stale |-> call.stale]
      BY <1>4 DEF insertFork, Throws
    <2>2. PICK tips, ids, lanes : tips = call.tips /\ ids = call.ids /\ lanes = call.lanes
      OBVIOUS
    <2>3. dest'.ids = ids /\ dest'.lanes = lanes /\ dest'.paths = {PathIn(entries, t) : t \in tips}
          /\ dest'.stale = call.stale /\ \A t \in tips : PathIn(entries, t) \subseteq ids
      BY <1>3, <2>1, <2>2
    <2>4. SUFFICES ASSUME ~ call.stale PROVE ForkIsWhole'
      BY <2>3 DEF ForkIsWhole
    <2>5. "main" \in DOMAIN lanes /\ tips \subseteq 1..Len(entries)
          /\ (\A l \in DOMAIN lanes : lanes[l] = 0 \/ \E t \in tips : lanes[l] \in PathIn(entries, t))
          /\ \A e \in ids : \E t \in tips : e \in PathIn(entries, t)
      BY <1>1, <2>2, <2>4 DEF IInv, CallInv, OnPath
    <2>6. \A l \in DOMAIN lanes : lanes[l] \in ids \cup {0}
      BY <2>3, <2>5
    <2>7. ASSUME NEW e \in ids
          PROVE  /\ entries[e].parent \in ids \cup {0} /\ \E p \in dest'.paths : e \in p
                 /\ e \in 1..Len(entries)
      <3>1. PICK t \in tips : e \in PathIn(entries, t)
        BY <2>5
      <3>2. /\ PathIn(entries, t) \subseteq 1..t /\ t \in 1..Len(entries)
            /\ {y \in PathIn(entries, t) : y <= e} = PathIn(entries, e)
        BY <1>3, <2>5, <3>1, PathShape
      <3>3. e \in 1..Len(entries)
        BY <1>3, <3>1, <3>2, ParentIs
      <3>4. PICK q : q = entries[e].parent
        OBVIOUS
      <3>5. q \in 0..(e - 1) /\ PathIn(entries, e) = PathIn(entries, q) \cup {e}
        BY <1>3, <3>3, <3>4, PathInIs
      <3>6. q # 0 => q \in PathIn(entries, q)
        <4>1. q # 0 => q \in 1..Len(entries)
          BY <1>3, <3>3, <3>5, ParentIs
        <4> QED
          BY <1>3, <4>1, PathShape
      <3>7. q # 0 => q \in PathIn(entries, t)
        BY <3>2, <3>5, <3>6
      <3>8. q \in ids \cup {0}
        BY <2>3, <3>7
      <3> QED
        BY <2>3, <3>1, <3>3, <3>4, <3>8
    <2>8. ASSUME NEW p \in dest'.paths, NEW e \in ids, e \in p PROVE {x \in p : x <= e} = PathIn(entries, e)
      BY <1>3, <2>3, <2>5, <2>8, PathShape
    <2> QED
      BY <1>3, <2>3, <2>5, <2>6, <2>7, <2>8 DEF ForkIsWhole
  <1> QED
    BY <1>2, <1>4 DEF IInv

-----------------------------------------------------------------------------
(* Sequences of entries *)

\* Entries in ascending and in descending order.
Ups(s) == s \in Seq(Nat) /\ \A i, j \in 1..Len(s) : i < j => s[i] < s[j]
Downs(s) == s \in Seq(Nat) /\ \A i, j \in 1..Len(s) : i < j => s[j] < s[i]
Items(s) == {s[i] : i \in 1..Len(s)}

\* Numbers that ascend are where they belong: of two such sequences with the same
\* items, one that has a first place that differs leads to a contradiction.
LEMMA SameSoFar ==
    ASSUME NEW s, NEW t, Ups(s), Ups(t), Items(s) = Items(t)
    PROVE  \A i \in 1..Len(s) : i \in 1..Len(t) /\ s[i] = t[i]
  <1>1. PICK n, m : n = Len(s) /\ m = Len(t)
    OBVIOUS
  <1>2. /\ n \in Nat /\ m \in Nat /\ (\A i \in 1..n : s[i] \in Nat) /\ (\A i \in 1..m : t[i] \in Nat)
        /\ (\A i, j \in 1..n : i < j => s[i] < s[j]) /\ (\A i, j \in 1..m : i < j => t[i] < t[j])
        /\ (\A i \in 1..n : \E j \in 1..m : s[i] = t[j]) /\ (\A j \in 1..m : \E i \in 1..n : t[j] = s[i])
    <2>1. s \in Seq(Nat) /\ t \in Seq(Nat)
      BY DEF Ups
    <2>2. /\ n \in Nat /\ m \in Nat /\ (\A i \in 1..n : s[i] \in Nat) /\ (\A i \in 1..m : t[i] \in Nat)
          /\ (\A i, j \in 1..n : i < j => s[i] < s[j]) /\ (\A i, j \in 1..m : i < j => t[i] < t[j])
      BY <1>1, <2>1 DEF Ups
    <2>3. \A i \in 1..n : s[i] \in Items(s)
      BY <1>1 DEF Items
    <2>4. \A i \in 1..n : \E j \in 1..m : s[i] = t[j]
      BY <1>1, <2>3 DEF Items
    <2>5. \A i \in 1..m : t[i] \in Items(t)
      BY <1>1 DEF Items
    <2>6. \A j \in 1..m : \E i \in 1..n : t[j] = s[i]
      BY <1>1, <2>5 DEF Items
    <2> QED
      BY <2>2, <2>4, <2>6
  <1>3. PICK D : D = {k \in 1..n : ~ (k \in 1..m /\ s[k] = t[k])}
    OBVIOUS
  <1>4. SUFFICES ASSUME D # {} PROVE FALSE
    BY <1>1, <1>3
  <1>5. D \subseteq Nat
    BY <1>2, <1>3
  <1>6. PICK d \in D : \A c \in D : d <= c
    BY <1>4, <1>5, Least
  <1>7. d \in 1..n /\ ~ (d \in 1..m /\ s[d] = t[d])
    BY <1>3
  <1>8. \A k \in 1..n : k < d => k \in 1..m /\ s[k] = t[k]
    BY <1>2, <1>3, <1>6, <1>7
  <1>9. PICK j \in 1..m : s[d] = t[j]
    BY <1>2, <1>7
  <1>10. j >= d
    <2>1. SUFFICES ASSUME j < d PROVE FALSE
      BY <1>2, <1>7, <1>9
    <2>2. j \in 1..n
      BY <1>2, <1>7, <2>1
    <2>3. s[j] = t[j] /\ s[j] < s[d] /\ s[j] \in Nat /\ s[d] \in Nat
      BY <1>2, <1>7, <1>8, <2>1, <2>2
    <2> QED
      BY <1>9, <2>3
  <1>11. d \in 1..m
    BY <1>2, <1>7, <1>9, <1>10
  <1>12. PICK i \in 1..n : t[d] = s[i]
    BY <1>2, <1>11
  <1>13. i >= d
    <2>1. SUFFICES ASSUME i < d PROVE FALSE
      BY <1>2, <1>7, <1>12
    <2>2. s[i] = t[i] /\ i \in 1..m
      BY <1>8, <2>1
    <2>3. t[i] < t[d] /\ t[i] \in Nat /\ t[d] \in Nat
      BY <1>2, <1>11, <2>1, <2>2
    <2> QED
      BY <1>12, <2>2, <2>3
  <1>14. s[d] \in Nat /\ t[d] \in Nat /\ s[d] <= s[i] /\ t[d] <= t[j]
    <2>1. i = d \/ d < i
      BY <1>2, <1>7, <1>13
    <2>2. j = d \/ d < j
      BY <1>2, <1>7, <1>10
    <2>3. s[d] \in Nat /\ t[d] \in Nat /\ (d < i => s[d] < s[i]) /\ (d < j => t[d] < t[j])
          /\ s[i] \in Nat /\ t[j] \in Nat
      BY <1>2, <1>7, <1>11
    <2> QED
      BY <2>1, <2>2, <2>3
  <1>15. s[d] = t[d]
    BY <1>9, <1>12, <1>14
  <1> QED
    BY <1>7, <1>11, <1>15

\* They are equal.
LEMMA SameItems ==
    ASSUME NEW s, NEW t, Ups(s), Ups(t), Items(s) = Items(t)
    PROVE  s = t
  <1>1. (\A i \in 1..Len(s) : i \in 1..Len(t) /\ s[i] = t[i]) /\ (\A i \in 1..Len(t) : i \in 1..Len(s))
    BY SameSoFar
  <1>2. s \in Seq(Nat) /\ t \in Seq(Nat) /\ Len(s) \in Nat /\ Len(t) \in Nat
    BY DEF Ups
  <1>3. Len(s) = Len(t)
    <2>1. ~ (Len(s) < Len(t))
      <3>1. Len(s) < Len(t) => Len(t) \in 1..Len(t)
        BY <1>2
      <3> QED
        BY <1>1, <1>2, <3>1
    <2>2. ~ (Len(t) < Len(s))
      <3>1. Len(t) < Len(s) => Len(s) \in 1..Len(s)
        BY <1>2
      <3> QED
        BY <1>1, <1>2, <3>1
    <2> QED
      BY <1>2, <2>1, <2>2
  <1>4. s = [i \in 1..Len(s) |-> s[i]] /\ t = [i \in 1..Len(t) |-> t[i]]
    BY <1>2
  <1> QED
    BY <1>1, <1>3, <1>4

\* A sequence turned round.
LEMMA Turned ==
    ASSUME NEW s \in Seq(Nat)
    PROVE  /\ Reverse(s) \in Seq(Nat) /\ Len(Reverse(s)) = Len(s) /\ Items(Reverse(s)) = Items(s)
           /\ \A i \in 1..Len(s) : Reverse(s)[i] = s[Len(s) - i + 1]
           /\ Reverse(Reverse(s)) = s
           /\ (Downs(s) => Ups(Reverse(s))) /\ (Ups(s) => Downs(Reverse(s)))
  <1>1. PICK n, r : n = Len(s) /\ r = Reverse(s)
    OBVIOUS
  <1>2. n \in Nat /\ \A i \in 1..n : s[i] \in Nat /\ (n - i) + 1 \in 1..n /\ (n - ((n - i) + 1)) + 1 = i
    BY <1>1
  <1>3. r = [i \in 1..n |-> s[(n - i) + 1]]
    BY <1>1 DEF Reverse
  <1>4. r \in Seq(Nat) /\ Len(r) = n
    BY <1>2, <1>3
  <1>5. \A i \in 1..n : r[i] = s[(n - i) + 1] /\ s[i] = r[(n - i) + 1]
    BY <1>2, <1>3
  <1>6. Items(r) = Items(s)
    <2>1. \A x : x \in Items(r) <=> \E i \in 1..n : x = r[i]
      BY <1>4 DEF Items
    <2>2. \A x : x \in Items(s) <=> \E i \in 1..n : x = s[i]
      BY <1>1 DEF Items
    <2>3. \A x : x \in Items(r) <=> x \in Items(s)
      BY <1>2, <1>5, <2>1, <2>2
    <2> QED
      BY <2>3
  <1>7. Reverse(r) = s
    <2>1. Reverse(r) = [i \in 1..n |-> r[(n - i) + 1]]
      BY <1>4 DEF Reverse
    <2>2. s = [i \in 1..n |-> s[i]]
      BY <1>1
    <2> QED
      BY <1>5, <2>1, <2>2
  <1>8. ASSUME Downs(s) PROVE Ups(r)
    <2>1. ASSUME NEW i \in 1..n, NEW j \in 1..n, i < j PROVE r[i] < r[j]
      <3>1. (n - j) + 1 < (n - i) + 1 /\ (n - j) + 1 \in 1..n /\ (n - i) + 1 \in 1..n
        BY <1>2, <2>1
      <3>2. s[(n - i) + 1] < s[(n - j) + 1]
        BY <1>1, <1>8, <3>1 DEF Downs
      <3> QED
        BY <1>5, <3>2
    <2> QED
      BY <1>4, <2>1 DEF Ups
  <1>9. ASSUME Ups(s) PROVE Downs(r)
    <2>1. ASSUME NEW i \in 1..n, NEW j \in 1..n, i < j PROVE r[j] < r[i]
      <3>1. (n - j) + 1 < (n - i) + 1 /\ (n - j) + 1 \in 1..n /\ (n - i) + 1 \in 1..n
        BY <1>2, <2>1
      <3>2. s[(n - j) + 1] < s[(n - i) + 1]
        BY <1>1, <1>9, <3>1 DEF Ups
      <3> QED
        BY <1>5, <3>2
    <2> QED
      BY <1>4, <2>1 DEF Downs
  <1> QED
    BY <1>1, <1>4, <1>5, <1>6, <1>7, <1>8, <1>9

\* A sequence with one more item.
LEMMA OneMore ==
    ASSUME NEW s \in Seq(Nat), NEW x \in Nat
    PROVE  /\ Append(s, x) \in Seq(Nat) /\ Items(Append(s, x)) = Items(s) \cup {x}
           /\ Ups(s) /\ (\A y \in Items(s) : y < x) => Ups(Append(s, x))
           /\ Downs(s) /\ (\A y \in Items(s) : x < y) => Downs(Append(s, x))
  <1>1. PICK n, t : n = Len(s) /\ t = Append(s, x)
    OBVIOUS
  <1>2. /\ t \in Seq(Nat) /\ Len(t) = n + 1 /\ n \in Nat /\ t[n + 1] = x /\ \A i \in 1..n : t[i] = s[i]
        /\ (\A i \in 1..n : s[i] \in Items(s))
    BY <1>1 DEF Items
  <1>3. \A i \in 1..(n + 1) : i \in 1..n \/ i = n + 1
    BY <1>2
  <1>4. Items(t) = Items(s) \cup {x}
    <2>1. \A y : y \in Items(t) <=> \E i \in 1..(n + 1) : y = t[i]
      BY <1>2 DEF Items
    <2>2. \A y : y \in Items(s) <=> \E i \in 1..n : y = s[i]
      BY <1>1 DEF Items
    <2>3. 1..n \subseteq 1..(n + 1) /\ n + 1 \in 1..(n + 1)
      BY <1>2
    <2>4. \A y : y \in Items(t) <=> y \in Items(s) \/ y = x
      BY <1>2, <1>3, <2>1, <2>2, <2>3
    <2> QED
      BY <2>4
  <1>5. ASSUME Ups(s), \A y \in Items(s) : y < x PROVE Ups(t)
    <2>1. ASSUME NEW i \in 1..(n + 1), NEW j \in 1..(n + 1), i < j PROVE t[i] < t[j]
      <3>1. i \in 1..n
        BY <1>2, <2>1
      <3>2. CASE j = n + 1
        BY <1>2, <1>5, <3>1, <3>2
      <3>3. CASE j \in 1..n
        BY <1>1, <1>2, <1>5, <2>1, <3>1, <3>3 DEF Ups
      <3> QED
        BY <1>3, <3>2, <3>3
    <2> QED
      BY <1>2, <2>1 DEF Ups
  <1>6. ASSUME Downs(s), \A y \in Items(s) : x < y PROVE Downs(t)
    <2>1. ASSUME NEW i \in 1..(n + 1), NEW j \in 1..(n + 1), i < j PROVE t[j] < t[i]
      <3>1. i \in 1..n
        BY <1>2, <2>1
      <3>2. CASE j = n + 1
        BY <1>2, <1>6, <3>1, <3>2
      <3>3. CASE j \in 1..n
        BY <1>1, <1>2, <1>6, <2>1, <3>1, <3>3 DEF Downs
      <3> QED
        BY <1>3, <3>2, <3>3
    <2> QED
      BY <1>2, <2>1 DEF Downs
  <1> QED
    BY <1>1, <1>2, <1>4, <1>5, <1>6

\* The steps of Filter, as a function of how much of the sequence was looked at.
IsFilter(s, S, n, f) ==
    f = [i \in 0..n |-> IF i = 0 THEN <<>> ELSE IF s[i] \in S THEN Append(f[i - 1], s[i]) ELSE f[i - 1]]

\* It exists.
LEMMA FilterExists == ASSUME NEW s, NEW S, NEW n \in Nat PROVE \E f : IsFilter(s, S, n, f)
  <1>1. PICK D : D = {k \in Nat : ~ \E f : IsFilter(s, S, k, f)}
    OBVIOUS
  <1>2. SUFFICES ASSUME D # {} PROVE FALSE
    BY <1>1
  <1>3. PICK d \in D : \A e \in D : d <= e
    BY <1>1, <1>2, Least
  <1>4. d \in Nat /\ ~ \E f : IsFilter(s, S, d, f)
    BY <1>1
  <1>5. CASE d = 0
    <2>1. PICK f : f = [i \in 0..0 |-> <<>>]
      OBVIOUS
    <2>2. \A i \in 0..0 : i = 0
      OBVIOUS
    <2>3. f = [i \in 0..0 |-> IF i = 0 THEN <<>> ELSE IF s[i] \in S THEN Append(f[i - 1], s[i]) ELSE f[i - 1]]
      BY <2>1, <2>2
    <2> QED
      BY <1>4, <1>5, <2>3 DEF IsFilter
  <1>6. CASE d # 0
    <2>1. d - 1 \in Nat /\ ~ (d <= d - 1)
      BY <1>4, <1>6
    <2>2. PICK g : IsFilter(s, S, d - 1, g)
      BY <1>1, <1>3, <2>1
    <2>3. PICK f : f = [i \in 0..d |-> IF i = d THEN (IF s[d] \in S THEN Append(g[d - 1], s[d]) ELSE g[d - 1]) ELSE g[i]]
      OBVIOUS
    <2>4. ASSUME NEW i \in 0..d
          PROVE  f[i] = IF i = 0 THEN <<>> ELSE IF s[i] \in S THEN Append(f[i - 1], s[i]) ELSE f[i - 1]
      <3>1. CASE i = d
        <4>1. d - 1 \in 0..d /\ d - 1 # d
          BY <1>4, <1>6
        <4>2. f[d - 1] = g[d - 1]
          BY <2>3, <4>1
        <4> QED
          BY <1>6, <2>3, <3>1, <4>2
      <3>2. CASE i # d
        <4>1. i \in 0..(d - 1)
          BY <1>4, <3>2
        <4>2. f[i] = g[i] /\ g[i] = IF i = 0 THEN <<>> ELSE IF s[i] \in S THEN Append(g[i - 1], s[i]) ELSE g[i - 1]
          BY <2>2, <2>3, <3>2, <4>1 DEF IsFilter
        <4>3. i # 0 => i - 1 \in 0..d /\ i - 1 # d
          BY <1>4, <4>1
        <4>4. i # 0 => f[i - 1] = g[i - 1]
          BY <2>3, <4>3
        <4> QED
          BY <4>2, <4>4
      <3> QED
        BY <3>1, <3>2
    <2>5. f = [i \in 0..d |-> IF i = 0 THEN <<>> ELSE IF s[i] \in S THEN Append(f[i - 1], s[i]) ELSE f[i - 1]]
      <3>1. f = [i \in 0..d |-> f[i]]
        BY <2>3
      <3> QED
        BY <2>4, <3>1
    <2> QED
      BY <1>4, <2>5 DEF IsFilter
  <1> QED
    BY <1>5, <1>6

\* Filter keeps the items of a set, in the order they have.
LEMMA FilterIs ==
    ASSUME NEW s \in Seq(Nat), NEW S
    PROVE  /\ Filter(s, S) \in Seq(Nat) /\ Items(Filter(s, S)) = Items(s) \cap S
           /\ Ups(s) => Ups(Filter(s, S))
           /\ Downs(s) => Downs(Filter(s, S))
  <1>1. PICK n : n = Len(s)
    OBVIOUS
  <1>2. n \in Nat /\ \A i \in 1..n : s[i] \in Nat
    BY <1>1
  <1>3. PICK f : f = CHOOSE g : g = [i \in 0..Len(s) |-> IF i = 0 THEN <<>> ELSE IF s[i] \in S THEN Append(g[i - 1], s[i]) ELSE g[i - 1]]
    OBVIOUS
  <1>4. f = [i \in 0..n |-> IF i = 0 THEN <<>> ELSE IF s[i] \in S THEN Append(f[i - 1], s[i]) ELSE f[i - 1]]
    <2>1. \E g : g = [i \in 0..n |-> IF i = 0 THEN <<>> ELSE IF s[i] \in S THEN Append(g[i - 1], s[i]) ELSE g[i - 1]]
      <3>1. n \in Nat
        BY <1>2
      <3>2. PICK h : IsFilter(s, S, n, h)
        BY <3>1, FilterExists
      <3>3. h = [i \in 0..n |-> IF i = 0 THEN <<>> ELSE IF s[i] \in S THEN Append(h[i - 1], s[i]) ELSE h[i - 1]]
        BY <3>2 DEF IsFilter
      <3> QED
        BY <3>3
    <2> QED
      BY <1>1, <1>3, <2>1
  <1>5. Filter(s, S) = f[n]
    BY <1>1, <1>3 DEF Filter
  <1> DEFINE P(k) == /\ f[k] \in Seq(Nat) /\ Items(f[k]) = {s[i] : i \in 1..k} \cap S
                     /\ Ups(s) => Ups(f[k])
                     /\ Downs(s) => Downs(f[k])
  <1>6. PICK D : D = {k \in 0..n : ~ P(k)}
    OBVIOUS
  <1>7. D = {}
    <2>1. SUFFICES ASSUME D # {} PROVE FALSE
      OBVIOUS
    <2>2. D \subseteq Nat
      BY <1>2, <1>6
    <2>3. PICK d \in D : \A e \in D : d <= e
      BY <2>1, <2>2, Least
    <2>4. d \in 0..n /\ ~ P(d)
      BY <1>6
    <2>5. CASE d = 0
      <3>1. f[0] = <<>>
        BY <1>2, <1>4
      <3>2. <<>> \in Seq(Nat) /\ Len(<<>>) = 0 /\ 1..0 = {}
        OBVIOUS
      <3>3. Items(<<>>) = {} /\ {s[i] : i \in 1..0} = {} /\ Ups(<<>>) /\ Downs(<<>>)
        BY <3>2 DEF Items, Ups, Downs
      <3> QED
        BY <2>4, <2>5, <3>1, <3>2, <3>3
    <2>6. CASE d # 0
      <3>1. /\ d \in 1..n /\ d \in Nat /\ d - 1 \in 0..n /\ ~ (d <= d - 1) /\ s[d] \in Nat
            /\ (\A i \in 1..d : i \in 1..(d - 1) \/ i = d) /\ (\A i \in 1..(d - 1) : i \in 1..d /\ i \in 1..n /\ i < d)
        BY <1>2, <2>4, <2>6
      <3>2. PICK g : g = f[d - 1]
        OBVIOUS
      <3>3. /\ g \in Seq(Nat) /\ Items(g) = {s[i] : i \in 1..(d - 1)} \cap S
            /\ (Ups(s) => Ups(g)) /\ (Downs(s) => Downs(g))
        BY <1>6, <2>3, <3>1, <3>2
      <3>4. f[d] = IF s[d] \in S THEN Append(g, s[d]) ELSE g
        BY <1>4, <2>4, <2>6, <3>2
      <3>5. {s[i] : i \in 1..d} = {s[i] : i \in 1..(d - 1)} \cup {s[d]}
        <4>1. d \in 1..d
          BY <3>1
        <4> QED
          BY <3>1, <4>1
      <3>6. CASE s[d] \in S
        <4>1. f[d] \in Seq(Nat) /\ Items(f[d]) = Items(g) \cup {s[d]}
          BY <3>1, <3>3, <3>4, <3>6, OneMore
        <4>2. Items(f[d]) = {s[i] : i \in 1..d} \cap S
          BY <3>3, <3>5, <3>6, <4>1
        <4>3. ASSUME Ups(s) PROVE Ups(f[d])
          <5>1. \A y \in Items(g) : y < s[d]
            BY <1>1, <3>1, <3>3, <4>3 DEF Ups
          <5> QED
            BY <3>1, <3>3, <3>4, <3>6, <4>3, <5>1, OneMore
        <4>4. ASSUME Downs(s) PROVE Downs(f[d])
          <5>1. \A y \in Items(g) : s[d] < y
            BY <1>1, <3>1, <3>3, <4>4 DEF Downs
          <5> QED
            BY <3>1, <3>3, <3>4, <3>6, <4>4, <5>1, OneMore
        <4> QED
          BY <2>4, <4>1, <4>2, <4>3, <4>4
      <3>7. CASE s[d] \notin S
        <4>1. f[d] = g /\ Items(g) = {s[i] : i \in 1..d} \cap S
          BY <3>3, <3>4, <3>5, <3>7
        <4> QED
          BY <2>4, <3>3, <4>1
      <3> QED
        BY <3>6, <3>7
    <2> QED
      BY <2>5, <2>6
  <1>8. P(n)
    <2>1. n \in 0..n
      BY <1>2
    <2> QED
      BY <1>6, <1>7, <2>1
  <1>9. Items(s) = {s[i] : i \in 1..n}
    BY <1>1 DEF Items
  <1> QED
    BY <1>5, <1>8, <1>9

\* A greater item in front.
LEMMA InFront ==
    ASSUME NEW s, Downs(s), NEW x \in Nat, \A y \in Items(s) : y < x
    PROVE  Downs(<<x>> \o s) /\ Items(<<x>> \o s) = Items(s) \cup {x}
  <1>1. PICK n, t : n = Len(s) /\ t = <<x>> \o s
    OBVIOUS
  <1>2. s \in Seq(Nat) /\ n \in Nat /\ \A i \in 1..n : s[i] \in Items(s) /\ s[i] \in Nat
    BY <1>1 DEF Downs, Items
  <1>3. t \in Seq(Nat) /\ Len(t) = n + 1 /\ t[1] = x /\ \A i \in 1..n : t[i + 1] = s[i]
    BY <1>1, <1>2
  <1>4. \A i \in 1..(n + 1) : i = 1 \/ (i - 1 \in 1..n /\ t[i] = s[i - 1])
    <2>1. \A i \in 1..(n + 1) : i = 1 \/ (i - 1 \in 1..n /\ (i - 1) + 1 = i)
      BY <1>2
    <2> QED
      BY <1>3, <2>1
  <1>5. Items(t) = Items(s) \cup {x}
    <2>1. \A y : y \in Items(t) <=> \E i \in 1..(n + 1) : y = t[i]
      BY <1>3 DEF Items
    <2>2. \A y : y \in Items(s) <=> \E i \in 1..n : y = s[i]
      BY <1>1 DEF Items
    <2>3. 1 \in 1..(n + 1) /\ \A i \in 1..n : i + 1 \in 1..(n + 1)
      BY <1>2
    <2>4. \A y : y \in Items(t) <=> y \in Items(s) \/ y = x
      BY <1>3, <1>4, <2>1, <2>2, <2>3
    <2> QED
      BY <2>4
  <1>6. ASSUME NEW i \in 1..(n + 1), NEW j \in 1..(n + 1), i < j PROVE t[j] < t[i]
    <2>1. j - 1 \in 1..n /\ t[j] = s[j - 1]
      BY <1>2, <1>4, <1>6
    <2>2. CASE i = 1
      BY <1>2, <1>3, <2>1, <2>2
    <2>3. CASE i # 1
      <3>1. i - 1 \in 1..n /\ t[i] = s[i - 1] /\ i - 1 < j - 1
        BY <1>2, <1>4, <1>6, <2>3
      <3> QED
        BY <1>1, <2>1, <3>1 DEF Downs
    <2> QED
      BY <2>2, <2>3
  <1> QED
    BY <1>1, <1>3, <1>5, <1>6 DEF Downs

\* The walks from all entries, as a function.
IsWalks(s, n, f) ==
    f = [i \in 0..n |-> IF i = 0 THEN <<>> ELSE <<i>> \o f[s[i].parent]]

\* They exist.
LEMMA WalksExist == ASSUME NEW s, Tree(s), NEW n \in 0..Len(s) PROVE \E f : IsWalks(s, n, f)
  <1>1. PICK D : D = {k \in 0..Len(s) : ~ \E f : IsWalks(s, k, f)}
    OBVIOUS
  <1>2. Len(s) \in Nat /\ DOMAIN s = 1..Len(s)
    BY DEF Tree
  <1>3. SUFFICES ASSUME D # {} PROVE FALSE
    BY <1>1
  <1>4. PICK d \in D : \A e \in D : d <= e
    <2>1. D \subseteq Nat
      BY <1>1, <1>2
    <2> QED
      BY <1>3, <2>1, Least
  <1>5. d \in 0..Len(s) /\ ~ \E f : IsWalks(s, d, f)
    BY <1>1
  <1>6. CASE d = 0
    <2>1. PICK f : f = [i \in 0..0 |-> <<>>]
      OBVIOUS
    <2>2. \A i \in 0..0 : i = 0
      OBVIOUS
    <2>3. f = [i \in 0..0 |-> IF i = 0 THEN <<>> ELSE <<i>> \o f[s[i].parent]]
      BY <2>1, <2>2
    <2> QED
      BY <1>5, <1>6, <2>3 DEF IsWalks
  <1>7. CASE d # 0
    <2>1. d - 1 \in 0..Len(s) /\ d \in Nat /\ ~ (d <= d - 1)
      BY <1>2, <1>5, <1>7
    <2>2. PICK g : IsWalks(s, d - 1, g)
      BY <1>1, <1>4, <2>1
    <2>3. PICK f : f = [i \in 0..d |-> IF i = d THEN <<d>> \o g[s[d].parent] ELSE g[i]]
      OBVIOUS
    <2>4. \A i \in 0..d : i # 0 => s[i].parent \in 0..(i - 1)
      <3>1. \A i \in 0..d : i # 0 => i \in 1..Len(s)
        BY <1>2, <1>5
      <3> QED
        BY <3>1, ParentIs
    <2>5. ASSUME NEW i \in 0..d PROVE f[i] = IF i = 0 THEN <<>> ELSE <<i>> \o f[s[i].parent]
      <3>1. CASE i = d
        <4>1. s[d].parent \in 0..d /\ s[d].parent # d
          BY <1>7, <2>1, <2>4, <3>1
        <4> QED
          BY <1>7, <2>3, <3>1, <4>1
      <3>2. CASE i # d
        <4>1. i \in 0..(d - 1)
          BY <2>1, <3>2
        <4>2. f[i] = g[i] /\ g[i] = IF i = 0 THEN <<>> ELSE <<i>> \o g[s[i].parent]
          BY <2>2, <2>3, <3>2, <4>1 DEF IsWalks
        <4>3. i # 0 => s[i].parent \in 0..d /\ s[i].parent # d
          BY <2>1, <2>4, <4>1
        <4>4. i # 0 => f[s[i].parent] = g[s[i].parent]
          BY <2>3, <4>3
        <4> QED
          BY <4>2, <4>4
      <3> QED
        BY <3>1, <3>2
    <2>6. f = [i \in 0..d |-> IF i = 0 THEN <<>> ELSE <<i>> \o f[s[i].parent]]
      <3>1. f = [i \in 0..d |-> f[i]]
        BY <2>3
      <3> QED
        BY <2>5, <3>1
    <2> QED
      BY <1>5, <2>6 DEF IsWalks
  <1> QED
    BY <1>6, <1>7

\* The walk from an entry to the root goes down its path.
LEMMA WalkIs ==
    ASSUME Tree(entries), NEW e \in 0..Len(entries)
    PROVE  Downs(walkToRoot(e)) /\ Items(walkToRoot(e)) = PathIn(entries, e)
  <1>1. PICK s, n : s = entries /\ n = Len(entries)
    OBVIOUS
  <1>2. Tree(s) /\ n = Len(s) /\ n \in Nat
    BY <1>1, ParentIs
  <1>3. PICK f : f = CHOOSE g : g = [i \in 0..Len(entries) |-> IF i = 0 THEN <<>> ELSE <<i>> \o g[entries[i].parent]]
    OBVIOUS
  <1>4. f = [i \in 0..n |-> IF i = 0 THEN <<>> ELSE <<i>> \o f[s[i].parent]]
    <2>1. PICK h : IsWalks(s, n, h)
      <3>1. n \in 0..Len(s)
        BY <1>2
      <3> QED
        BY <1>2, <3>1, WalksExist
    <2>2. h = [i \in 0..n |-> IF i = 0 THEN <<>> ELSE <<i>> \o h[s[i].parent]]
      BY <2>1 DEF IsWalks
    <2> QED
      BY <1>1, <1>3, <2>2
  <1>5. \A d : walkToRoot(d) = f[d]
    BY <1>3 DEF walkToRoot
  <1> DEFINE P(d) == Downs(f[d]) /\ Items(f[d]) = PathIn(s, d)
  <1>6. PICK D : D = {d \in 0..n : ~ P(d)}
    OBVIOUS
  <1>7. D = {}
    <2>1. SUFFICES ASSUME D # {} PROVE FALSE
      OBVIOUS
    <2>2. D \subseteq Nat
      BY <1>2, <1>6
    <2>3. PICK d \in D : \A c \in D : d <= c
      BY <2>1, <2>2, Least
    <2>4. d \in 0..n /\ ~ P(d)
      BY <1>6
    <2>5. CASE d = 0
      <3>1. f[0] = <<>> /\ PathIn(s, 0) = {}
        BY <1>2, <1>4, PathInIs
      <3>2. <<>> \in Seq(Nat) /\ Len(<<>>) = 0 /\ 1..0 = {}
        OBVIOUS
      <3>3. Items(<<>>) = {} /\ Downs(<<>>)
        BY <3>2 DEF Items, Downs
      <3> QED
        BY <2>4, <2>5, <3>1, <3>3
    <2>6. CASE d # 0
      <3>1. PICK p : p = s[d].parent
        OBVIOUS
      <3>2. d \in 1..Len(s) /\ p \in 0..(d - 1) /\ PathIn(s, d) = PathIn(s, p) \cup {d}
        BY <1>2, <2>4, <2>6, <3>1, PathInIs
      <3>3. d \in Nat /\ p \in 0..n /\ ~ (d <= p)
        BY <1>2, <3>2
      <3>4. P(p)
        BY <1>6, <2>3, <3>3
      <3>5. f[d] = <<d>> \o f[p]
        BY <1>4, <2>4, <2>6, <3>1
      <3>6. \A y \in Items(f[p]) : y < d
        <4>1. PathIn(s, p) \subseteq 0..p
          <5>1. CASE p = 0
            BY <1>2, <5>1, PathInIs
          <5>2. CASE p # 0
            <6>1. p \in 1..Len(s)
              BY <1>2, <3>3, <5>2
            <6>2. PathIn(s, p) \subseteq 1..p
              BY <1>2, <6>1, PathShape
            <6> QED
              BY <6>2
          <5> QED
            BY <5>1, <5>2
        <4> QED
          BY <3>2, <3>4, <4>1
      <3> QED
        BY <2>4, <3>2, <3>3, <3>4, <3>5, <3>6, InFront
    <2> QED
      BY <2>5, <2>6
  <1> QED
    BY <1>1, <1>5, <1>6, <1>7

\* The least of a set of numbers.
LEMMA MinIs ==
    ASSUME NEW S \in SUBSET Nat, S # {}
    PROVE  Min(S) \in S /\ \A x \in S : Min(S) <= x
  BY Least DEF Min

\* The first items of a sequence.
LEMMA FirstItems ==
    ASSUME NEW s \in Seq(Nat), NEW m \in 0..Len(s)
    PROVE  /\ SubSeq(s, 1, m) \in Seq(Nat) /\ Len(SubSeq(s, 1, m)) = m
           /\ \A i \in 1..m : SubSeq(s, 1, m)[i] = s[i] /\ i \in 1..Len(s)
  <1>1. Len(s) \in Nat
    OBVIOUS
  <1> QED
    BY <1>1

\* A sequence cut behind its first item in X: what comes before that item, if the
\* items are in order.
Cuts(s, X, t) ==
    /\ t \in Seq(Nat)
    /\ Downs(s) => /\ Downs(t)
                   /\ \A b \in X : (\A y \in X : y <= b) => \A x : x \in Items(t) <=> x \in Items(s) /\ x >= b
    /\ Ups(s) => /\ Ups(t)
                 /\ \A b \in X : (\A y \in X : b <= y) => \A x : x \in Items(t) <=> x \in Items(s) /\ x <= b
LEMMA CutIs ==
    ASSUME NEW s \in Seq(Nat), NEW X, X \subseteq Items(s),
           NEW m \in 1..Len(s), s[m] \in X, \A i \in 1..Len(s) : s[i] \in X => m <= i,
           NEW t, t = SubSeq(s, 1, m)
    PROVE  Cuts(s, X, t)
  <1>1. PICK n : n = Len(s)
    OBVIOUS
  <1>2. /\ n \in Nat /\ DOMAIN s = 1..n /\ (\A i \in 1..n : s[i] \in Nat)
        /\ \A x : x \in Items(s) <=> \E i \in 1..n : x = s[i]
    BY <1>1 DEF Items
  <1>3. m \in 1..n /\ s[m] \in X /\ \A i \in 1..n : s[i] \in X => m <= i
    BY <1>1
  <1>4. t \in Seq(Nat) /\ Len(t) = m /\ \A i \in 1..m : t[i] = s[i] /\ i \in 1..n
    <2>1. m \in 0..Len(s)
      BY <1>1, <1>2, <1>3
    <2> QED
      BY <1>1, <2>1, FirstItems
  <1>5. \A x : x \in Items(t) <=> \E i \in 1..m : x = s[i]
    BY <1>4 DEF Items
  <1>6. ASSUME Downs(s)
        PROVE  Downs(t) /\ \A b \in X : (\A y \in X : y <= b) => \A x : x \in Items(t) <=> x \in Items(s) /\ x >= b
    <2>1. \A i, j \in 1..n : i < j => s[j] < s[i]
      BY <1>1, <1>6 DEF Downs
    <2>2. Downs(t)
      BY <1>4, <2>1 DEF Downs
    <2>3. ASSUME NEW b \in X, \A y \in X : y <= b PROVE \A x : x \in Items(t) <=> x \in Items(s) /\ x >= b
      <3>1. PICK j \in 1..n : b = s[j]
        BY <1>2
      <3>2. m <= j /\ s[m] <= b
        BY <1>3, <2>3, <3>1
      <3>3. m = j \/ m < j
        BY <1>2, <1>3, <3>2
      <3>4. b = s[m]
        BY <1>2, <1>3, <2>1, <3>1, <3>2, <3>3
      <3>5. ASSUME NEW i \in 1..n PROVE s[i] >= b <=> i \in 1..m
        <4>1. i < m \/ i = m \/ m < i
          BY <1>2, <1>3
        <4>2. (i < m => b < s[i]) /\ (m < i => s[i] < b) /\ b \in Nat /\ s[i] \in Nat
          BY <1>2, <1>3, <2>1, <3>4
        <4> QED
          BY <1>3, <3>4, <4>1, <4>2
      <3>6. ASSUME NEW x \in Items(t) PROVE x \in Items(s) /\ x >= b
        BY <1>2, <1>4, <1>5, <3>5
      <3>7. ASSUME NEW x \in Items(s), x >= b PROVE x \in Items(t)
        BY <1>2, <1>5, <3>5, <3>7
      <3> QED
        BY <3>6, <3>7
    <2> QED
      BY <2>2, <2>3
  <1>7. ASSUME Ups(s)
        PROVE  Ups(t) /\ \A b \in X : (\A y \in X : b <= y) => \A x : x \in Items(t) <=> x \in Items(s) /\ x <= b
    <2>1. \A i, j \in 1..n : i < j => s[i] < s[j]
      BY <1>1, <1>7 DEF Ups
    <2>2. Ups(t)
      BY <1>4, <2>1 DEF Ups
    <2>3. ASSUME NEW b \in X, \A y \in X : b <= y PROVE \A x : x \in Items(t) <=> x \in Items(s) /\ x <= b
      <3>1. PICK j \in 1..n : b = s[j]
        BY <1>2
      <3>2. m <= j /\ b <= s[m]
        BY <1>3, <2>3, <3>1
      <3>3. m = j \/ m < j
        BY <1>2, <1>3, <3>2
      <3>4. b = s[m]
        BY <1>2, <1>3, <2>1, <3>1, <3>2, <3>3
      <3>5. ASSUME NEW i \in 1..n PROVE s[i] <= b <=> i \in 1..m
        <4>1. i < m \/ i = m \/ m < i
          BY <1>2, <1>3
        <4>2. (i < m => s[i] < b) /\ (m < i => b < s[i]) /\ b \in Nat /\ s[i] \in Nat
          BY <1>2, <1>3, <2>1, <3>4
        <4> QED
          BY <1>3, <3>4, <4>1, <4>2
      <3>6. ASSUME NEW x \in Items(t) PROVE x \in Items(s) /\ x <= b
        BY <1>2, <1>4, <1>5, <3>5
      <3>7. ASSUME NEW x \in Items(s), x <= b PROVE x \in Items(t)
        BY <1>2, <1>5, <3>5, <3>7
      <3> QED
        BY <3>6, <3>7
    <2> QED
      BY <2>2, <2>3
  <1> QED
    BY <1>4, <1>6, <1>7 DEF Cuts

-----------------------------------------------------------------------------
(* Queries *)

\* The walk of a query: the entries of the path up to where the query stops, in
\* the order it asks for.
Scanned(q, path) ==
    LET stops == {i \in DOMAIN path : IsStop(q, path[i])}
    IN  IF stops = {} THEN path ELSE SubSeq(path, 1, Min(stops))
Within(q, P) ==
    LET bound == Boundary(q, {e \in P : IsStop(q, e)})
    IN  {e \in P : IF q.newestFirst THEN e >= bound ELSE e <= bound}
LEMMA ScanIs ==
    ASSUME Tree(entries), call.start \in 1..Len(entries), NEW q, q.newestFirst \in BOOLEAN,
           NEW path, path = IF q.newestFirst THEN walkToRoot(call.start) ELSE Reverse(walkToRoot(call.start))
    PROVE  /\ Scanned(q, path) \in Seq(Nat) /\ Items(Scanned(q, path)) = Within(q, PathIn(entries, call.start))
           /\ IF q.newestFirst THEN Downs(Scanned(q, path)) ELSE Ups(Scanned(q, path))
  <1>1. PICK c, P, X, t : /\ c = call.start /\ P = PathIn(entries, c) /\ X = {e \in P : IsStop(q, e)}
                          /\ t = Scanned(q, path)
    OBVIOUS
  <1>2. Len(entries) \in Nat /\ c \in 1..Len(entries) /\ c \in 0..Len(entries) /\ c \in Nat
    BY <1>1, ParentIs
  <1>3. P \subseteq 1..c /\ c \in P
    BY <1>1, <1>2, PathShape
  <1>4. Downs(walkToRoot(c)) /\ Items(walkToRoot(c)) = P /\ walkToRoot(c) \in Seq(Nat)
    BY <1>1, <1>2, WalkIs DEF Downs
  <1>5. /\ path \in Seq(Nat) /\ Items(path) = P
        /\ (q.newestFirst => Downs(path)) /\ (~ q.newestFirst => Ups(path))
    <2>1. CASE q.newestFirst
      BY <1>1, <1>4, <2>1
    <2>2. CASE ~ q.newestFirst
      <3>1. path = Reverse(walkToRoot(c))
        BY <1>1, <2>2
      <3> QED
        BY <1>4, <2>2, <3>1, Turned
    <2> QED
      BY <2>1, <2>2
  <1>6. \A i \in DOMAIN path : path[i] \in P
    BY <1>5 DEF Items
  <1>7. {i \in DOMAIN path : IsStop(q, path[i])} = {i \in DOMAIN path : path[i] \in X}
    BY <1>1, <1>6
  <1>8. X \subseteq Items(path) /\ X \subseteq P
    BY <1>1, <1>5
  <1>9. (X = {}) <=> ({i \in DOMAIN path : path[i] \in X} = {})
    <2>1. \A x \in X : \E i \in DOMAIN path : path[i] = x
      BY <1>5, <1>8 DEF Items
    <2> QED
      BY <2>1
  <1>10. Within(q, P) = {e \in P : IF q.newestFirst THEN e >= Boundary(q, X) ELSE e <= Boundary(q, X)}
    BY <1>1 DEF Within
  <1>11. CASE X = {}
    <2>1. t = path
      BY <1>1, <1>7, <1>9, <1>11 DEF Scanned
    <2>2. Within(q, P) = P
      <3>1. CASE q.newestFirst
        <4>1. Boundary(q, X) = Max({0})
          BY <1>11, <3>1 DEF Boundary
        <4>2. {0} \in SUBSET (0..0) /\ 0 \in Nat
          OBVIOUS
        <4>3. Max({0}) = 0
          BY <4>2, MaxIs
        <4>4. \A e \in P : e >= 0
          BY <1>2, <1>3
        <4> QED
          BY <1>10, <3>1, <4>1, <4>3, <4>4
      <3>2. CASE ~ q.newestFirst
        <4>1. Boundary(q, X) = Min(X \cup {c})
          BY <1>1, <3>2 DEF Boundary
        <4>2. X \cup {c} = {c} /\ {c} \in SUBSET Nat /\ {c} # {}
          BY <1>2, <1>11
        <4>3. Min({c}) = c
          BY <4>2, MinIs
        <4>4. \A e \in P : e <= c
          BY <1>2, <1>3
        <4> QED
          BY <1>10, <3>2, <4>1, <4>2, <4>3, <4>4
      <3> QED
        BY <3>1, <3>2
    <2> QED
      BY <1>1, <1>5, <2>1, <2>2
  <1>12. CASE X # {}
    <2>1. t = SubSeq(path, 1, Min({i \in DOMAIN path : path[i] \in X}))
      BY <1>1, <1>7, <1>9, <1>12 DEF Scanned
    <2>4. Cuts(path, X, t)
      <3>1. PICK Q, m : Q = {i \in DOMAIN path : path[i] \in X} /\ m = Min(Q)
        OBVIOUS
      <3>2. Q \in SUBSET Nat /\ Q # {} /\ DOMAIN path = 1..Len(path)
        BY <1>5, <1>9, <1>12, <3>1
      <3>3. m \in 1..Len(path) /\ path[m] \in X /\ \A i \in 1..Len(path) : path[i] \in X => m <= i
        BY <3>1, <3>2, MinIs
      <3>4. t = SubSeq(path, 1, m)
        BY <2>1, <3>1
      <3>5. path \in Seq(Nat) /\ X \subseteq Items(path)
        BY <1>5, <1>8
      <3> QED
        BY <3>3, <3>4, <3>5, CutIs
    <2>2. CASE q.newestFirst
      <3>1. PICK b : b = Max(X \cup {0})
        OBVIOUS
      <3>2. Boundary(q, X) = b
        BY <2>2, <3>1 DEF Boundary
      <3>3. X \cup {0} \in SUBSET (0..c)
        BY <1>2, <1>3, <1>8
      <3>4. b \in X \cup {0} /\ \A y \in X \cup {0} : y <= b
        BY <1>2, <3>1, <3>3, MaxIs
      <3>5. \A y \in X : y \in Nat /\ y > 0
        BY <1>2, <1>3, <1>8
      <3>6. b \in X /\ \A y \in X : y <= b
        BY <1>12, <3>4, <3>5
      <3>7. t \in Seq(Nat) /\ Downs(t) /\ Items(t) = {x \in Items(path) : x >= b}
        BY <1>5, <2>2, <2>4, <3>6 DEF Cuts
      <3> QED
        BY <1>1, <1>5, <1>10, <2>2, <3>2, <3>7
    <2>3. CASE ~ q.newestFirst
      <3>1. PICK b : b = Min(X \cup {c})
        OBVIOUS
      <3>2. Boundary(q, X) = b
        BY <1>1, <2>3, <3>1 DEF Boundary
      <3>3. X \cup {c} \in SUBSET Nat
        BY <1>2, <1>3, <1>8
      <3>4. b \in X \cup {c} /\ \A y \in X \cup {c} : b <= y
        BY <3>1, <3>3, MinIs
      <3>5. \A y \in X : y \in Nat /\ y <= c
        BY <1>2, <1>3, <1>8
      <3>6. b \in X /\ \A y \in X : b <= y
        BY <1>2, <1>12, <3>4, <3>5
      <3>7. t \in Seq(Nat) /\ Ups(t) /\ Items(t) = {x \in Items(path) : x <= b}
        BY <1>5, <2>3, <2>4, <3>6 DEF Cuts
      <3> QED
        BY <1>1, <1>5, <1>10, <2>3, <3>2, <3>7
    <2> QED
      BY <2>2, <2>3
  <1> QED
    BY <1>11, <1>12

\* The parent of an entry on a path is the entry before it on that path.
LEMMA ParentOnPath ==
    ASSUME NEW s, Tree(s), NEW c \in 1..Len(s), NEW x \in PathIn(s, c)
    PROVE  /\ x \in 1..Len(s) /\ x <= c /\ s[x].parent \in 0..(x - 1) /\ (s[x].parent # 0 => s[x].parent \in PathIn(s, c))
           /\ \A y \in PathIn(s, c) : y < x => y <= s[x].parent /\ s[x].parent # 0
  <1>1. Len(s) \in Nat /\ PathIn(s, c) \subseteq 1..c /\ {y \in PathIn(s, c) : y <= x} = PathIn(s, x)
    BY ParentIs, PathShape
  <1>2. x \in 1..Len(s) /\ x <= c
    BY <1>1
  <1>3. PICK p : p = s[x].parent
    OBVIOUS
  <1>4. p \in 0..(x - 1) /\ PathIn(s, x) = PathIn(s, p) \cup {x}
    BY <1>2, <1>3, PathInIs
  <1>5. p # 0 => p \in 1..Len(s) /\ p \in PathIn(s, p) /\ PathIn(s, p) \subseteq 1..p
    <2>1. p # 0 => p \in 1..Len(s)
      BY <1>1, <1>2, <1>4
    <2> QED
      BY <2>1, PathShape
  <1>6. p # 0 => p \in PathIn(s, c)
    BY <1>1, <1>4, <1>5
  <1>7. ASSUME NEW y \in PathIn(s, c), y < x PROVE y <= p /\ p # 0
    <2>1. y \in PathIn(s, x) /\ y # x
      BY <1>1, <1>2, <1>7
    <2>2. y \in PathIn(s, p)
      BY <1>4, <2>1
    <2>3. p # 0
      BY <2>2, PathInIs
    <2> QED
      BY <1>4, <1>5, <2>2, <2>3
  <1> QED
    BY <1>2, <1>3, <1>4, <1>6, <1>7

\* What a query finds, as the cache and as the walk along the parent links find
\* it: the entries of the path up to the stop that match, in order.
Found(q) == Within(q, PathIn(entries, call.start)) \cap {x \in DOMAIN entries : Matches(q, x)}
InOrder(q, s) == IF q.newestFirst THEN Reverse(s) ELSE s
LEMMA BothFind ==
    ASSUME IInv, call.pc = "query", ~ call.stale, NEW q, q.newestFirst \in BOOLEAN
    PROVE  \E s : /\ Ups(s) /\ Items(s) = Found(q)
                  /\ queryCachedBranchRows(q) = Limited(q, InOrder(q, s))
                  /\ walked(q, call.start) = Limited(q, InOrder(q, s))
  <1>1. PICK n, c, P, M : /\ n = Len(entries) /\ c = call.start /\ P = PathIn(entries, c)
                          /\ M = {x \in DOMAIN entries : Matches(q, x)}
    OBVIOUS
  <1>2. /\ Tree(entries) /\ n \in Nat /\ DOMAIN entries = 1..n
        /\ call.branch \in DOMAIN branches /\ c \in branches[call.branch].members
    BY <1>1, SourceIs DEF IInv, CallInv
  <1>3. c \in 1..n /\ Through(call.branch, c) = P
    <2>1. branches[call.branch].tip \in 1..n /\ branches[call.branch].members = PathIn(entries, branches[call.branch].tip)
      BY <1>1, <1>2, SourceIs
    <2>2. branches[call.branch].members \subseteq 1..branches[call.branch].tip
      BY <1>1, <1>2, <2>1, PathShape
    <2>3. c \in 1..n
      BY <1>2, <2>1, <2>2
    <2> QED
      BY <1>1, <1>2, <2>1, <2>3, PathShape DEF Through
  <1>4. P \subseteq 1..n
    <2>1. P \subseteq 1..c
      BY <1>1, <1>2, <1>3, PathShape
    <2> QED
      BY <1>2, <1>3, <2>1
  <1>5. Found(q) = Within(q, P) \cap M /\ Found(q) \subseteq 1..n
    BY <1>1, <1>4 DEF Found, Within
  <1>6. PICK one : one = [i \in 1..n |-> i]
    OBVIOUS
  <1>7. one \in Seq(Nat) /\ Ups(one) /\ Items(one) = 1..n
    <2>1. one \in Seq(Nat) /\ Len(one) = n /\ \A i \in 1..n : one[i] = i
      BY <1>2, <1>6
    <2>2. Items(one) = 1..n
      BY <2>1 DEF Items
    <2> QED
      BY <2>1, <2>2 DEF Ups
  <1>8. PICK s : s = Filter(one, Found(q))
    OBVIOUS
  <1>9. Ups(s) /\ Items(s) = Found(q) /\ s \in Seq(Nat)
    <2>1. Items(s) = 1..n \cap Found(q)
      BY <1>7, <1>8, FilterIs
    <2> QED
      BY <1>5, <1>7, <1>8, <2>1, FilterIs
  <1>10. queryCachedBranchRows(q) = Limited(q, InOrder(q, s))
    <2>1. PICK bound : bound = Boundary(q, {e \in P : IsStop(q, e)})
      OBVIOUS
    <2>2. {e \in P : (IF q.newestFirst THEN e >= bound ELSE e <= bound) /\ Matches(q, e)} = Found(q)
      BY <1>1, <1>2, <1>4, <1>5, <2>1 DEF Within
    <2>3. queryCachedBranchRows(q) =
              LET inside == {e \in P : (IF q.newestFirst THEN e >= bound ELSE e <= bound) /\ Matches(q, e)}
                  ascending == Filter(one, inside)
              IN  Limited(q, IF q.newestFirst THEN Reverse(ascending) ELSE ascending)
      BY <1>1, <1>2, <1>3, <1>6, <2>1 DEF queryCachedBranchRows
    <2> QED
      BY <1>8, <2>2, <2>3 DEF InOrder
  <1>11. walked(q, c) = Limited(q, InOrder(q, s))
    <2>1. PICK path : path = IF q.newestFirst THEN walkToRoot(c) ELSE Reverse(walkToRoot(c))
      OBVIOUS
    <2>2. PICK t : t = Scanned(q, path)
      OBVIOUS
    <2>3. t \in Seq(Nat) /\ Items(t) = Within(q, P) /\ IF q.newestFirst THEN Downs(t) ELSE Ups(t)
      BY <1>1, <1>2, <1>3, <2>1, <2>2, ScanIs
    <2>4. PICK f : f = Filter(t, M)
      OBVIOUS
    <2>5. walked(q, c) = Limited(q, f)
      BY <1>1, <2>1, <2>2, <2>4 DEF walked, Scanned
    <2>6. f \in Seq(Nat) /\ Items(f) = Found(q) /\ (Ups(t) => Ups(f)) /\ (Downs(t) => Downs(f))
      BY <1>5, <2>3, <2>4, FilterIs
    <2>7. CASE q.newestFirst
      <3>1. Ups(Reverse(f)) /\ Items(Reverse(f)) = Found(q) /\ Reverse(Reverse(f)) = f
        BY <2>3, <2>6, <2>7, Turned
      <3>2. Reverse(f) = s
        BY <1>9, <3>1, SameItems
      <3> QED
        BY <2>5, <2>7, <3>1, <3>2 DEF InOrder
    <2>8. CASE ~ q.newestFirst
      <3>1. f = s
        BY <1>9, <2>3, <2>6, <2>8, SameItems
      <3> QED
        BY <2>5, <2>8, <3>1 DEF InOrder
    <2> QED
      BY <2>7, <2>8
  <1> QED
    BY <1>1, <1>9, <1>10, <1>11

\* What a query without a filter finds has no gap, and begins at the root when
\* nothing cuts it short.
LEMMA FoundIs ==
    ASSUME Tree(entries), call.start \in 1..Len(entries),
           NEW q \in Queries, q.type = None, NEW s, Ups(s), Items(s) = Found(q)
    PROVE  /\ \A i \in 2..Len(s) : entries[s[i]].parent = s[i - 1]
           /\ s # <<>> /\ q.stopAtId = 0 /\ q.stopAtType = None /\ q.cursor = 0 => entries[s[1]].parent = 0
  <1>1. PICK n, c, P, m, bound : /\ n = Len(entries) /\ c = call.start /\ P = PathIn(entries, c) /\ m = Len(s)
                                 /\ bound = Boundary(q, {e \in P : IsStop(q, e)})
    OBVIOUS
  <1>2. /\ n \in Nat /\ DOMAIN entries = 1..n /\ m \in Nat /\ c \in 1..n /\ Tree(entries)
        /\ \A i \in 1..m : s[i] \in Items(s) /\ s[i] \in Nat
        /\ \A i, j \in 1..m : i < j => s[i] < s[j]
    <2>1. s \in Seq(Nat)
      BY DEF Ups
    <2> QED
      BY <1>1, <2>1, ParentIs DEF Ups, Items
  <1>3. \A x : x \in Items(s) <=> /\ x \in P /\ x \in 1..n
                                  /\ IF q.newestFirst THEN x >= bound ELSE x <= bound
                                  /\ q.cursor = 0 \/ IF q.newestFirst THEN x < q.cursor ELSE x > q.cursor
    BY <1>1, <1>2 DEF Found, Within, Matches
  <1>4. q.newestFirst \in BOOLEAN /\ q.cursor \in Nat
    BY <1>1, <1>2 DEF Queries
  <1>5. \A x \in P : /\ x \in 1..n /\ entries[x].parent \in 0..(x - 1)
                     /\ (entries[x].parent # 0 => entries[x].parent \in P /\ entries[x].parent \in 1..n)
                     /\ \A y \in P : y < x => y <= entries[x].parent /\ entries[x].parent # 0
    <2>1. ASSUME NEW x \in P
          PROVE  /\ x \in 1..n /\ entries[x].parent \in 0..(x - 1)
                 /\ (entries[x].parent # 0 => entries[x].parent \in P)
                 /\ \A y \in P : y < x => y <= entries[x].parent /\ entries[x].parent # 0
      BY <1>1, <1>2, ParentOnPath
    <2>2. \A x \in P : x \in 1..n
      BY <2>1
    <2> QED
      BY <2>1, <2>2
  <1>6. bound \in Int
    <2>1. PICK X : X = {e \in P : IsStop(q, e)}
      OBVIOUS
    <2>2. X \in SUBSET (1..n)
      BY <1>5, <2>1
    <2>3. CASE q.newestFirst
      <3>1. bound = Max(X \cup {0})
        BY <1>1, <2>1, <2>3 DEF Boundary
      <3>2. X \cup {0} \in SUBSET (0..n)
        BY <1>2, <2>2
      <3>3. bound \in X \cup {0}
        BY <1>2, <3>1, <3>2, MaxIs
      <3> QED
        BY <1>2, <3>2, <3>3
    <2>4. CASE ~ q.newestFirst
      <3>1. bound = Min(X \cup {c})
        BY <1>1, <2>1, <2>4 DEF Boundary
      <3>2. X \cup {c} \in SUBSET Nat
        BY <1>2, <2>2
      <3>3. bound \in X \cup {c}
        BY <3>1, <3>2, MinIs
      <3> QED
        BY <3>2, <3>3
    <2> QED
      BY <2>3, <2>4
  <1>7. ASSUME NEW i \in 2..m PROVE entries[s[i]].parent = s[i - 1]
    <2>1. i \in 1..m /\ i - 1 \in 1..m /\ i - 1 < i
      BY <1>2
    <2>2. PICK x, y, p : x = s[i] /\ y = s[i - 1] /\ p = entries[x].parent
      OBVIOUS
    <2>3. x \in Items(s) /\ y \in Items(s) /\ y < x
      BY <1>2, <2>1, <2>2
    <2>4. x \in P /\ y \in P /\ x \in 1..n /\ y \in 1..n
      BY <1>3, <2>3
    <2>5. y <= p /\ p # 0 /\ p \in P /\ p \in 1..n /\ p \in 0..(x - 1)
      BY <1>5, <2>2, <2>3, <2>4
    <2>6. p < x
      BY <2>4, <2>5
    <2>7. p \in Items(s)
      <3>1. CASE q.newestFirst
        <4>1. y >= bound /\ (q.cursor = 0 \/ x < q.cursor)
          BY <1>3, <2>3, <3>1
        <4>2. p >= bound /\ (q.cursor = 0 \/ p < q.cursor)
          BY <1>4, <1>6, <2>4, <2>5, <2>6, <4>1
        <4> QED
          BY <1>3, <2>5, <3>1, <4>2
      <3>2. CASE ~ q.newestFirst
        <4>1. x <= bound /\ (q.cursor = 0 \/ y > q.cursor)
          BY <1>3, <2>3, <3>2
        <4>2. p <= bound /\ (q.cursor = 0 \/ p > q.cursor)
          BY <1>4, <1>6, <2>4, <2>5, <2>6, <4>1
        <4> QED
          BY <1>3, <2>5, <3>2, <4>2
      <3> QED
        BY <1>4, <3>1, <3>2
    <2>8. PICK j \in 1..m : p = s[j]
      BY <1>1, <2>7 DEF Items
    <2>9. ~ (i < j) /\ i # j
      BY <1>2, <2>1, <2>2, <2>4, <2>5, <2>6, <2>8
    <2>10. ~ (j < i - 1)
      BY <1>2, <2>1, <2>2, <2>4, <2>5, <2>8
    <2>11. j = i - 1
      BY <1>2, <2>9, <2>10
    <2> QED
      BY <2>2, <2>8, <2>11
  <1>8. ASSUME s # <<>>, q.stopAtId = 0, q.stopAtType = None, q.cursor = 0 PROVE entries[s[1]].parent = 0
    <2>1. 1 \in 1..m
      <3>1. s \in Seq(Nat)
        BY DEF Ups
      <3> QED
        BY <1>1, <1>8, <3>1, EmptySeq
    <2>2. PICK x, p : x = s[1] /\ p = entries[x].parent
      OBVIOUS
    <2>3. x \in Items(s)
      BY <1>2, <2>1, <2>2
    <2>4. x \in P /\ x \in 1..n /\ IF q.newestFirst THEN x >= bound ELSE x <= bound
      BY <1>3, <2>3
    <2>5. SUFFICES ASSUME p # 0 PROVE FALSE
      BY <2>2
    <2>6. p \in P /\ p \in 1..n /\ p < x
      BY <1>5, <2>2, <2>4, <2>5
    <2>7. q.newestFirst => bound = 0
      <3>1. ASSUME NEW e \in P PROVE ~ IsStop(q, e)
        <4>1. e \in 1..n /\ entries[e] \in Entry
          BY <1>2, <1>5 DEF Tree
        <4>2. e # 0 /\ entries[e].type # None
          BY <4>1 DEF Entry, Types, None
        <4> QED
          BY <1>8, <4>2 DEF IsStop
      <3>2. {e \in P : IsStop(q, e)} = {}
        BY <3>1
      <3>3. q.newestFirst => bound = Max({0})
        BY <1>1, <3>2 DEF Boundary
      <3>4. {0} \in SUBSET (0..0) /\ 0 \in Nat
        OBVIOUS
      <3>5. Max({0}) = 0
        BY <3>4, MaxIs
      <3> QED
        BY <3>3, <3>5
    <2>8. IF q.newestFirst THEN p >= bound ELSE p <= bound
      BY <1>4, <1>6, <2>4, <2>6, <2>7
    <2>9. p \in Items(s)
      BY <1>3, <1>8, <2>6, <2>8
    <2>10. PICK j \in 1..m : p = s[j]
      BY <1>1, <2>9 DEF Items
    <2>11. j = 1 \/ 1 < j
      BY <1>2
    <2>12. j = 1 \/ x < p
      BY <1>2, <2>1, <2>2, <2>10, <2>11
    <2> QED
      BY <2>2, <2>4, <2>6, <2>10, <2>12
  <1> QED
    BY <1>1, <1>7, <1>8

\* The validation accepts what a query finds.
LEMMA Accepted ==
    ASSUME Tree(entries), call.start \in 1..Len(entries),
           NEW q \in Queries, NEW s, Ups(s), Items(s) = Found(q)
    PROVE  validateCachedBranchRows(q, Limited(q, InOrder(q, s)))
  <1>1. PICK r, rows : r = InOrder(q, s) /\ rows = Limited(q, r)
    OBVIOUS
  <1>2. SUFFICES ASSUME q.type = None, rows # <<>> PROVE validateCachedBranchRows(q, rows)
    BY <1>1 DEF validateCachedBranchRows
  <1>3. /\ \A i \in 2..Len(s) : entries[s[i]].parent = s[i - 1]
        /\ s # <<>> /\ q.stopAtId = 0 /\ q.stopAtType = None /\ q.cursor = 0 => entries[s[1]].parent = 0
    BY <1>2, FoundIs
  <1>4. s \in Seq(Nat) /\ Len(s) \in Nat /\ q.newestFirst \in BOOLEAN /\ q.limit \in {0, 1}
    BY DEF Ups, Queries
  <1>5. r \in Seq(Nat) /\ Len(r) = Len(s) /\ InOrder(q, r) = s /\ (~ q.newestFirst => r = s)
    BY <1>1, <1>4, Turned DEF InOrder
  <1>6. PICK path : path = InOrder(q, rows)
    OBVIOUS
  <1>7. SUFFICES ASSUME TRUE
                 PROVE  /\ /\ q.stopAtId = 0 /\ q.stopAtType = None /\ q.cursor = 0
                           /\ ~ q.newestFirst \/ q.limit = 0
                           => entries[path[1]].parent = 0
                        /\ \A i \in 2..Len(path) : entries[path[i]].parent = path[i - 1]
    BY <1>6 DEF validateCachedBranchRows, InOrder
  <1>8. CASE rows = r
    <2>1. path = s
      BY <1>5, <1>6, <1>8
    <2>2. s # <<>>
      BY <1>2, <1>4, <1>5, <1>8, EmptySeq
    <2> QED
      BY <1>3, <2>1, <2>2
  <1>9. CASE rows # r
    <2>1. q.limit = 1 /\ rows = SubSeq(r, 1, 1) /\ ~ (Len(r) < 1)
      BY <1>1, <1>4, <1>9 DEF Limited
    <2>2. 1 \in 0..Len(r) /\ 1 \in 1..1
      BY <1>4, <1>5, <2>1
    <2>3. rows \in Seq(Nat) /\ Len(rows) = 1 /\ rows[1] = r[1]
      BY <1>5, <2>1, <2>2, FirstItems
    <2>4. Len(path) = 1
      BY <1>6, <2>3, Turned DEF InOrder
    <2>5. 2..Len(path) = {}
      BY <2>4
    <2>6. ~ q.newestFirst => path[1] = s[1] /\ s # <<>>
      BY <1>4, <1>5, <1>6, <2>1, <2>3, EmptySeq DEF InOrder
    <2> QED
      BY <1>3, <1>4, <2>1, <2>5, <2>6
  <1> QED
    BY <1>8, <1>9

-----------------------------------------------------------------------------
(* The theorems *)

\* A new session.
LEMMA InitInv == Init => IInv
  <1>1. SUFFICES ASSUME Init PROVE IInv
    OBVIOUS
  <1>2. Tree(entries) /\ Len(entries) = 0
    BY <1>1 DEF Init, Tree
  <1>3. leaf \in LaneMaps /\ DOMAIN leaf = {"main"} /\ leaf["main"] = 0
    <2>1. leaf \in [{"main"} -> Nat] /\ {"main"} \in SUBSET Lanes
      BY <1>1, BoundsAssumption DEF Init
    <2> QED
      BY <1>1, <2>1, LaneMapIs DEF Init
  <1>4. DOMAIN branches = {} /\ branches \in [DOMAIN branches -> BranchType]
    BY <1>1, LaneMapIs DEF Init
  <1>5. call \in CallType /\ call.pc = None
    BY <1>1, NoCallIs DEF Init
  <1>6. CallInv
    <2>1. None \notin {"query", "lanes", "tips", "lookup", "rows", "insert"}
      BY DEF None
    <2> QED
      BY <1>5, <2>1 DEF CallInv
  <1>7. TypeInv
    BY <1>1, <1>2, <1>3, <1>4, <1>5 DEF Init, TypeInv, UsedType
  <1>8. CacheInv
    BY <1>1, <1>2, <1>3, <1>4 DEF CacheInv
  <1>9. ForkIsWhole
    BY <1>1 DEF Init, NoDest, ForkIsWhole
  <1> QED
    BY <1>6, <1>7, <1>8, <1>9 DEF IInv

\* A step that changes nothing.
LEMMA StutterInv == ASSUME IInv, UNCHANGED vars PROVE IInv'
  <1>1. Reads /\ dest' = dest /\ call' = call /\ call \in CallType
    BY SourceIs DEF vars, Reads
  <1>2. CallInv'
    <2>1. CallInv /\ entries' = entries /\ branches' = branches /\ exists' = exists
      BY <1>1 DEF IInv, Reads
    <2>2. Len(entries) <= Len(entries')
      BY <2>1, SourceIs
    <2> QED
      BY <1>1, <2>1, <2>2, SourceIs, CallKept
  <1> QED
    BY <1>1, <1>2, ReadKeeps DEF IInv

\* Every step keeps the invariant.
LEMMA NextInv == ASSUME IInv, Next PROVE IInv'
  <1>1. ASSUME NEW l \in Lanes, NEW t \in Types, appendEntry(l, t) PROVE IInv'
    BY <1>1, AppendInv
  <1>2. ASSUME NEW l \in Lanes, NEW e \in 0..MaxEntries, setLane(l, e) PROVE IInv'
    BY <1>2, SetLaneInv
  <1>3. CASE repairBranchCache
    BY <1>3, RepairInv
  <1>4. CASE delete
    BY <1>4, DeleteInv
  <1>5. CASE Read
    BY <1>5, FindInv DEF Read
  <1>6. CASE forkTree \/ readLanes \/ readTips
    BY <1>6, TreeInv
  <1>7. CASE (\E e \in 0..MaxEntries, before \in BOOLEAN : forkBranch(e, before)) \/ lookUpBranch \/ readBranchRows
    BY <1>7, BranchInv
  <1>8. CASE insertFork
    BY <1>8, InsertInv
  <1> QED
    BY <1>1, <1>2, <1>3, <1>4, <1>5, <1>6, <1>7, <1>8 DEF Next, Write, Fork

\* The invariant holds in every reachable state.
THEOREM InvCorrect == Spec => []IInv
  <1>1. IInv /\ [Next]_vars => IInv'
    BY NextInv, StutterInv
  <1> QED
    BY <1>1, InitInv, PTL DEF Spec

\* The session that fork() makes from what it read in separate statements, while
\* others write, is whole: its main lane is there, it holds the parents of its
\* entries, and each of them is on a cached branch that is its path.
THEOREM ForkCorrect == Spec => []ForkIsWhole
  <1>1. IInv => ForkIsWhole
    BY DEF IInv
  <1> QED
    BY <1>1, InvCorrect, PTL

\* As long as the session is there every entry can be looked up in the cache, and
\* what any branch holds up to an entry on it, which is what a query scans, is
\* the path of that entry along the parent links: at all times, whatever other
\* writers appended, moved or repaired since the branch was built.
CacheIsPaths ==
    /\ \A e \in Rows : Containing(e) # {}
    /\ \A b \in DOMAIN branches : \A e \in branches[b].members : Through(b, e) = Path(e)
THEOREM CacheCorrect == Spec => []CacheIsPaths
  <1>1. ASSUME IInv PROVE CacheIsPaths
    <2>1. \A e \in Rows : Containing(e) # {}
      <3>1. Rows # {} => exists
        BY DEF Rows
      <3> QED
        BY <1>1, <3>1, SourceIs DEF Containing
    <2>2. ASSUME NEW b \in DOMAIN branches, NEW e \in branches[b].members PROVE Through(b, e) = Path(e)
      <3>1. /\ Tree(entries) /\ branches[b].tip \in 1..Len(entries)
            /\ branches[b].members = PathIn(entries, branches[b].tip)
        BY <1>1, SourceIs
      <3>2. Path(e) = PathIn(entries, e)
        BY DEF Path, PathIn
      <3> QED
        BY <3>1, <3>2, PathShape DEF Through
    <2> QED
      BY <2>1, <2>2 DEF CacheIsPaths
  <1> QED
    BY <1>1, InvCorrect, PTL

\* A scan of the branch that was looked up gives what the walk along the parent
\* links gives, for every query, however other writers extended, split or copied
\* the branch meanwhile, and the validation accepts it; every entry can be
\* looked up.
THEOREM QueriesCorrect == Spec => []QueriesAgree
  <1>1. ASSUME IInv PROVE QueriesAgree
    <2>1. \A e \in Rows : Containing(e) # {}
      <3>1. Rows # {} => exists
        BY DEF Rows
      <3> QED
        BY <1>1, <3>1, SourceIs DEF Containing
    <2>2. ASSUME call.pc = "query", ~ call.stale, NEW q \in Queries
          PROVE  LET rows == queryCachedBranchRows(q) IN
                 rows = walked(q, call.start) /\ validateCachedBranchRows(q, rows)
      <3>1. Tree(entries) /\ call.start \in 1..Len(entries)
        <4>1. call.branch \in DOMAIN branches /\ call.start \in branches[call.branch].members
          BY <1>1, <2>2 DEF IInv, CallInv
        <4>2. branches[call.branch].tip \in 1..Len(entries) /\ Len(entries) \in Nat /\ Tree(entries)
              /\ branches[call.branch].members = PathIn(entries, branches[call.branch].tip)
          BY <1>1, <4>1, SourceIs
        <4>3. branches[call.branch].members \subseteq 1..branches[call.branch].tip
          BY <4>2, PathShape
        <4> QED
          BY <4>1, <4>2, <4>3
      <3>2. q.newestFirst \in BOOLEAN
        BY DEF Queries
      <3>3. PICK s : /\ Ups(s) /\ Items(s) = Found(q)
                     /\ queryCachedBranchRows(q) = Limited(q, InOrder(q, s))
                     /\ walked(q, call.start) = Limited(q, InOrder(q, s))
        BY <1>1, <2>2, <3>2, BothFind
      <3>4. validateCachedBranchRows(q, Limited(q, InOrder(q, s)))
        BY <3>1, <3>3, Accepted
      <3> QED
        BY <3>3, <3>4
    <2> QED
      BY <2>1, <2>2 DEF QueriesAgree
  <1> QED
    BY <1>1, InvCorrect, PTL
=============================================================================
