---------------------------- MODULE BranchCache ----------------------------
(***************************************************************************)
(* The branch cache of the SQLite backend (branch-cache.ts,                *)
(* storage/branch-entries.ts, storage/branch-tips.ts of                    *)
(* packages/session-backends/sqlite-node/src/sqlite), and the calls that   *)
(* read it: findEntriesOnBranch() and fork().  Parent links in entries     *)
(* remain canonical; the cache exists to make branch scans cheap.          *)
(*                                                                         *)
(* A write is one transaction (see SqliteSession for who may run it).      *)
(* Reads take no lease and no transaction: between the statements of one   *)
(* call, other processes may write, repair the cache or delete the         *)
(* session.  An entry is named by its position, which orders entries as    *)
(* their sequence numbers do; facts and records are left out.              *)
(***************************************************************************)
EXTENDS Naturals, Sequences, FiniteSets, FiniteSetsExt, SequencesExt

CONSTANTS
    Lanes,         \* lane names; "main" is the one every session starts with
    MaxEntries,    \* bounds: entries appended,
    MaxMoves,      \*   lanes created or moved,
    MaxRepairs     \*   calls of repairBranchCache()

ASSUME BoundsAssumption ==
    /\ "main" \in Lanes
    /\ MaxEntries \in Nat /\ MaxMoves \in Nat /\ MaxRepairs \in Nat

VARIABLES
    exists,      \* the session has not been deleted
    entries,     \* its entries: parent and type (of a deleted one: those it had)
    leaf,        \* lanes: the leaf of each, 0 is NULL
    branches,    \* branch_entries and branch_tips: members and tip of each branch
    call,        \* the call of findEntriesOnBranch() or fork() in progress
    dest,        \* the session that fork() has created
    used         \* moves, repairs and branch ids so far

vars == <<exists, entries, leaf, branches, call, dest, used>>

Types == {"message", "compaction"}
None == "none"
NoCall == [pc |-> None, start |-> 0, branch |-> 0, tree |-> FALSE, ids |-> {},
           lanes |-> <<>>, tips |-> {}, stale |-> FALSE]
NoDest == [ids |-> {}, lanes |-> <<>>, paths |-> {}, made |-> FALSE, stale |-> FALSE]

(* The session is there, and no fork has succeeded: the first one that does *)
(* is the last step, since nothing it made is changed by what follows.      *)
Open == exists /\ ~ dest.made

(* The rows of entries. *)
Rows == IF exists THEN DOMAIN entries ELSE {}

(* The entries from the root to e along parent links. *)
Path(e) ==
    LET P[i \in 0..Len(entries)] == IF i = 0 THEN {} ELSE P[entries[i].parent] \cup {i}
    IN  P[e]

-----------------------------------------------------------------------------
(* The cache. *)

Branch(members, tip) == [members |-> members, tip |-> tip]
Containing(e) == {b \in DOMAIN branches : e \in branches[b].members}
WithTip(e) == {b \in DOMAIN branches : branches[b].tip = e}
NewBranch(branch) ==
    [b \in DOMAIN branches \cup {used.branches + 1} |->
        IF b \in DOMAIN branches THEN branches[b] ELSE branch]

Mutant_CopiesWhole(b, e) == branches[b].members
(* copyBranchEntriesThroughSeq: the part of branch b up to entry e. *)
Through(b, e) == {x \in branches[b].members : x <= e}

(* The caches after appendEntryToBranchCache. Branch ids of several         *)
(* processes have no order that matters, so any branch may be the first.    *)
appendEntryToBranchCache(e, parent) ==
    IF parent = 0 THEN {NewBranch(Branch({e}, e))}
    ELSE IF WithTip(parent) # {}
    THEN {[branches EXCEPT ![b] = Branch(@.members \cup {e}, e)] : b \in WithTip(parent)}
    ELSE {NewBranch(Branch(Through(b, parent) \cup {e}, e)) : b \in Containing(parent)}

(* rebuildBranchCache: a branch for every entry without children. *)
rebuildBranchCache ==
    LET T == {e \in Rows : \A i \in Rows : entries[i].parent # e}
        s == SetToSeq(T)
    IN  [b \in {used.branches + i : i \in DOMAIN s} |->
            LET tip == s[b - used.branches] IN Branch(Path(tip), tip)]

-----------------------------------------------------------------------------
(* The writers' transactions. *)

appendEntry(l, type) ==
    LET e == Len(entries) + 1 IN
    /\ Open /\ l \in DOMAIN leaf /\ e <= MaxEntries
    /\ entries' = Append(entries, [parent |-> leaf[l], type |-> type])
    /\ leaf' = [leaf EXCEPT ![l] = e]
    /\ branches' \in appendEntryToBranchCache(e, leaf[l])
    /\ used' = [used EXCEPT !.branches = Max({@} \cup DOMAIN branches')]
    /\ UNCHANGED <<exists, call, dest>>

(* createLane and moveLane *)
setLane(l, to) ==
    /\ Open /\ to \in Rows \cup {0}
    /\ used.moves < MaxMoves /\ used' = [used EXCEPT !.moves = @ + 1]
    /\ leaf' = [x \in DOMAIN leaf \cup {l} |-> IF x = l THEN to ELSE leaf[x]]
    /\ UNCHANGED <<exists, entries, branches, call, dest>>

repairBranchCache ==
    /\ Open /\ used.repairs < MaxRepairs
    /\ branches' = rebuildBranchCache
    /\ used' = [used EXCEPT !.repairs = @ + 1, !.branches = Max({@} \cup DOMAIN branches')]
    /\ call' = [call EXCEPT !.stale = call # NoCall]
    /\ UNCHANGED <<exists, entries, leaf, dest>>

delete ==
    /\ Open /\ exists' = FALSE
    /\ leaf' = <<>> /\ branches' = <<>>
    /\ call' = [call EXCEPT !.stale = call # NoCall]
    /\ UNCHANGED <<entries, dest, used>>

-----------------------------------------------------------------------------
(* findEntriesOnBranch(): first readCachedBranch, then the query. *)

readCachedBranch(e) ==
    /\ Open /\ call = NoCall
    /\ \E b \in Containing(e) :
         call' = [NoCall EXCEPT !.pc = "query", !.start = e, !.branch = b]
    /\ UNCHANGED <<exists, entries, leaf, branches, dest, used>>

Queries == [newestFirst : BOOLEAN, stopAtType : {None, "compaction"},
            stopAtId : 0..Len(entries), type : {None, "message"},
            cursor : 0..Len(entries), limit : {0, 1}]

IsStop(q, e) == e = q.stopAtId \/ entries[e].type = q.stopAtType
Matches(q, e) ==
    /\ q.type = None \/ entries[e].type = q.type
    /\ q.cursor = 0 \/ IF q.newestFirst THEN e < q.cursor ELSE e > q.cursor
(* What is left of a sequence of entries when only those of S are kept. *)
Filter(s, S) ==
    LET F[i \in 0..Len(s)] ==
            IF i = 0 THEN <<>> ELSE IF s[i] \in S THEN Append(F[i - 1], s[i]) ELSE F[i - 1]
    IN  F[Len(s)]
Limited(q, s) == IF q.limit = 0 \/ Len(s) < q.limit THEN s ELSE SubSeq(s, 1, q.limit)

(* The sequence number that the scan of a branch ends at: the last, or the  *)
(* first, of the entries it must stop at.                                   *)
Boundary(q, S) == IF q.newestFirst THEN Max(S \cup {0}) ELSE Min(S \cup {call.start})

(* queryCachedBranchRows on the branch that was looked up. *)
queryCachedBranchRows(q) ==
    LET seen == IF call.branch \in DOMAIN branches THEN Through(call.branch, call.start)
                ELSE {}
        bound == Boundary(q, {e \in seen : IsStop(q, e)})
        inside == {e \in seen : /\ IF q.newestFirst THEN e >= bound ELSE e <= bound
                                /\ Matches(q, e)}
        ascending == Filter([i \in 1..Len(entries) |-> i], inside)
    IN  Limited(q, IF q.newestFirst THEN Reverse(ascending) ELSE ascending)

(* validateCachedBranchRows: the rows are consecutive, from the root if     *)
(* nothing cuts them short.                                                 *)
validateCachedBranchRows(q, rows) ==
    LET path == IF q.newestFirst THEN Reverse(rows) ELSE rows IN
    rows = <<>> \/ q.type # None \/
        /\ /\ q.stopAtId = 0 /\ q.stopAtType = None /\ q.cursor = 0
           /\ ~ q.newestFirst \/ q.limit = 0
           => entries[path[1]].parent = 0
        /\ \A i \in 2..Len(path) : entries[path[i]].parent = path[i - 1]

findEntriesOnBranch ==
    /\ call.pc = "query"
    /\ call' = NoCall
    /\ UNCHANGED <<exists, entries, leaf, branches, dest, used>>

(* The same call of the memory and JSONL backends (SessionState), which     *)
(* walk the parent links.                                                   *)
walkToRoot(e) ==
    LET P[i \in 0..Len(entries)] == IF i = 0 THEN <<>> ELSE <<i>> \o P[entries[i].parent]
    IN  P[e]
walked(q, e) ==
    LET path == IF q.newestFirst THEN walkToRoot(e) ELSE Reverse(walkToRoot(e))
        stops == {i \in DOMAIN path : IsStop(q, path[i])}
        scanned == IF stops = {} THEN path ELSE SubSeq(path, 1, Min(stops))
    IN  Limited(q, Filter(scanned, {x \in DOMAIN entries : Matches(q, x)}))

-----------------------------------------------------------------------------
(* fork(), statement by statement. *)

Step(pc) == call.pc = pc /\ UNCHANGED <<exists, entries, leaf, branches, used>>
Throws == call' = NoCall /\ UNCHANGED dest

forkTree ==
    /\ Step(None) /\ Open
    /\ call' = [NoCall EXCEPT !.pc = "lanes", !.tree = TRUE, !.ids = Rows]
    /\ UNCHANGED dest

readLanes ==
    /\ Step("lanes")
    /\ call' = [call EXCEPT !.pc = "tips", !.lanes = leaf]
    /\ UNCHANGED dest

Mutant_TipsFromLanes == {call.lanes[l] : l \in DOMAIN call.lanes} \ {0}
readBranchTipIds == {branches[b].tip : b \in DOMAIN branches}

readTips ==
    /\ Step("tips")
    /\ call' = [call EXCEPT !.pc = "insert", !.tips = readBranchTipIds]
    /\ UNCHANGED dest

(* Scope "branch": the target is a message, or its parent; without one the  *)
(* leaf of main.                                                            *)
forkBranch(e, before) ==
    /\ Step(None) /\ Open
    /\ e \in {leaf["main"]} \cup Rows
    /\ e # 0 => entries[e].type = "message"
    /\ before => e # 0
    /\ LET target == IF before THEN entries[e].parent ELSE e IN
       call' = [NoCall EXCEPT !.pc = IF target = 0 THEN "insert" ELSE "lookup",
                              !.start = target, !.lanes = [l \in {"main"} |-> target],
                              !.tips = {target} \ {0}]
    /\ UNCHANGED dest

lookUpBranch ==
    /\ Step("lookup")
    /\ \/ \E b \in Containing(call.start) :
            call' = [call EXCEPT !.pc = "rows", !.branch = b] /\ UNCHANGED dest
       \/ Containing(call.start) = {} /\ Throws

readBranchRows ==
    /\ Step("rows")
    /\ call' = [call EXCEPT !.pc = "insert",
                            !.ids = IF call.branch \in DOMAIN branches
                                    THEN Through(call.branch, call.start) ELSE {}]
    /\ UNCHANGED dest

(* The transaction: buildCachedBranch throws for a tip whose path is not    *)
(* among the entries that were copied, the database may refuse, and then    *)
(* nothing is left of the fork.                                             *)
insertFork ==
    /\ Step("insert")
    /\ \/ /\ \A t \in call.tips : Path(t) \subseteq call.ids
          /\ dest' = [ids |-> call.ids, lanes |-> call.lanes,
                      paths |-> {Path(t) : t \in call.tips}, made |-> TRUE,
                      stale |-> call.stale]
          /\ call' = NoCall
       \/ Throws

-----------------------------------------------------------------------------
Init ==
    /\ exists = TRUE /\ entries = <<>> /\ leaf = [l \in {"main"} |-> 0]
    /\ branches = <<>> /\ call = NoCall /\ dest = NoDest
    /\ used = [moves |-> 0, repairs |-> 0, branches |-> 0]

Write ==
    \/ \E l \in Lanes, t \in Types : appendEntry(l, t)
    \/ \E l \in Lanes, e \in 0..MaxEntries : setLane(l, e)
    \/ repairBranchCache \/ delete
Read == \/ \E e \in Rows : readCachedBranch(e)
        \/ findEntriesOnBranch
Fork ==
    \/ forkTree \/ readLanes \/ readTips
    \/ \E e \in 0..MaxEntries, before \in BOOLEAN : forkBranch(e, before)
    \/ lookUpBranch \/ readBranchRows \/ insertFork

Next == Write \/ Read \/ Fork

Spec == Init /\ [][Next]_vars

-----------------------------------------------------------------------------
(* Properties. *)

\* A scan of the cache gives what a walk along the parent links gives, for
\* every combination of order, stop, filter, cursor and limit
\* (queryCachedBranchRows against SessionState.findEntriesOnBranch), also when
\* other writers have extended, split or copied the branch since it was looked
\* up, and the validation never refuses it; every entry can be looked up. A
\* repair or delete between the lookup and the query is excepted.
QueriesAgree ==
    /\ \A e \in Rows : Containing(e) # {}
    /\ call.pc = "query" /\ ~ call.stale => \A q \in Queries :
          LET rows == queryCachedBranchRows(q) IN
          rows = walked(q, call.start) /\ validateCachedBranchRows(q, rows)

\* fork() reads the entries, lanes and tips of its source in separate
\* statements while others write, and still creates a session that works or
\* none: its main lane exists, every leaf and every parent is among its
\* entries, and every entry is on a cached branch, which is its path to the
\* root. A delete or repair of the source between the statements is excepted.
ForkIsWhole ==
    dest.made /\ ~ dest.stale =>
        /\ "main" \in DOMAIN dest.lanes
        /\ \A l \in DOMAIN dest.lanes : dest.lanes[l] \in dest.ids \cup {0}
        /\ \A e \in dest.ids :
              /\ entries[e].parent \in dest.ids \cup {0}
              /\ \E p \in dest.paths : e \in p
        /\ \A p \in dest.paths, e \in dest.ids :
              e \in p => {x \in p : x <= e} = Path(e)
=============================================================================
