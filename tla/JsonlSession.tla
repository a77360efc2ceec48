---------------------------- MODULE JsonlSession ----------------------------
(***************************************************************************)
(* One session of the JSONL backend                                        *)
(* (packages/agent/src/harness/session/jsonl, with the SessionState of     *)
(* ../state.ts): a header line and one line per mutation.  A storage       *)
(* appends a line, waits for the file system, and applies the mutation to  *)
(* the state in memory; load replays the file and repairs its tail.  The   *)
(* process may die between any two steps, also within an append.           *)
(*                                                                         *)
(* A line is what a reader can make of it: the header, one mutation, or    *)
(* Garbage, which is any text that is no JSON value (a torn line, two      *)
(* texts run together, nothing at all).                                    *)
(***************************************************************************)
EXTENDS Naturals, Sequences, SequencesExt, FiniteSets

CONSTANTS
    Lanes,        \* lane names; "main" is the one every session starts with
    MaxMutations, \* mutations begun, over all processes
    MaxForks      \* forks published

ASSUME JsonlAssumption ==
    /\ "main" \in Lanes
    /\ MaxMutations \in Nat /\ MaxForks \in Nat

VARIABLES
    file,     \* the lines of the session file; <<>> when there is none
    mem,      \* the live storage: whether there is one, and its SessionState
    writing,  \* the append the storage is waiting for
    loader,   \* the load that has read the file and is not done with it
    fork,     \* the mutations a fork is writing to its temporary file
    dest,     \* the file of the last fork
    acked,    \* history: the mutations callers were told of or have seen
    upset,    \* history: what but a crash has touched the file since it was
              \* loaded, or "past" when something did before that
    issued,   \* counters
    forks

vars == <<file, mem, writing, loader, fork, dest, acked, upset, issued, forks>>

NoLane == "none"
Absent == MaxMutations + 1
Kinds == {"entry", "lane", "started", "finished", "fact", "unset"}
Mutation == [seq : Nat, id : 0..MaxMutations, kind : Kinds,
             lane : Lanes \cup {NoLane}, ref : 0..MaxMutations]
Line(text, ended) == [text |-> text, ended |-> ended]
Header  == [kind |-> "header"]
Garbage == [kind |-> "garbage"]

Closed == [open |-> FALSE, log |-> <<>>]
NoWrite == [phase |-> "none", mutation |-> Garbage, glued |-> FALSE]
NoLoad == [for |-> "none", content |-> <<>>]

-----------------------------------------------------------------------------
(* SessionState, as the sequence of the mutations applied to it.           *)

Ids(log, kinds) == {log[i].id : i \in {j \in DOMAIN log : log[j].kind \in kinds}}
Entries(log) == Ids(log, {"entry"})

(* lanes: the leaf of a lane is what its last entry or move made it. *)
Moves(log, l) == {i \in DOMAIN log : log[i].lane = l /\ log[i].kind \in {"entry", "lane"}}
Leaf(log, l) ==
    IF Moves(log, l) = {} THEN IF l = "main" THEN 0 ELSE Absent
    ELSE LET m == log[CHOOSE i \in Moves(log, l) : \A j \in Moves(log, l) : j <= i]
         IN IF m.kind = "entry" THEN m.id ELSE m.ref

OpenOperations(log, l) ==
    {log[i].id : i \in {j \in DOMAIN log : log[j].kind = "started" /\ log[j].lane = l}}
    \ {log[i].ref : i \in {j \in DOMAIN log : log[j].kind = "finished" /\ log[j].lane = l}}

(* applyMutation accepts the mutation. *)
Valid(log, m) ==
    /\ m.seq = Len(log) + 1
    /\ m.kind \in {"entry", "started", "finished"} =>
         m.id \notin Ids(log, {"entry", "started", "finished"})
    /\ m.kind = "entry" /\ m.lane # NoLane => m.ref = Leaf(log, m.lane)
    /\ m.kind \in {"started", "finished"} => Leaf(log, m.lane) # Absent
    /\ m.kind \in {"entry", "lane", "fact", "unset"} /\ m.ref # 0 => m.ref \in Entries(log)

-----------------------------------------------------------------------------
(* The mutations the storage makes: createLane, moveLane, appendEntry,     *)
(* appendRecord, setName and setLabel, after their validation.             *)

New(log, kind, l, ref) ==
    [seq |-> Len(log) + 1, id |-> issued + 1, kind |-> kind, lane |-> l, ref |-> ref]

createLane(log) ==
    {New(log, "lane", l, at) : l \in {x \in Lanes : Leaf(log, x) = Absent},
                               at \in Entries(log) \cup {0}}
moveLane(log) ==
    {New(log, "lane", l, to) : l \in {x \in Lanes : Leaf(log, x) # Absent},
                               to \in Entries(log) \cup {0}}
Mutant_EntryOnAnyLane(log) == {New(log, "entry", l, Leaf(log, l)) : l \in Lanes}
appendEntry(log) ==
    {New(log, "entry", l, Leaf(log, l)) : l \in {x \in Lanes : Leaf(log, x) # Absent}}

appendStarted(log) ==
    {New(log, "started", l, 0) :
        l \in {x \in Lanes : Leaf(log, x) # Absent /\ OpenOperations(log, x) = {}}}
appendFinished(log) ==
    UNION {{New(log, "finished", l, run) : run \in Ids(log, {"started"})} :
              l \in {x \in Lanes : Leaf(log, x) # Absent}}

setNameOrLabel(log) ==
    {New(log, kind, NoLane, target) : kind \in {"fact", "unset"},
                                      target \in Entries(log) \cup {0}}

Operations(log) ==
    createLane(log) \cup moveLane(log) \cup appendEntry(log) \cup appendStarted(log)
    \cup appendFinished(log) \cup setNameOrLabel(log)

-----------------------------------------------------------------------------
(* The file.  Text written behind an unterminated line runs into it.       *)

Unterminated(f) == f # <<>> /\ ~Last(f).ended
Written(f, text, ended) ==
    IF Unterminated(f) THEN Append(Front(f), Line(Garbage, ended))
                       ELSE Append(f, Line(text, ended))

(* A newline behind a terminated line makes an empty one. *)
NewlineAppended(f) ==
    IF Unterminated(f) THEN Append(Front(f), Line(Last(f).text, TRUE))
                       ELSE Append(f, Line(Garbage, TRUE))

(* load: every line after the header must parse and apply, except that a   *)
(* last line that does not parse is the torn tail and is dropped.          *)
TornTail(f) == Len(f) > 1 /\ Last(f).text = Garbage
Parsed(f) == IF TornTail(f) THEN Front(f) ELSE f
Recovered(f) == [i \in 1..(Len(Parsed(f)) - 1) |-> f[i + 1].text]
Loadable(f) ==
    /\ f # <<>> /\ f[1].text = Header
    /\ \A i \in DOMAIN Recovered(f) :
         /\ Recovered(f)[i].kind \in Kinds
         /\ Valid(SubSeq(Recovered(f), 1, i - 1), Recovered(f)[i])

Mutant_TailKept(f, read) == IF TornTail(read) \/ ~Unterminated(read) THEN f ELSE NewlineAppended(f)
Mutant_NotTerminated(f, read) == IF TornTail(read) THEN Parsed(read) ELSE f
(* The repair of what was read: the valid prefix is published by a rename, *)
(* or the missing newline is appended.                                     *)
Repaired(f, read) ==
    IF TornTail(read) THEN Parsed(read)
    ELSE IF Unterminated(read) THEN NewlineAppended(f) ELSE f

-----------------------------------------------------------------------------
(* createForkMutations: the entries of the tree or of one branch, oldest   *)
(* first, the lanes, the name and the labels, numbered afresh.             *)

EntryOf(log, id) == CHOOSE m \in Range(log) : m.kind = "entry" /\ m.id = id

(* walkToRoot: the target and its ancestors, the smallest set of entries   *)
(* that has the parents of all its members.                                *)
Branch(log, target) ==
    {id \in Entries(log) : \A S \in SUBSET Entries(log) :
        target \in S \cup {0} /\ (\A e \in S : EntryOf(log, e).ref \in S \cup {0})
            => id \in S}

(* The name (target 0) or the label of an entry has a value. *)
HasValue(log, target) ==
    LET facts == {i \in DOMAIN log : log[i].kind \in {"fact", "unset"} /\ log[i].ref = target}
    IN facts # {} /\ log[CHOOSE i \in facts : \A j \in facts : j <= i].kind = "fact"

(* The entries with these ids, oldest first. *)
Copied(log, ids) ==
    LET P == {i \in DOMAIN log : log[i].kind = "entry" /\ log[i].id \in ids}
    IN [n \in 1..Cardinality(P) |->
            log[CHOOSE i \in P : Cardinality({j \in P : j <= i}) = n]]

Numbered(muts) == [i \in DOMAIN muts |-> [muts[i] EXCEPT !.seq = i]]

Pointer(l, leaf) == [seq |-> 0, id |-> 0, kind |-> "lane", lane |-> l, ref |-> leaf]
Fact(target) == [seq |-> 0, id |-> 0, kind |-> "fact", lane |-> NoLane, ref |-> target]

Mutant_ForkNewestFirst(log, ids, leaves) ==
    LET entries == Reverse(Copied(log, ids))
    IN Numbered([i \in DOMAIN entries |-> [entries[i] EXCEPT !.lane = NoLane]]
                \o SetToSeq({Pointer(l, leaves[l]) : l \in DOMAIN leaves}))
createForkMutations(log, ids, leaves) ==
    LET entries == Copied(log, ids)
    IN Numbered([i \in DOMAIN entries |-> [entries[i] EXCEPT !.lane = NoLane]]
                \o SetToSeq({Pointer(l, leaves[l]) : l \in DOMAIN leaves})
                \o SetToSeq({Fact(t) : t \in {x \in {0} \cup ids : HasValue(log, x)}}))

ForkOptions(log) ==
    {createForkMutations(log, Entries(log),
        [l \in {x \in Lanes : Leaf(log, x) # Absent} |-> Leaf(log, l)])}
    \cup {createForkMutations(log, Branch(log, t), [l \in {"main"} |-> t]) :
            t \in Entries(log) \cup {0}}

-----------------------------------------------------------------------------
(* The repository and the storage.                                         *)

create ==
    /\ file = <<>> /\ loader = NoLoad
    /\ \/ file' = <<Line(Header, TRUE)>> /\ mem' = [open |-> TRUE, log |-> <<>>]
       \/ \E text \in {Header, Garbage} :   \* the process dies within the write
            file' = <<Line(text, FALSE)>> /\ UNCHANGED mem
    /\ UNCHANGED <<writing, loader, fork, dest, acked, upset, issued, forks>>

(* enqueue: one operation at a time; it makes its mutation from the state. *)
enqueue ==
    /\ mem.open /\ writing = NoWrite
    /\ issued < MaxMutations
    /\ \E m \in Operations(mem.log) :
         writing' = [phase |-> "begun", mutation |-> m, glued |-> FALSE]
    /\ issued' = issued + 1
    /\ UNCHANGED <<file, mem, loader, fork, dest, acked, upset, forks>>

(* A part of the line has reached the file: some of it, or all but the     *)
(* newline.                                                                *)
appendPart ==
    /\ writing.phase = "begun"
    /\ \E text \in {Garbage, writing.mutation} : file' = Written(file, text, FALSE)
    /\ writing' = [writing EXCEPT !.phase = "partly", !.glued = Unterminated(file)]
    /\ UNCHANGED <<mem, loader, fork, dest, acked, upset, issued, forks>>

(* The line the open append ends up in.  A "detached" one goes to a file   *)
(* that a rename has replaced meanwhile.                                   *)
Completed ==
    CASE writing.phase = "begun" -> Written(file, writing.mutation, TRUE)
      [] writing.phase = "detached" -> file
      [] writing.phase = "partly" /\ Unterminated(file) ->
           Append(Front(file), Line(IF writing.glued THEN Garbage ELSE writing.mutation, TRUE))
      [] OTHER -> Append(file, Line(Garbage, TRUE))

(* appendMutation returns, and the mutation is applied and acknowledged. *)
appendMutation ==
    /\ writing # NoWrite
    /\ file' = Completed
    /\ mem' = [mem EXCEPT !.log = Append(@, writing.mutation)]
    /\ acked' = Append(acked, writing.mutation)
    /\ writing' = NoWrite
    /\ UNCHANGED <<loader, fork, dest, upset, issued, forks>>

(* The file system reports an error, and the operation rejects: the state  *)
(* stays, and so does what was written.                                    *)
appendFails ==
    /\ writing # NoWrite
    /\ writing' = NoWrite
    /\ upset' = IF writing.phase = "begun" THEN upset ELSE upset \cup {"append"}
    /\ UNCHANGED <<file, mem, loader, fork, dest, acked, issued, forks>>

(* load, from open() or from fork(): first it reads the file ... *)
load(for) ==
    /\ loader = NoLoad /\ file # <<>> /\ fork = <<>>
    /\ for = "open" => ~mem.open
    /\ for = "fork" => forks < MaxForks
    /\ loader' = [for |-> for, content |-> file]
    /\ UNCHANGED <<file, mem, writing, fork, dest, acked, upset, issued, forks>>

(* ... then it replays and repairs it. *)
loaded ==
    /\ loader # NoLoad
    /\ Loadable(loader.content)
    /\ LET read == loader.content IN
       /\ file' = Repaired(file, read)
       /\ writing' = IF TornTail(read) /\ writing.phase = "partly"
                     THEN [writing EXCEPT !.phase = "detached"] ELSE writing
       /\ \/ /\ loader.for = "open"
             /\ mem' = [open |-> TRUE, log |-> Recovered(read)]
             /\ acked' = Recovered(read)
             /\ upset' = IF upset = {} THEN {} ELSE {"past"}
             /\ UNCHANGED fork
          \/ /\ loader.for = "fork"
             /\ fork' \in ForkOptions(Recovered(read))
             /\ upset' = IF mem.open /\ (TornTail(read) \/ Unterminated(read))
                         THEN upset \cup {"fork"} ELSE upset
             /\ UNCHANGED <<mem, acked>>
    /\ loader' = NoLoad
    /\ UNCHANGED <<dest, issued, forks>>

(* The file is invalid, or the repair cannot be published. *)
loadFails ==
    /\ loader # NoLoad
    /\ \/ ~Loadable(loader.content)
       \/ TornTail(loader.content) \/ Unterminated(loader.content)
    /\ loader' = NoLoad
    /\ UNCHANGED <<file, mem, writing, fork, dest, acked, upset, issued, forks>>

(* The fork is complete in its temporary file and renamed to its place, or *)
(* its writing fails and the temporary file is removed.                    *)
publishFileAtomically ==
    /\ fork # <<>>
    /\ fork' = <<>>
    /\ \/ /\ dest' = <<Line(Header, TRUE)>> \o [i \in DOMAIN fork |-> Line(fork[i], TRUE)]
          /\ forks' = forks + 1
       \/ UNCHANGED <<dest, forks>>
    /\ UNCHANGED <<file, mem, writing, loader, acked, upset, issued>>

delete ==
    /\ ~mem.open /\ loader = NoLoad /\ file # <<>>
    /\ file' = <<>> /\ acked' = <<>> /\ upset' = {}
    /\ UNCHANGED <<mem, writing, loader, fork, dest, issued, forks>>

(* The process dies: what is in memory is gone, an append stays as it is,  *)
(* a temporary file is never looked at again.                              *)
crash ==
    /\ mem' = Closed /\ writing' = NoWrite /\ loader' = NoLoad /\ fork' = <<>>
    /\ UNCHANGED <<file, dest, acked, upset, issued, forks>>

-----------------------------------------------------------------------------
Init ==
    /\ file = <<>> /\ mem = Closed /\ writing = NoWrite /\ loader = NoLoad
    /\ fork = <<>> /\ dest = <<>> /\ acked = <<>> /\ upset = {} /\ issued = 0 /\ forks = 0

Next ==
    \/ create \/ enqueue \/ appendPart \/ appendMutation \/ appendFails
    \/ load("open") \/ load("fork") \/ loaded \/ loadFails
    \/ publishFileAtomically \/ delete \/ crash

Spec == Init /\ [][Next]_vars

-----------------------------------------------------------------------------
(* Properties *)

Lines == [text : Mutation \cup {Header, Garbage}, ended : BOOLEAN]

\* Every variable stays in its type.
TypeOK ==
    /\ file \in Seq(Lines) /\ dest \in Seq(Lines)
    /\ mem \in [open : BOOLEAN, log : Seq(Mutation)]
    /\ writing \in [phase : {"none", "begun", "partly", "detached"},
                    mutation : Mutation \cup {Garbage}, glued : BOOLEAN]
    /\ loader \in [for : {"none", "open", "fork"}, content : Seq(Lines)]
    /\ fork \in Seq(Mutation) /\ acked \in Seq(Mutation)
    /\ upset \subseteq {"append", "fork", "past"}
    /\ issued \in 0..MaxMutations /\ forks \in 0..MaxForks

(* The file gives back what was acknowledged, and at most the mutation     *)
(* that was being appended besides.                                        *)
Durable ==
    acked # <<>> =>
        /\ Loadable(file)
        /\ IsPrefix(acked, Recovered(file))
        /\ Len(Recovered(file)) <= Len(acked) + 1

\* What was acknowledged survives the death of the process, wherever it
\* strikes, in an append or in the repair of an earlier one: at every moment
\* the file loads and gives back all mutations callers were told of, in order.
\* Live forks are harmless as long as they find no append half done.
CrashesAreHarmless == upset \subseteq {"past"} => Durable

\* The storage is a log of accepted mutations: over torn appends, repairs, loads
\* and forks a line that a reader could have seen never goes away again, no
\* number is used twice, and no second mutation is stored behind one that
\* nobody was told of. A failed append, or a live fork that meets one half done,
\* ends the promise until the next load.
Log == INSTANCE SessionLog WITH
    log <- IF Loadable(file) THEN Range(Recovered(file)) ELSE {},
    acked <- Range(acked),
    intact <- upset \subseteq {"past"}
ImplementsLog == Log!Spec

\* While no append is open, the state in memory is what the file holds: the
\* tail of an earlier crash is out of the way of the next append.
MemoryMirrorsFile ==
    mem.open /\ writing = NoWrite /\ upset \subseteq {"past"} =>
        Loadable(file) /\ Recovered(file) = mem.log /\ ~TornTail(file)

\* An append that failed loses nothing either: only the unacknowledged part of
\* a line is ever dropped.
FailedAppendsAreHarmless == "fork" \notin upset => Durable

\* A published fork is whole: it loads without repair, with every parent of
\* an entry, every leaf of a lane and every labelled entry among its entries.
ForkReplays ==
    dest # <<>> => /\ Loadable(dest) /\ ~TornTail(dest)
                   /\ \A l \in Lanes : Leaf(Recovered(dest), l) \in
                          {0, Absent} \cup Entries(Recovered(dest))

=============================================================================
