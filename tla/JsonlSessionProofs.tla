------------------------- MODULE JsonlSessionProofs -------------------------
(***************************************************************************)
(* Proofs about JsonlSession, for every set of lanes and any number of     *)
(* mutations and forks: what was acknowledged is in the file whenever the  *)
(* process dies, and a fork is whole.                                      *)
(***************************************************************************)
EXTENDS JsonlSession, FiniteSetTheorems, SequenceTheorems, WellFoundedInduction, TLAPS

-----------------------------------------------------------------------------
(* The inductive invariant *)

\* A log that SessionState accepted, and the file that holds it and no more.
ValidLog(log) ==
    /\ log \in Seq(Mutation)
    /\ \A i \in 1..Len(log) : Valid(SubSeq(log, 1, i - 1), log[i])
CleanFile(log) ==
    [i \in 1..(Len(log) + 1) |-> IF i = 1 THEN Line(Header, TRUE) ELSE Line(log[i - 1], TRUE)]

\* Only the last line of a file may be unterminated.
Ended(f) == \A i \in 1..Len(f) : i # Len(f) => f[i].ended

\* The storage and the repository: only the last line may be unterminated, what
\* is in memory is what callers were told, the mutation being appended fits it,
\* and a file without a storage does not change under a loader.
StorageInv ==
    /\ Ended(file) /\ Ended(loader.content)
    /\ file = <<>> => ~ mem.open /\ acked = <<>>
    /\ mem.open => ValidLog(mem.log) /\ acked = mem.log
    /\ writing.phase = "none" => writing = NoWrite
    /\ writing # NoWrite =>
         /\ mem.open /\ writing.mutation \in Mutation
         /\ Valid(mem.log, writing.mutation)
    /\ loader.for = "none" => loader = NoLoad
    /\ loader.for = "open" => ~ mem.open
    /\ loader # NoLoad /\ ~ mem.open => loader.content = file

\* No identifier is from the future.
Known == {t \in Mutation \cup {Header, Garbage} : t \in Mutation => t.id <= issued}
TextsIn(f, T) == \A i \in 1..Len(f) : f[i].text \in T
IdsInv ==
    /\ TextsIn(file, Known) /\ TextsIn(loader.content, Known)
    /\ \A i \in 1..Len(mem.log) : mem.log[i] \in Known
    /\ writing.mutation \in Known

\* One fork at a time; what it writes is a log, and what it wrote a file that
\* needs no repair.
ForkInv ==
    /\ loader # NoLoad => fork = <<>>
    /\ loader.for = "fork" \/ fork # <<>> => forks < MaxForks
    /\ ValidLog(fork)
    /\ dest # <<>> => ValidLog(Recovered(dest)) /\ dest = CleanFile(Recovered(dest))

\* Under a storage the file is what is in memory, and the line being appended,
\* as far as it got; without one it is what the last storage left.
Mirrored ==
    \/ writing.phase \in {"none", "begun"} /\ file = CleanFile(mem.log)
    \/ /\ writing.phase = "partly" /\ ~ writing.glued
       /\ \E text \in {Garbage, writing.mutation} :
            file = Append(CleanFile(mem.log), Line(text, FALSE))
Kept ==
    /\ acked # <<>> => Loadable(file)
    /\ Loadable(file) => /\ IsPrefix(acked, Recovered(file))
                         /\ Len(Recovered(file)) <= Len(acked) + 1
FileInv ==
    upset \subseteq {"past"} => /\ mem.open => Mirrored
                                /\ ~ mem.open => Kept

IInv == TypeOK /\ StorageInv /\ IdsInv /\ ForkInv /\ FileInv

-----------------------------------------------------------------------------
(* Texts and lines *)

\* A mutation is neither the header nor garbage, and these two differ.
LEMMA TextsDiffer ==
    /\ \A m \in Mutation : m.kind \in Kinds /\ m # Header /\ m # Garbage
    /\ Header # Garbage /\ Header.kind \notin Kinds /\ Garbage.kind \notin Kinds
  <1>1. Header.kind = "header" /\ Garbage.kind = "garbage"
    BY DEF Header, Garbage
  <1>2. \A m \in Mutation : m.kind \in Kinds
    BY DEF Mutation
  <1>3. "header" \notin Kinds /\ "garbage" \notin Kinds
    BY DEF Kinds
  <1> QED
    BY <1>1, <1>2, <1>3

\* The fields of a line.
LEMMA LineIs ==
    /\ \A text, ended : Line(text, ended).text = text /\ Line(text, ended).ended = ended
    /\ \A text \in Mutation \cup {Header, Garbage} : \A ended \in BOOLEAN : Line(text, ended) \in Lines
    /\ \A x \in Lines : x = Line(x.text, x.ended)
  BY DEF Line, Lines

\* The first n elements of a sequence.
LEMMA PrefixIs ==
    ASSUME NEW S, NEW s \in Seq(S), NEW n \in 0..Len(s)
    PROVE  /\ SubSeq(s, 1, n) \in Seq(S) /\ Len(SubSeq(s, 1, n)) = n
           /\ \A i \in 1..n : SubSeq(s, 1, n)[i] = s[i]
  <1>1. Len(s) \in Nat
    OBVIOUS
  <1> QED
    BY <1>1

\* All but the last element.
LEMMA FrontIs ==
    ASSUME NEW S, NEW s \in Seq(S), s # <<>>
    PROVE  /\ Len(s) \in Nat \ {0} /\ Last(s) = s[Len(s)] /\ Last(s) \in S
           /\ Front(s) \in Seq(S) /\ Len(Front(s)) = Len(s) - 1
           /\ \A i \in 1..(Len(s) - 1) : Front(s)[i] = s[i]
  <1>1. Len(s) \in Nat \ {0}
    BY EmptySeq
  <1>2. Len(s) - 1 \in 0..Len(s) /\ Len(s) \in 1..Len(s)
    BY <1>1
  <1>3. Front(s) \in Seq(S) /\ Len(Front(s)) = Len(s) - 1 /\ \A i \in 1..(Len(s) - 1) : Front(s)[i] = s[i]
    BY <1>2, PrefixIs DEF Front
  <1>4. Last(s) \in S
    BY <1>2 DEF Last
  <1> QED
    BY <1>1, <1>3, <1>4 DEF Last

\* Equal prefixes, element by element.
LEMMA PrefixEqual ==
    ASSUME NEW S, NEW s \in Seq(S), NEW t \in Seq(S)
    PROVE  IsPrefix(s, t) <=> Len(s) <= Len(t) /\ \A i \in 1..Len(s) : s[i] = t[i]
  <1>1. Len(s) \in Nat /\ Len(t) \in Nat
    OBVIOUS
  <1>2. Len(s) <= Len(t) => Len(s) \in 0..Len(s) /\ Len(s) \in 0..Len(t)
    BY <1>1
  <1>3. ASSUME Len(s) <= Len(t)
        PROVE  SubSeq(s, 1, Len(s)) = SubSeq(t, 1, Len(s)) <=> \A i \in 1..Len(s) : s[i] = t[i]
    <2>1. PICK u, v : u = SubSeq(s, 1, Len(s)) /\ v = SubSeq(t, 1, Len(s))
      OBVIOUS
    <2>2. /\ u \in Seq(S) /\ Len(u) = Len(s) /\ \A i \in 1..Len(s) : u[i] = s[i]
          /\ v \in Seq(S) /\ Len(v) = Len(s) /\ \A i \in 1..Len(s) : v[i] = t[i]
      BY <1>2, <1>3, <2>1, PrefixIs
    <2>3. u = v <=> \A i \in 1..Len(s) : u[i] = v[i]
      BY <2>2, SeqEqual
    <2> QED
      BY <2>1, <2>2, <2>3
  <1> QED
    BY <1>3 DEF IsPrefix

-----------------------------------------------------------------------------
(* Files *)

\* What load makes of the lines behind the header.
LEMMA RecoveredIs ==
    ASSUME NEW f \in Seq(Lines), f # <<>>
    PROVE  /\ Len(f) \in Nat \ {0}
           /\ TornTail(f) <=> Len(f) > 1 /\ f[Len(f)].text = Garbage
           /\ Unterminated(f) <=> ~ f[Len(f)].ended
           /\ TornTail(f) => DOMAIN Recovered(f) = 1..(Len(f) - 2)
           /\ ~ TornTail(f) => DOMAIN Recovered(f) = 1..(Len(f) - 1)
           /\ \A i \in DOMAIN Recovered(f) : Recovered(f)[i] = f[i + 1].text /\ i + 1 \in 1..Len(f)
  <1>1. /\ Len(f) \in Nat \ {0} /\ Last(f) = f[Len(f)]
        /\ Len(Front(f)) = Len(f) - 1
    BY FrontIs
  <1>2. TornTail(f) <=> Len(f) > 1 /\ f[Len(f)].text = Garbage
    BY <1>1 DEF TornTail
  <1>3. Unterminated(f) <=> ~ f[Len(f)].ended
    BY <1>1 DEF Unterminated
  <1>4. TornTail(f) => Len(Parsed(f)) - 1 = Len(f) - 2
    BY <1>1 DEF Parsed
  <1>5. ~ TornTail(f) => Len(Parsed(f)) - 1 = Len(f) - 1
    BY <1>1 DEF Parsed
  <1>6. DOMAIN Recovered(f) = 1..(Len(Parsed(f)) - 1)
    BY DEF Recovered
  <1>7. \A i \in DOMAIN Recovered(f) : Recovered(f)[i] = f[i + 1].text
    BY <1>6 DEF Recovered
  <1>8. ASSUME NEW i \in DOMAIN Recovered(f) PROVE i + 1 \in 1..Len(f)
    <2>1. i \in 1..(Len(f) - 1) \/ i \in 1..(Len(f) - 2)
      BY <1>4, <1>5, <1>6, <1>8
    <2> QED
      BY <1>1, <2>1
  <1> QED
    BY <1>1, <1>2, <1>3, <1>4, <1>5, <1>6, <1>7, <1>8

\* A file that loads has a log that was accepted.
LEMMA LoadableIs ==
    ASSUME NEW f \in Seq(Lines), Loadable(f)
    PROVE  /\ f # <<>> /\ f[1].text = Header
           /\ ValidLog(Recovered(f))
           /\ TornTail(f) => Len(Recovered(f)) = Len(f) - 2
           /\ ~ TornTail(f) => Len(Recovered(f)) = Len(f) - 1
  <1>1. /\ f # <<>> /\ f[1].text = Header
        /\ \A i \in DOMAIN Recovered(f) : /\ Recovered(f)[i].kind \in Kinds
                                          /\ Valid(SubSeq(Recovered(f), 1, i - 1), Recovered(f)[i])
    BY DEF Loadable
  <1>2. PICK r : r = Recovered(f)
    OBVIOUS
  <1>3. /\ Len(f) \in Nat \ {0}
        /\ TornTail(f) => Len(f) > 1 /\ DOMAIN r = 1..(Len(f) - 2)
        /\ ~ TornTail(f) => DOMAIN r = 1..(Len(f) - 1)
        /\ \A i \in DOMAIN r : r[i] = f[i + 1].text /\ i + 1 \in 1..Len(f)
    BY <1>1, <1>2, RecoveredIs
  <1>4. ASSUME NEW i \in DOMAIN r PROVE r[i] \in Mutation
    <2>1. f[i + 1] \in Lines
      BY <1>3
    <2>2. r[i] \in Mutation \cup {Header, Garbage}
      BY <1>3, <2>1 DEF Lines
    <2>3. r[i].kind \in Kinds
      BY <1>1, <1>2
    <2> QED
      BY <2>2, <2>3, TextsDiffer
  <1>5. PICK n \in Nat : /\ DOMAIN r = 1..n
                         /\ TornTail(f) => n = Len(f) - 2
                         /\ ~ TornTail(f) => n = Len(f) - 1
    <2>1. Len(f) - 1 \in Nat /\ (Len(f) > 1 => Len(f) - 2 \in Nat)
      BY <1>3
    <2> QED
      BY <1>3, <2>1
  <1>6. r = [i \in DOMAIN r |-> r[i]]
    <2>1. r = [i \in 1..(Len(Parsed(f)) - 1) |-> f[i + 1].text]
      BY <1>2 DEF Recovered
    <2> QED
      BY <2>1
  <1>7. r \in Seq(Mutation) /\ Len(r) = n
    <2>1. r \in [1..n -> Mutation]
      BY <1>4, <1>5, <1>6
    <2> QED
      BY <2>1
  <1>8. ValidLog(r)
    BY <1>1, <1>2, <1>5, <1>7 DEF ValidLog
  <1> QED
    BY <1>1, <1>2, <1>5, <1>7, <1>8

\* The lines of a clean file.
LEMMA CleanIs ==
    ASSUME NEW log \in Seq(Mutation)
    PROVE  /\ CleanFile(log) \in Seq(Lines) /\ CleanFile(log) # <<>>
           /\ Len(log) \in Nat /\ Len(CleanFile(log)) = Len(log) + 1
           /\ CleanFile(log)[1] = Line(Header, TRUE)
           /\ \A i \in 1..Len(log) : CleanFile(log)[i + 1] = Line(log[i], TRUE)
  <1>1. Len(log) \in Nat /\ \A i \in 1..Len(log) : log[i] \in Mutation
    OBVIOUS
  <1>2. PICK n \in Nat : n = Len(log)
    BY <1>1
  <1>3. PICK c : c = CleanFile(log)
    OBVIOUS
  <1>4. c = [i \in 1..(n + 1) |-> IF i = 1 THEN Line(Header, TRUE) ELSE Line(log[i - 1], TRUE)]
    BY <1>2, <1>3 DEF CleanFile
  <1>5. ASSUME NEW i \in 1..(n + 1) PROVE c[i] \in Lines
    <2>1. CASE i = 1
      BY <1>4, <2>1, LineIs
    <2>2. CASE i # 1
      <3>1. i - 1 \in 1..n
        BY <1>2, <2>2
      <3>2. c[i] = Line(log[i - 1], TRUE)
        BY <1>4, <2>2
      <3> QED
        BY <1>1, <1>2, <3>1, <3>2, LineIs
    <2> QED
      BY <2>1, <2>2
  <1>6. c \in Seq(Lines) /\ Len(c) = n + 1
    <2>1. PICK k \in Nat : k = n + 1
      OBVIOUS
    <2>2. DOMAIN c = 1..k /\ c = [i \in DOMAIN c |-> c[i]]
      BY <1>4, <2>1, Zenon
    <2>3. c \in [1..k -> Lines]
      BY <1>5, <2>1, <2>2
    <2> QED
      BY <2>1, <2>3
  <1>7. c[1] = Line(Header, TRUE)
    <2>1. 1 \in 1..(n + 1)
      OBVIOUS
    <2> QED
      BY <1>4, <2>1
  <1>8. ASSUME NEW i \in 1..n PROVE c[i + 1] = Line(log[i], TRUE)
    <2>1. i + 1 \in 1..(n + 1) /\ i + 1 # 1 /\ (i + 1) - 1 = i
      OBVIOUS
    <2> QED
      BY <1>4, <2>1
  <1>9. c # <<>>
    BY <1>6, EmptySeq
  <1> QED
    BY <1>2, <1>3, <1>6, <1>7, <1>8, <1>9

\* When a file loads, and what it gives back.
LEMMA LoadsWhen ==
    ASSUME NEW f \in Seq(Lines), f # <<>>, f[1].text = Header,
           NEW r, ValidLog(r),
           \/ TornTail(f) /\ Len(f) = Len(r) + 2
           \/ ~ TornTail(f) /\ Len(f) = Len(r) + 1,
           \A i \in 1..Len(r) : f[i + 1].text = r[i]
    PROVE  Loadable(f) /\ Recovered(f) = r
  <1>1. r \in Seq(Mutation) /\ \A i \in 1..Len(r) : Valid(SubSeq(r, 1, i - 1), r[i])
    BY DEF ValidLog
  <1>2. Len(r) \in Nat /\ DOMAIN r = 1..Len(r) /\ r = [i \in 1..Len(r) |-> r[i]]
    BY <1>1
  <1>3. PICK q : q = Recovered(f)
    OBVIOUS
  <1>4. /\ Len(f) \in Nat
        /\ TornTail(f) => DOMAIN q = 1..(Len(f) - 2)
        /\ ~ TornTail(f) => DOMAIN q = 1..(Len(f) - 1)
        /\ \A i \in DOMAIN q : q[i] = f[i + 1].text
    BY <1>3, RecoveredIs
  <1>5. DOMAIN q = 1..Len(r)
    <2>1. Len(r) + 2 - 2 = Len(r) /\ Len(r) + 1 - 1 = Len(r)
      BY <1>2
    <2> QED
      BY <1>4, <2>1
  <1>6. q = [i \in DOMAIN q |-> q[i]]
    BY <1>3 DEF Recovered
  <1>7. \A i \in 1..Len(r) : q[i] = r[i]
    BY <1>4, <1>5
  <1>8. q = r
    BY <1>2, <1>5, <1>6, <1>7, Zenon
  <1>9. \A i \in 1..Len(r) : r[i] \in Mutation
    BY <1>1
  <1>10. \A i \in DOMAIN Recovered(f) : /\ Recovered(f)[i].kind \in Kinds
                                        /\ Valid(SubSeq(Recovered(f), 1, i - 1), Recovered(f)[i])
    BY <1>1, <1>3, <1>5, <1>8, <1>9, TextsDiffer
  <1> QED
    BY <1>3, <1>8, <1>10 DEF Loadable

\* A clean file gives back its log, and needs no repair.
LEMMA CleanLoads ==
    ASSUME NEW log, ValidLog(log)
    PROVE  /\ Loadable(CleanFile(log)) /\ Recovered(CleanFile(log)) = log
           /\ ~ TornTail(CleanFile(log)) /\ ~ Unterminated(CleanFile(log))
  <1>1. log \in Seq(Mutation)
    BY DEF ValidLog
  <1>2. PICK c : c = CleanFile(log)
    OBVIOUS
  <1>3. /\ c \in Seq(Lines) /\ c # <<>> /\ Len(log) \in Nat /\ Len(c) = Len(log) + 1
        /\ c[1] = Line(Header, TRUE)
        /\ \A i \in 1..Len(log) : c[i + 1] = Line(log[i], TRUE)
    BY <1>1, <1>2, CleanIs
  <1>4. \A i \in 1..Len(log) : log[i] \in Mutation
    BY <1>1
  <1>5. c[Len(c)].ended /\ (Len(c) > 1 => c[Len(c)].text # Garbage)
    <2>1. CASE Len(log) = 0
      <3>1. Len(c) = 1
        BY <1>3, <2>1
      <3>2. c[1].ended
        BY <1>3, LineIs, Zenon
      <3> QED
        BY <3>1, <3>2
    <2>2. CASE Len(log) # 0
      <3>1. Len(log) \in 1..Len(log)
        BY <1>3, <2>2
      <3>2. c[Len(c)] = Line(log[Len(log)], TRUE)
        BY <1>3, <3>1
      <3>3. log[Len(log)] # Garbage
        BY <1>4, <3>1, TextsDiffer
      <3>4. c[Len(c)].ended /\ c[Len(c)].text = log[Len(log)]
        BY <3>2, LineIs, Zenon
      <3> QED
        BY <3>3, <3>4
    <2> QED
      BY <2>1, <2>2
  <1>6. ~ TornTail(c) /\ ~ Unterminated(c)
    BY <1>3, <1>5, RecoveredIs
  <1>7. c[1].text = Header /\ \A i \in 1..Len(log) : c[i + 1].text = log[i]
    <2>1. c[1].text = Header
      BY <1>3, LineIs, Zenon
    <2>2. ASSUME NEW i \in 1..Len(log) PROVE c[i + 1].text = log[i]
      <3>1. c[i + 1] = Line(log[i], TRUE)
        BY <1>3, <2>2
      <3> QED
        BY <3>1, LineIs, Zenon
    <2> QED
      BY <2>1, <2>2
  <1>8. Loadable(c) /\ Recovered(c) = log
    BY <1>3, <1>6, <1>7, LoadsWhen
  <1> QED
    BY <1>2, <1>6, <1>8

\* One more element.
LEMMA AppendIs ==
    ASSUME NEW S, NEW s \in Seq(S), NEW x \in S
    PROVE  /\ Append(s, x) \in Seq(S) /\ Append(s, x) # <<>>
           /\ Len(s) \in Nat /\ Len(Append(s, x)) = Len(s) + 1
           /\ \A i \in 1..Len(s) : Append(s, x)[i] = s[i]
           /\ Append(s, x)[Len(s) + 1] = x
           /\ Last(Append(s, x)) = x /\ Front(Append(s, x)) = s
  <1>1. PICK u : u = Append(s, x)
    OBVIOUS
  <1>2. /\ u \in Seq(S) /\ Len(s) \in Nat /\ Len(u) = Len(s) + 1
        /\ \A i \in 1..Len(s) : u[i] = s[i]
        /\ u[Len(s) + 1] = x
    BY <1>1
  <1>3. u # <<>>
    BY <1>2, EmptySeq
  <1>4. Last(u) = x
    BY <1>2 DEF Last
  <1>5. /\ Front(u) \in Seq(S) /\ Len(Front(u)) = Len(u) - 1
        /\ \A i \in 1..(Len(u) - 1) : Front(u)[i] = u[i]
    BY <1>2, <1>3, FrontIs
  <1>6. Len(u) - 1 = Len(s)
    BY <1>2
  <1>7. Front(u) = s
    BY <1>2, <1>5, <1>6, SeqEqual
  <1> QED
    BY <1>1, <1>2, <1>3, <1>4, <1>7

\* A log with one more mutation, which it accepts.
LEMMA ValidAppend ==
    ASSUME NEW log, ValidLog(log), NEW m \in Mutation, Valid(log, m)
    PROVE  ValidLog(Append(log, m))
  <1>1. log \in Seq(Mutation) /\ \A i \in 1..Len(log) : Valid(SubSeq(log, 1, i - 1), log[i])
    BY DEF ValidLog
  <1>2. PICK u : u = Append(log, m)
    OBVIOUS
  <1>3. /\ u \in Seq(Mutation) /\ Len(log) \in Nat /\ Len(u) = Len(log) + 1
        /\ \A i \in 1..Len(log) : u[i] = log[i]
        /\ u[Len(log) + 1] = m
    BY <1>1, <1>2, AppendIs
  <1>4. ASSUME NEW n \in 0..Len(log) PROVE SubSeq(u, 1, n) = SubSeq(log, 1, n)
    <2>1. PICK v, w : v = SubSeq(u, 1, n) /\ w = SubSeq(log, 1, n)
      OBVIOUS
    <2>2. n \in 0..Len(u)
      BY <1>3
    <2>3. /\ v \in Seq(Mutation) /\ Len(v) = n /\ \A i \in 1..n : v[i] = u[i]
          /\ w \in Seq(Mutation) /\ Len(w) = n /\ \A i \in 1..n : w[i] = log[i]
      BY <1>1, <1>3, <2>1, <2>2, PrefixIs
    <2>4. \A i \in 1..n : v[i] = w[i]
      BY <1>3, <2>3
    <2> QED
      BY <2>1, <2>3, <2>4, SeqEqual
  <1>5. SubSeq(log, 1, Len(log)) = log
    BY <1>1, SubSeqFull
  <1>6. ASSUME NEW i \in 1..Len(u) PROVE Valid(SubSeq(u, 1, i - 1), u[i])
    <2>1. CASE i = Len(log) + 1
      <3>1. i - 1 = Len(log) /\ Len(log) \in 0..Len(log)
        BY <1>3, <2>1
      <3> QED
        BY <1>3, <1>4, <1>5, <2>1, <3>1
    <2>2. CASE i # Len(log) + 1
      <3>1. i \in 1..Len(log) /\ i - 1 \in 0..Len(log)
        BY <1>3, <2>2
      <3> QED
        BY <1>1, <1>3, <1>4, <3>1
    <2> QED
      BY <2>1, <2>2
  <1> QED
    BY <1>2, <1>3, <1>6 DEF ValidLog

\* A clean file and what may be behind it: nothing is lost by a torn line, and a
\* line that lacks only its newline counts.
LEMMA TornLoads ==
    ASSUME NEW log, ValidLog(log)
    PROVE  LET f == Append(CleanFile(log), Line(Garbage, FALSE))
           IN  Loadable(f) /\ Recovered(f) = log
  <1>1. log \in Seq(Mutation)
    BY DEF ValidLog
  <1>2. PICK c : c = CleanFile(log)
    OBVIOUS
  <1>3. /\ c \in Seq(Lines) /\ Len(log) \in Nat /\ Len(c) = Len(log) + 1
        /\ c[1] = Line(Header, TRUE)
        /\ \A i \in 1..Len(log) : c[i + 1] = Line(log[i], TRUE)
    BY <1>1, <1>2, CleanIs
  <1>4. PICK x : x = Line(Garbage, FALSE)
    OBVIOUS
  <1>5. x \in Lines /\ x.text = Garbage
    BY <1>4, LineIs
  <1>6. PICK f : f = Append(c, x)
    OBVIOUS
  <1>7. /\ f \in Seq(Lines) /\ f # <<>> /\ Len(f) = Len(c) + 1
        /\ \A i \in 1..Len(c) : f[i] = c[i]
        /\ f[Len(c) + 1] = x
    BY <1>3, <1>5, <1>6, AppendIs
  <1>8. Len(f) = Len(log) + 2 /\ Len(f) > 1 /\ 1 \in 1..Len(c)
    BY <1>3, <1>7
  <1>9. TornTail(f)
    BY <1>5, <1>7, <1>8, RecoveredIs
  <1>10. f[1].text = Header
    <2>1. f[1] = Line(Header, TRUE)
      BY <1>3, <1>7, <1>8
    <2> QED
      BY <2>1, LineIs, Zenon
  <1>11. ASSUME NEW i \in 1..Len(log) PROVE f[i + 1].text = log[i]
    <2>1. i + 1 \in 1..Len(c)
      BY <1>3
    <2>2. f[i + 1] = Line(log[i], TRUE)
      BY <1>3, <1>7, <2>1
    <2> QED
      BY <2>2, LineIs, Zenon
  <1>12. Loadable(f) /\ Recovered(f) = log
    BY <1>7, <1>8, <1>9, <1>10, <1>11, LoadsWhen
  <1> QED
    BY <1>2, <1>4, <1>6, <1>12

\* The same for a whole line, with or without its newline.
LEMMA ExtendedLoads ==
    ASSUME NEW log, ValidLog(log), NEW m \in Mutation, Valid(log, m), NEW ended \in BOOLEAN
    PROVE  LET f == Append(CleanFile(log), Line(m, ended))
           IN  Loadable(f) /\ Recovered(f) = Append(log, m)
  <1>1. log \in Seq(Mutation)
    BY DEF ValidLog
  <1>2. PICK c : c = CleanFile(log)
    OBVIOUS
  <1>3. /\ c \in Seq(Lines) /\ Len(log) \in Nat /\ Len(c) = Len(log) + 1
        /\ c[1] = Line(Header, TRUE)
        /\ \A i \in 1..Len(log) : c[i + 1] = Line(log[i], TRUE)
    BY <1>1, <1>2, CleanIs
  <1>4. PICK x : x = Line(m, ended)
    OBVIOUS
  <1>5. x \in Lines /\ x.text = m /\ m # Garbage
    BY <1>4, LineIs, TextsDiffer
  <1>6. PICK f : f = Append(c, x)
    OBVIOUS
  <1>7. /\ f \in Seq(Lines) /\ f # <<>> /\ Len(f) = Len(c) + 1
        /\ \A i \in 1..Len(c) : f[i] = c[i]
        /\ f[Len(c) + 1] = x
    BY <1>3, <1>5, <1>6, AppendIs
  <1>8. PICK r : r = Append(log, m)
    OBVIOUS
  <1>9. /\ Len(r) = Len(log) + 1 /\ r[Len(log) + 1] = m
        /\ \A i \in 1..Len(log) : r[i] = log[i]
    BY <1>1, <1>8, AppendIs
  <1>10. Len(f) = Len(r) + 1 /\ 1 \in 1..Len(c)
    BY <1>3, <1>7, <1>9
  <1>11. ~ TornTail(f)
    BY <1>5, <1>7, RecoveredIs
  <1>12. f[1].text = Header
    <2>1. f[1] = Line(Header, TRUE)
      BY <1>3, <1>7, <1>10
    <2> QED
      BY <2>1, LineIs, Zenon
  <1>13. ASSUME NEW i \in 1..Len(r) PROVE f[i + 1].text = r[i]
    <2>1. CASE i = Len(log) + 1
      <3>1. f[i + 1] = x /\ r[i] = m
        BY <1>3, <1>7, <1>9, <2>1
      <3> QED
        BY <1>5, <3>1
    <2>2. CASE i # Len(log) + 1
      <3>1. i \in 1..Len(log) /\ i + 1 \in 1..Len(c)
        BY <1>3, <1>9, <2>2
      <3>2. f[i + 1] = Line(log[i], TRUE) /\ r[i] = log[i]
        BY <1>3, <1>7, <1>9, <3>1
      <3>3. f[i + 1].text = log[i]
        BY <3>2, LineIs, Zenon
      <3> QED
        BY <3>2, <3>3
    <2> QED
      BY <2>1, <2>2
  <1>14. ValidLog(r)
    BY <1>8, ValidAppend
  <1>15. Loadable(f) /\ Recovered(f) = r
    BY <1>7, <1>10, <1>11, <1>12, <1>13, <1>14, LoadsWhen
  <1> QED
    BY <1>2, <1>4, <1>6, <1>8, <1>15

\* A terminated line makes a clean file of a clean file.
LEMMA CleanAppend ==
    ASSUME NEW log \in Seq(Mutation), NEW m \in Mutation
    PROVE  Append(CleanFile(log), Line(m, TRUE)) = CleanFile(Append(log, m))
  <1>1. PICK c, d, r, x : /\ c = CleanFile(log) /\ r = Append(log, m) /\ d = CleanFile(r)
                          /\ x = Line(m, TRUE)
    OBVIOUS
  <1>2. /\ r \in Seq(Mutation) /\ Len(log) \in Nat /\ Len(r) = Len(log) + 1
        /\ r[Len(log) + 1] = m
        /\ \A i \in 1..Len(log) : r[i] = log[i]
    BY <1>1, AppendIs
  <1>3. /\ c \in Seq(Lines) /\ Len(c) = Len(log) + 1
        /\ c[1] = Line(Header, TRUE)
        /\ \A i \in 1..Len(log) : c[i + 1] = Line(log[i], TRUE)
    BY <1>1, CleanIs
  <1>4. /\ d \in Seq(Lines) /\ Len(d) = Len(r) + 1
        /\ d[1] = Line(Header, TRUE)
        /\ \A i \in 1..Len(r) : d[i + 1] = Line(r[i], TRUE)
    BY <1>1, <1>2, CleanIs
  <1>5. x \in Lines
    BY <1>1, LineIs
  <1>6. PICK f : f = Append(c, x)
    OBVIOUS
  <1>7. /\ f \in Seq(Lines) /\ Len(f) = Len(c) + 1
        /\ \A i \in 1..Len(c) : f[i] = c[i]
        /\ f[Len(c) + 1] = x
    BY <1>3, <1>5, <1>6, AppendIs
  <1>8. ASSUME NEW i \in 1..Len(f) PROVE f[i] = d[i]
    <2>1. CASE i = 1
      <3>1. 1 \in 1..Len(c)
        BY <1>2, <1>3
      <3> QED
        BY <1>3, <1>4, <1>7, <2>1, <3>1
    <2>2. CASE i = Len(log) + 2
      <3>1. Len(r) \in 1..Len(r) /\ i = Len(r) + 1 /\ i = Len(c) + 1 /\ Len(r) = Len(log) + 1
        BY <1>2, <1>3, <2>2
      <3>2. d[Len(r) + 1] = Line(r[Len(r)], TRUE)
        BY <1>4, <3>1
      <3> QED
        BY <1>1, <1>2, <1>7, <3>1, <3>2
    <2>3. CASE i # 1 /\ i # Len(log) + 2
      <3>1. PICK k \in 1..Len(log) : i = k + 1
        <4>1. i - 1 \in 1..Len(log) /\ i = (i - 1) + 1
          BY <1>2, <1>3, <1>7, <2>3
        <4> QED
          BY <4>1
      <3>2. i \in 1..Len(c) /\ k \in 1..Len(r)
        BY <1>2, <1>3, <3>1
      <3>3. f[i] = Line(log[k], TRUE) /\ d[i] = Line(r[k], TRUE)
        BY <1>3, <1>4, <1>7, <3>1, <3>2
      <3> QED
        BY <1>2, <3>3
    <2> QED
      BY <2>1, <2>2, <2>3
  <1>9. Len(f) = Len(d)
    BY <1>2, <1>3, <1>4, <1>7
  <1>10. f = d
    BY <1>4, <1>7, <1>8, <1>9, SeqEqual
  <1> QED
    BY <1>1, <1>6, <1>10

\* Load repairs a file that loads to a clean one.
LEMMA RepairIs ==
    ASSUME NEW f \in Seq(Lines), Loadable(f), Ended(f)
    PROVE  Repaired(f, f) = CleanFile(Recovered(f))
  <1>1. PICK r, c : r = Recovered(f) /\ c = CleanFile(r)
    OBVIOUS
  <1>2. /\ f # <<>> /\ f[1].text = Header /\ ValidLog(r)
        /\ TornTail(f) => Len(r) = Len(f) - 2
        /\ ~ TornTail(f) => Len(r) = Len(f) - 1
    BY <1>1, LoadableIs
  <1>3. /\ Len(f) \in Nat \ {0}
        /\ TornTail(f) => Len(f) > 1
        /\ Unterminated(f) <=> ~ f[Len(f)].ended
        /\ \A i \in DOMAIN r : r[i] = f[i + 1].text /\ i + 1 \in 1..Len(f)
    BY <1>1, <1>2, RecoveredIs
  <1>4. r \in Seq(Mutation) /\ Len(r) \in Nat /\ DOMAIN r = 1..Len(r)
    BY <1>2 DEF ValidLog
  <1>5. /\ c \in Seq(Lines) /\ Len(c) = Len(r) + 1
        /\ c[1] = Line(Header, TRUE)
        /\ \A i \in 1..Len(r) : c[i + 1] = Line(r[i], TRUE)
    BY <1>1, <1>4, CleanIs
  <1>6. (\A i \in 1..Len(f) : f[i] \in Lines) /\ \A i \in 1..Len(f) : i # Len(f) => f[i].ended
    BY DEF Ended
  \* What is terminated agrees.
  <1>7. ASSUME NEW i \in 1..Len(f), i \in 1..Len(c), f[i].ended PROVE f[i] = c[i]
    <2>0. f[i] \in Lines
      BY <1>6
    <2>1. f[i] = Line(f[i].text, TRUE)
      <3>1. f[i].ended = TRUE
        BY <1>7, <2>0 DEF Lines
      <3> QED
        BY <2>0, <3>1, LineIs, Zenon
    <2>2. CASE i = 1
      BY <1>2, <1>5, <2>1, <2>2
    <2>3. CASE i # 1
      <3>1. PICK k \in 1..Len(r) : i = k + 1
        <4>1. i - 1 \in 1..Len(r) /\ i = (i - 1) + 1
          BY <1>4, <1>5, <1>7, <2>3
        <4> QED
          BY <4>1
      <3>2. r[k] = f[k + 1].text
        BY <1>3, <1>4
      <3>3. c[i] = Line(r[k], TRUE)
        BY <1>5, <3>1
      <3> QED
        BY <2>1, <3>1, <3>2, <3>3
    <2> QED
      BY <2>2, <2>3
  <1>8. CASE TornTail(f)
    <2>1. Repaired(f, f) = Front(f)
      BY <1>8 DEF Repaired, Parsed
    <2>2. PICK g : g = Front(f)
      OBVIOUS
    <2>3. g \in Seq(Lines) /\ Len(g) = Len(f) - 1 /\ \A i \in 1..(Len(f) - 1) : g[i] = f[i]
      BY <1>2, <2>2, FrontIs
    <2>4. Len(g) = Len(c)
      BY <1>2, <1>3, <1>5, <1>8, <2>3
    <2>5. ASSUME NEW i \in 1..Len(g) PROVE g[i] = c[i]
      <3>1. i \in 1..Len(f) /\ i # Len(f) /\ i \in 1..Len(c) /\ i \in 1..(Len(f) - 1)
        BY <1>3, <2>3, <2>4
      <3> QED
        BY <1>6, <1>7, <2>3, <3>1
    <2>6. g = c
      BY <1>5, <2>3, <2>4, <2>5, SeqEqual
    <2> QED
      BY <1>1, <2>1, <2>2, <2>6
  <1>9. CASE ~ TornTail(f) /\ Unterminated(f)
    <2>1. Repaired(f, f) = Append(Front(f), Line(Last(f).text, TRUE))
      BY <1>9 DEF Repaired, NewlineAppended
    <2>2. PICK g, x : g = Front(f) /\ x = Line(Last(f).text, TRUE)
      OBVIOUS
    <2>3. /\ g \in Seq(Lines) /\ Len(g) = Len(f) - 1 /\ \A i \in 1..(Len(f) - 1) : g[i] = f[i]
          /\ Last(f) = f[Len(f)] /\ Last(f) \in Lines
      BY <1>2, <2>2, FrontIs
    <2>4. x \in Lines
      <3>1. Last(f).text \in Mutation \cup {Header, Garbage}
        BY <2>3 DEF Lines
      <3> QED
        BY <2>2, <3>1, LineIs
    <2>5. PICK h : h = Append(g, x)
      OBVIOUS
    <2>6. /\ h \in Seq(Lines) /\ Len(h) = Len(g) + 1
          /\ \A i \in 1..Len(g) : h[i] = g[i]
          /\ h[Len(g) + 1] = x
      BY <2>3, <2>4, <2>5, AppendIs
    <2>7. Len(h) = Len(f) /\ Len(h) = Len(c) /\ Len(g) + 1 = Len(f)
      BY <1>2, <1>3, <1>5, <1>9, <2>3, <2>6
    <2>8. ASSUME NEW i \in 1..Len(h) PROVE h[i] = c[i]
      <3>1. CASE i # Len(f)
        <4>1. i \in 1..Len(f) /\ i \in 1..Len(c) /\ i \in 1..(Len(f) - 1) /\ i \in 1..Len(g)
          BY <1>3, <2>3, <2>7, <3>1
        <4> QED
          BY <1>6, <1>7, <2>3, <2>6, <3>1, <4>1
      <3>2. CASE i = Len(f) /\ i = 1
        <4>1. h[i] = Line(Header, TRUE)
          BY <1>2, <2>2, <2>3, <2>6, <2>7, <3>2
        <4> QED
          BY <1>5, <3>2, <4>1
      <3>3. CASE i = Len(f) /\ i # 1
        <4>1. PICK k \in 1..Len(r) : i = k + 1
          <5>0. i = Len(r) + 1
            BY <1>5, <2>7, <3>3, Zenon
          <5>1. i = Len(r) + 1 /\ Len(r) # 0
            BY <1>4, <3>3, <5>0
          <5>2. Len(r) \in 1..Len(r)
            BY <1>4, <5>1
          <5> QED
            BY <5>1, <5>2
        <4>2. r[k] = f[i].text
          BY <1>3, <1>4, <4>1
        <4>3. c[i] = Line(r[k], TRUE)
          BY <1>5, <4>1
        <4> QED
          BY <2>2, <2>3, <2>6, <2>7, <3>3, <4>2, <4>3
      <3> QED
        BY <3>1, <3>2, <3>3
    <2>9. h = c
      BY <1>5, <2>6, <2>7, <2>8, SeqEqual
    <2> QED
      BY <1>1, <2>1, <2>2, <2>5, <2>9
  <1>10. CASE ~ TornTail(f) /\ ~ Unterminated(f)
    <2>1. Repaired(f, f) = f
      BY <1>10 DEF Repaired
    <2>2. \A i \in 1..Len(f) : f[i].ended
      BY <1>3, <1>6, <1>10
    <2>3. Len(f) = Len(c)
      BY <1>2, <1>3, <1>5, <1>10
    <2>4. \A i \in 1..Len(f) : f[i] = c[i]
      BY <1>7, <2>2, <2>3
    <2>5. f = c
      BY <1>5, <2>3, <2>4, SeqEqual
    <2> QED
      BY <1>1, <2>1, <2>5
  <1> QED
    BY <1>8, <1>9, <1>10

-----------------------------------------------------------------------------
(* Logs *)

\* There is a last one among some indices.
LEMMA LatestIs ==
    ASSUME NEW n \in Nat, NEW S \in SUBSET (1..n), S # {}
    PROVE  \E i \in S : \A j \in S : j <= i
  <1>1. PICK D : D = {n - k : k \in S}
    OBVIOUS
  <1>2. \A k \in S : k \in Nat /\ n - k \in Nat
    OBVIOUS
  <1>3. D \subseteq Nat /\ D # {}
    BY <1>1, <1>2
  <1>4. PICK R : R = {p \in Nat \X Nat : p[1] < p[2]}
    OBVIOUS
  <1>5. IsWellFoundedOn(R, Nat)
    BY <1>4, NatLessThanWellFounded DEF OpToRel
  <1>6. PICK d \in D : \A e \in D : ~ (<<e, d>> \in R)
    BY <1>3, <1>5, WFMin
  <1>7. d \in Nat /\ \A e \in D : e \in Nat /\ ~ (e < d)
    BY <1>3, <1>4, <1>6
  <1>8. PICK i \in S : d = n - i
    BY <1>1
  <1>9. \A k \in S : ~ (n - k < n - i)
    BY <1>1, <1>7, <1>8
  <1>10. \A k \in S : k <= i
    BY <1>2, <1>9
  <1> QED
    BY <1>10

\* The identifiers in a log, and in what it was before.
LEMMA IdsIs ==
    ASSUME NEW log \in Seq(Mutation), NEW n \in 0..Len(log), NEW K
    PROVE  /\ Ids(log, K) \subseteq 0..MaxMutations
           /\ \A i \in 1..Len(log) : log[i].kind \in K => log[i].id \in Ids(log, K)
           /\ \A id \in Ids(log, K) : \E i \in 1..Len(log) : log[i].kind \in K /\ log[i].id = id
           /\ \A i \in 1..n : log[i].kind \in K => log[i].id \in Ids(SubSeq(log, 1, n), K)
           /\ \A id \in Ids(SubSeq(log, 1, n), K) : \E i \in 1..n : log[i].kind \in K /\ log[i].id = id
           /\ Ids(SubSeq(log, 1, n), K) \subseteq Ids(log, K)
  <1>1. DOMAIN log = 1..Len(log) /\ Len(log) \in Nat /\ \A i \in 1..Len(log) : log[i] \in Mutation
    OBVIOUS
  <1>2. \A i \in 1..Len(log) : log[i].id \in 0..MaxMutations
    BY <1>1 DEF Mutation
  <1>3. /\ \A i \in 1..Len(log) : log[i].kind \in K => log[i].id \in Ids(log, K)
        /\ \A id \in Ids(log, K) : \E i \in 1..Len(log) : log[i].kind \in K /\ log[i].id = id
    BY <1>1 DEF Ids
  <1>4. PICK p : p = SubSeq(log, 1, n)
    OBVIOUS
  <1>5. p \in Seq(Mutation) /\ Len(p) = n /\ \A i \in 1..n : p[i] = log[i]
    BY <1>4, PrefixIs
  <1>6. DOMAIN p = 1..n
    BY <1>5
  <1>7. /\ \A i \in 1..n : log[i].kind \in K => log[i].id \in Ids(p, K)
        /\ \A id \in Ids(p, K) : \E i \in 1..n : log[i].kind \in K /\ log[i].id = id
    BY <1>5, <1>6 DEF Ids
  <1>8. \A i \in 1..n : i \in 1..Len(log)
    BY <1>1
  <1>9. Ids(p, K) \subseteq Ids(log, K)
    BY <1>3, <1>7, <1>8
  <1> QED
    BY <1>2, <1>3, <1>4, <1>7, <1>9

\* What a log that was accepted says of each of its mutations.
LEMMA ValidLogIs ==
    ASSUME NEW log, ValidLog(log), NEW i \in 1..Len(log)
    PROVE  /\ log \in Seq(Mutation) /\ log[i] \in Mutation /\ log[i].seq = i
           /\ log[i].kind \in {"entry", "started", "finished"} =>
                \A j \in 1..(i - 1) :
                  log[j].kind \in {"entry", "started", "finished"} => log[j].id # log[i].id
           /\ log[i].kind \in {"entry", "lane", "fact", "unset"} /\ log[i].ref # 0 =>
                \E j \in 1..(i - 1) : log[j].kind = "entry" /\ log[j].id = log[i].ref
  <1>1. log \in Seq(Mutation) /\ Valid(SubSeq(log, 1, i - 1), log[i])
    BY DEF ValidLog
  <1>2. Len(log) \in Nat /\ i - 1 \in 0..Len(log) /\ log[i] \in Mutation
    BY <1>1
  <1>3. PICK p, n : p = SubSeq(log, 1, i - 1) /\ n = i - 1
    OBVIOUS
  <1>4. Len(p) = n
    BY <1>1, <1>2, <1>3, PrefixIs
  <1>5. log[i].seq = i
    BY <1>1, <1>2, <1>3, <1>4 DEF Valid
  <1>6. ASSUME log[i].kind \in {"entry", "started", "finished"}, NEW j \in 1..n,
               log[j].kind \in {"entry", "started", "finished"}
        PROVE  log[j].id # log[i].id
    <2>1. log[j].id \in Ids(p, {"entry", "started", "finished"})
      BY <1>1, <1>2, <1>3, <1>6, IdsIs
    <2> QED
      BY <1>1, <1>3, <1>6, <2>1 DEF Valid
  <1>7. ASSUME log[i].kind \in {"entry", "lane", "fact", "unset"}, log[i].ref # 0
        PROVE  \E j \in 1..n : log[j].kind = "entry" /\ log[j].id = log[i].ref
    <2>1. log[i].ref \in Ids(p, {"entry"})
      BY <1>1, <1>3, <1>7 DEF Valid, Entries
    <2>2. \A K : \A id \in Ids(p, K) : \E j \in 1..n : log[j].kind \in K /\ log[j].id = id
      <3>1. n \in 0..Len(log) /\ p = SubSeq(log, 1, n)
        BY <1>2, <1>3
      <3> QED
        BY <1>1, <3>1, IdsIs
    <2>3. \E j \in 1..n : log[j].kind \in {"entry"} /\ log[j].id = log[i].ref
      BY <2>1, <2>2
    <2> QED
      BY <2>3
  <1> QED
    BY <1>1, <1>2, <1>3, <1>5, <1>6, <1>7

\* The entries of a log.
LEMMA EntriesIs ==
    ASSUME NEW log \in Seq(Mutation)
    PROVE  /\ Entries(log) \subseteq 0..MaxMutations
           /\ \A i \in 1..Len(log) : log[i].kind = "entry" => log[i].id \in Entries(log)
           /\ \A id \in Entries(log) : \E i \in 1..Len(log) : log[i].kind = "entry" /\ log[i].id = id
  <1>1. Len(log) \in 0..Len(log)
    OBVIOUS
  <1>2. /\ Ids(log, {"entry"}) \subseteq 0..MaxMutations
        /\ \A i \in 1..Len(log) : log[i].kind \in {"entry"} => log[i].id \in Ids(log, {"entry"})
        /\ \A id \in Ids(log, {"entry"}) : \E i \in 1..Len(log) : log[i].kind \in {"entry"} /\ log[i].id = id
    BY <1>1, IdsIs
  <1> QED
    BY <1>2 DEF Entries

\* A lane is absent, empty, or at an entry.
LEMMA LeafIs ==
    ASSUME NEW log, ValidLog(log), NEW l
    PROVE  /\ Leaf(log, l) = Absent \/ Leaf(log, l) \in Entries(log) \cup {0}
           /\ Leaf(log, l) # Absent => Leaf(log, l) \in 0..MaxMutations
  <1>1. log \in Seq(Mutation) /\ DOMAIN log = 1..Len(log) /\ Len(log) \in Nat
    BY DEF ValidLog
  <1>2. PICK M : M = Moves(log, l)
    OBVIOUS
  <1>3. M \in SUBSET (1..Len(log)) /\ \A i \in M : log[i].kind \in {"entry", "lane"}
    BY <1>1, <1>2 DEF Moves
  <1>4. ASSUME M = {}
        PROVE  Leaf(log, l) = Absent \/ Leaf(log, l) \in Entries(log) \cup {0}
    BY <1>2, <1>4 DEF Leaf
  <1>5. ASSUME M # {}
        PROVE  Leaf(log, l) = Absent \/ Leaf(log, l) \in Entries(log) \cup {0}
    <2>1. \E i \in M : \A j \in M : j <= i
      BY <1>1, <1>3, <1>5, LatestIs
    <2>2. PICK i : i = CHOOSE k \in M : \A j \in M : j <= k
      OBVIOUS
    <2>3. i \in M
      BY <2>1, <2>2
    <2>4. Leaf(log, l) = IF log[i].kind = "entry" THEN log[i].id ELSE log[i].ref
      BY <1>2, <1>5, <2>2 DEF Leaf
    <2>5. CASE log[i].kind = "entry"
      BY <1>1, <1>3, <2>3, <2>4, <2>5, EntriesIs
    <2>6. CASE log[i].kind # "entry"
      <3>1. i \in 1..Len(log) /\ log[i].kind = "lane"
        BY <1>3, <2>3, <2>6
      <3>2. log[i].ref # 0 => \E j \in 1..(i - 1) : log[j].kind = "entry" /\ log[j].id = log[i].ref
        BY <3>1, ValidLogIs
      <3>3. \A j \in 1..(i - 1) : j \in 1..Len(log)
        BY <1>1, <3>1
      <3>4. log[i].ref # 0 => log[i].ref \in Entries(log)
        BY <1>1, <3>2, <3>3, EntriesIs
      <3> QED
        BY <2>4, <2>6, <3>4
    <2> QED
      BY <2>5, <2>6
  <1>6. Leaf(log, l) = Absent \/ Leaf(log, l) \in Entries(log) \cup {0}
    BY <1>4, <1>5
  <1>7. Entries(log) \cup {0} \subseteq 0..MaxMutations
    BY <1>1, EntriesIs, JsonlAssumption
  <1> QED
    BY <1>6, <1>7

\* A mutation that the storage makes is one that its state accepts.
LEMMA OperationsAreValid ==
    ASSUME NEW log, ValidLog(log), issued \in Nat, issued < MaxMutations,
           \A i \in 1..Len(log) : log[i].id <= issued, NEW m \in Operations(log)
    PROVE  m \in Mutation /\ m.id = issued + 1 /\ Valid(log, m)
  <1>1. log \in Seq(Mutation) /\ Len(log) \in Nat /\ Len(log) + 1 \in Nat
    BY DEF ValidLog
  <1>2. issued + 1 \in 0..MaxMutations
    BY JsonlAssumption
  <1>3. \A K : issued + 1 \notin Ids(log, K)
    <2> SUFFICES ASSUME NEW K, issued + 1 \in Ids(log, K) PROVE FALSE
      OBVIOUS
    <2>1. Len(log) \in 0..Len(log)
      BY <1>1
    <2>2. PICK i \in 1..Len(log) : log[i].id = issued + 1
      BY <1>1, <2>1, IdsIs
    <2> QED
      BY <2>2
  <1>4. Entries(log) \cup {0} \subseteq 0..MaxMutations
    BY <1>1, EntriesIs, JsonlAssumption
  <1>5. \A l : Leaf(log, l) # Absent =>
          Leaf(log, l) \in Entries(log) \cup {0} /\ Leaf(log, l) \in 0..MaxMutations
    BY LeafIs
  <1>6. Ids(log, {"started"}) \subseteq 0..MaxMutations
    <2>1. Len(log) \in 0..Len(log)
      BY <1>1
    <2> QED
      BY <1>1, <2>1, IdsIs
  <1>7. PICK kind \in Kinds, l \in Lanes \cup {NoLane}, ref \in 0..MaxMutations :
          /\ m = New(log, kind, l, ref)
          /\ kind = "entry" => ref = Leaf(log, l)
          /\ kind \in {"started", "finished"} => Leaf(log, l) # Absent
          /\ kind \in {"entry", "lane", "fact", "unset"} /\ ref # 0 => ref \in Entries(log)
    <2>1. CASE m \in createLane(log) \cup moveLane(log)
      BY <1>4, <2>1 DEF createLane, moveLane, Kinds
    <2>2. CASE m \in appendEntry(log)
      BY <1>5, <2>2 DEF appendEntry, Kinds
    <2>3. CASE m \in appendStarted(log)
      <3>1. 0 \in 0..MaxMutations
        BY <1>4
      <3> QED
        BY <2>3, <3>1 DEF appendStarted, Kinds
    <2>4. CASE m \in appendFinished(log)
      BY <1>6, <2>4 DEF appendFinished, Kinds
    <2>5. CASE m \in setNameOrLabel(log)
      BY <1>4, <2>5 DEF setNameOrLabel, Kinds
    <2> QED
      BY <2>1, <2>2, <2>3, <2>4, <2>5 DEF Operations
  <1>8. /\ m.seq = Len(log) + 1 /\ m.id = issued + 1 /\ m.kind = kind /\ m.lane = l /\ m.ref = ref
        /\ m \in Mutation
    BY <1>1, <1>2, <1>7 DEF New, Mutation
  <1> QED
    BY <1>3, <1>7, <1>8 DEF Valid

-----------------------------------------------------------------------------
(* Forks *)

\* The indices of a set in order.
Rank(P, i) == Cardinality({j \in P : j <= i})
Nth(P, k) == CHOOSE i \in P : Rank(P, i) = k

\* Every index has a rank of its own, and ranks are in the order of indices.
LEMMA NthIs ==
    ASSUME NEW n \in Nat, NEW P \in SUBSET (1..n)
    PROVE  /\ Cardinality(P) \in Nat
           /\ \A k \in 1..Cardinality(P) : Nth(P, k) \in P
           /\ \A i \in P : \E k \in 1..Cardinality(P) : Nth(P, k) = i
           /\ \A k, j \in 1..Cardinality(P) : Nth(P, k) < Nth(P, j) => k < j
           /\ \A k, j \in 1..Cardinality(P) : Nth(P, k) = Nth(P, j) => k = j
  <1>1. IsFiniteSet(1..n) /\ 1..n \subseteq Nat
    BY FS_Interval
  <1>2. IsFiniteSet(P) /\ Cardinality(P) \in Nat
    BY <1>1, FS_Subset, FS_CardinalityType
  <1>3. ASSUME NEW i \in P PROVE Rank(P, i) \in 1..Cardinality(P)
    <2>1. PICK U : U = {k \in P : k <= i}
      OBVIOUS
    <2>2. U \in SUBSET P /\ i \in U
      BY <1>1, <2>1
    <2>3. IsFiniteSet(U) /\ Cardinality(U) <= Cardinality(P) /\ Cardinality(U) \in Nat
      BY <1>2, <2>2, FS_Subset, FS_CardinalityType
    <2>4. Cardinality(U) # 0
      BY <2>2, <2>3, FS_EmptySet
    <2> QED
      BY <1>2, <2>1, <2>3, <2>4 DEF Rank
  <1>4. ASSUME NEW i \in P, NEW m \in P, i < m PROVE Rank(P, i) < Rank(P, m)
    <2>1. PICK U, V : U = {k \in P : k <= i} /\ V = {k \in P : k <= m}
      OBVIOUS
    <2>2. (\A k \in P : k <= i => k <= m) /\ m <= m /\ ~ (m <= i)
      <3>1. i \in Nat /\ m \in Nat /\ P \subseteq Nat
        BY <1>1
      <3> QED
        BY <1>4, <3>1
    <2>3. U \in SUBSET V /\ m \in V /\ m \notin U /\ V \in SUBSET P
      BY <2>1, <2>2
    <2>4. IsFiniteSet(V) /\ IsFiniteSet(U)
      BY <1>2, <2>3, FS_Subset
    <2>5. /\ Cardinality(V) \in Nat /\ Cardinality(U) \in Nat /\ Cardinality(U) <= Cardinality(V)
          /\ Cardinality(V) = Cardinality(U) => V = U
      BY <2>3, <2>4, FS_Subset, FS_CardinalityType
    <2>6. Cardinality(U) < Cardinality(V)
      BY <2>3, <2>5
    <2> QED
      BY <2>1, <2>6 DEF Rank
  <1>5. \A i, m \in P : Rank(P, i) = Rank(P, m) => i = m
    <2> SUFFICES ASSUME NEW i \in P, NEW m \in P, Rank(P, i) = Rank(P, m) PROVE i = m
      OBVIOUS
    <2>1. i < m \/ m < i \/ i = m
      BY <1>1
    <2>2. Rank(P, i) \in Nat /\ Rank(P, m) \in Nat
      BY <1>3
    <2>3. ~ (Rank(P, i) < Rank(P, m)) /\ ~ (Rank(P, m) < Rank(P, i))
      BY <2>2
    <2> QED
      BY <1>4, <2>1, <2>3
  <1>6. PICK f : f = [i \in P |-> Rank(P, i)]
    OBVIOUS
  <1>7. f \in Injection(P, 1..Cardinality(P))
    BY <1>3, <1>5, <1>6 DEF Injection, IsInjective
  <1>8. IsFiniteSet(1..Cardinality(P)) /\ Cardinality(1..Cardinality(P)) = Cardinality(P)
    BY <1>2, FS_Interval
  <1>9. f \in Surjection(P, 1..Cardinality(P))
    BY <1>7, <1>8, FS_Injection
  <1>10. \A k \in 1..Cardinality(P) : \E i \in P : Rank(P, i) = k
    BY <1>6, <1>9 DEF Surjection
  <1>11. \A k \in 1..Cardinality(P) : Nth(P, k) \in P /\ Rank(P, Nth(P, k)) = k
    BY <1>10 DEF Nth
  <1>12. \A i \in P : \E k \in 1..Cardinality(P) : Nth(P, k) = i
    BY <1>3, <1>5, <1>11
  <1>13. \A k, j \in 1..Cardinality(P) : Nth(P, k) < Nth(P, j) => k < j
    <2> SUFFICES ASSUME NEW k \in 1..Cardinality(P), NEW j \in 1..Cardinality(P), Nth(P, k) < Nth(P, j)
                 PROVE  k < j
      OBVIOUS
    <2>1. Rank(P, Nth(P, k)) < Rank(P, Nth(P, j))
      BY <1>4, <1>11
    <2> QED
      BY <1>11, <2>1
  <1>14. \A k, j \in 1..Cardinality(P) : Nth(P, k) = Nth(P, j) => k = j
    BY <1>11, Zenon
  <1> QED
    BY <1>2, <1>11, <1>12, <1>13, <1>14, Zenon

\* The entry with an identifier is the one in the log.
LEMMA EntryOfIs ==
    ASSUME NEW log, ValidLog(log), NEW i \in 1..Len(log), log[i].kind = "entry"
    PROVE  EntryOf(log, log[i].id) = log[i]
  <1>1. log \in Seq(Mutation) /\ DOMAIN log = 1..Len(log) /\ Len(log) \in Nat
    BY DEF ValidLog
  <1>2. ASSUME NEW k \in 1..Len(log), log[k].kind = "entry", log[k].id = log[i].id PROVE k = i
    <2>1. ~ (k < i)
      <3>1. k < i => k \in 1..(i - 1)
        BY <1>1
      <3> QED
        BY <1>2, <3>1, ValidLogIs
    <2>2. ~ (i < k)
      <3>1. i < k => i \in 1..(k - 1)
        BY <1>1
      <3> QED
        BY <1>2, <3>1, ValidLogIs
    <2> QED
      BY <1>1, <2>1, <2>2
  <1>3. Range(log) = {log[k] : k \in 1..Len(log)}
    BY <1>1 DEF Range
  <1>4. log[i] \in Range(log)
    BY <1>3
  <1>5. \A m \in Range(log) : m.kind = "entry" /\ m.id = log[i].id => m = log[i]
    BY <1>2, <1>3
  <1> QED
    BY <1>4, <1>5 DEF EntryOf

\* What a fork copies: a set of entries with the parents of each.
Whole(log, ids) ==
    /\ ids \subseteq Entries(log)
    /\ \A e \in ids : EntryOf(log, e).ref \in ids \cup {0}

\* Copied has the entries of a whole set, each once and behind its parent.
LEMMA CopiedIs ==
    ASSUME NEW log, ValidLog(log), NEW ids, Whole(log, ids)
    PROVE  LET c == Copied(log, ids) IN
           /\ c \in Seq(Mutation)
           /\ \A k \in 1..Len(c) : c[k].kind = "entry" /\ c[k].id \in ids
           /\ \A k, j \in 1..Len(c) : c[k].id = c[j].id => k = j
           /\ \A e \in ids : \E k \in 1..Len(c) : c[k].id = e
           /\ \A k \in 1..Len(c) : c[k].ref # 0 => \E j \in 1..(k - 1) : c[j].id = c[k].ref
  <1>1. log \in Seq(Mutation) /\ DOMAIN log = 1..Len(log) /\ Len(log) \in Nat
        /\ \A i \in 1..Len(log) : log[i] \in Mutation
    BY DEF ValidLog
  <1>2. PICK P : P = {i \in DOMAIN log : log[i].kind = "entry" /\ log[i].id \in ids}
    OBVIOUS
  <1>3. P \in SUBSET (1..Len(log)) /\ \A i \in P : log[i].kind = "entry" /\ log[i].id \in ids
    BY <1>1, <1>2
  <1>4. PICK n : n = Cardinality(P)
    OBVIOUS
  <1>5. PICK q : q = [k \in 1..n |-> Nth(P, k)]
    OBVIOUS
  <1>6. /\ n \in Nat
        /\ \A k \in 1..n : q[k] \in P
        /\ \A i \in P : \E k \in 1..n : q[k] = i
        /\ \A k, j \in 1..n : q[k] < q[j] => k < j
        /\ \A k, j \in 1..n : q[k] = q[j] => k = j
    <2>1. /\ n \in Nat
          /\ \A k \in 1..n : Nth(P, k) \in P
          /\ \A i \in P : \E k \in 1..n : Nth(P, k) = i
          /\ \A k, j \in 1..n : Nth(P, k) < Nth(P, j) => k < j
          /\ \A k, j \in 1..n : Nth(P, k) = Nth(P, j) => k = j
      BY <1>1, <1>3, <1>4, NthIs
    <2>2. \A k \in 1..n : q[k] = Nth(P, k)
      BY <1>5
    <2> QED
      BY <2>1, <2>2
  <1>7. PICK c : c = Copied(log, ids)
    OBVIOUS
  <1>8. c = [k \in 1..n |-> log[q[k]]]
    BY <1>2, <1>4, <1>5, <1>7 DEF Copied, Nth, Rank
  <1>9. \A k \in 1..n : c[k] = log[q[k]] /\ q[k] \in 1..Len(log) /\ c[k] \in Mutation
    BY <1>1, <1>3, <1>6, <1>8
  <1>10. c \in Seq(Mutation) /\ Len(c) = n
    <2>1. c \in [1..n -> Mutation]
      BY <1>8, <1>9
    <2> QED
      BY <1>6, <2>1
  <1>11. \A k \in 1..n : c[k].kind = "entry" /\ c[k].id \in ids
    BY <1>3, <1>6, <1>9
  <1>12. ASSUME NEW i \in P, NEW j \in P, log[i].id = log[j].id PROVE i = j
    <2>1. i \in 1..Len(log) /\ j \in 1..Len(log)
      BY <1>3
    <2>2. ~ (i < j)
      <3>1. i < j => i \in 1..(j - 1)
        BY <1>1, <2>1
      <3> QED
        BY <1>3, <1>12, <2>1, <3>1, ValidLogIs
    <2>3. ~ (j < i)
      <3>1. j < i => j \in 1..(i - 1)
        BY <1>1, <2>1
      <3> QED
        BY <1>3, <1>12, <2>1, <3>1, ValidLogIs
    <2> QED
      BY <1>1, <2>1, <2>2, <2>3
  <1>13. \A k, j \in 1..n : c[k].id = c[j].id => k = j
    BY <1>6, <1>9, <1>12
  <1>14. ASSUME NEW e \in ids PROVE \E k \in 1..n : c[k].id = e
    <2>1. PICK i \in 1..Len(log) : log[i].kind = "entry" /\ log[i].id = e
      BY <1>1, EntriesIs DEF Whole
    <2>2. i \in P
      BY <1>1, <1>2, <2>1
    <2> QED
      BY <1>6, <1>9, <2>1, <2>2
  <1>15. ASSUME NEW k \in 1..n, c[k].ref # 0 PROVE \E j \in 1..(k - 1) : c[j].id = c[k].ref
    <2>1. PICK i \in P : i = q[k]
      BY <1>6
    <2>2. i \in 1..Len(log) /\ log[i].kind = "entry" /\ log[i].id \in ids /\ c[k] = log[i]
      BY <1>3, <1>9, <2>1
    <2>3. log[i].ref \in ids
      BY <1>15, <2>2, EntryOfIs DEF Whole
    <2>4. PICK h \in 1..(i - 1) : log[h].kind = "entry" /\ log[h].id = log[i].ref
      BY <1>15, <2>2, ValidLogIs
    <2>5. h \in 1..Len(log) /\ h < i
      BY <1>1, <2>2
    <2>6. h \in P
      BY <1>1, <1>2, <2>3, <2>4, <2>5
    <2>7. PICK j \in 1..n : q[j] = h
      BY <1>6, <2>6
    <2>8. j < k
      BY <1>6, <2>1, <2>5, <2>7
    <2>9. j \in 1..(k - 1)
      BY <1>6, <2>8
    <2> QED
      BY <1>9, <2>2, <2>4, <2>7, <2>9
  <1> QED
    BY <1>7, <1>10, <1>11, <1>13, <1>14, <1>15

\* The elements of a finite set in some order.
LEMMA SetToSeqIs ==
    ASSUME NEW S, IsFiniteSet(S)
    PROVE  SetToSeq(S) \in Seq(S)
  <1>1. Cardinality(S) \in Nat /\ ExistsBijection(1..Cardinality(S), S)
    BY FS_CardinalityType
  <1>2. \E f \in [1..Cardinality(S) -> S] : IsInjective(f)
    BY <1>1 DEF ExistsBijection, Bijection, Injection, IsInjective
  <1>3. PICK f : f = SetToSeq(S)
    OBVIOUS
  <1>4. f \in [1..Cardinality(S) -> S]
    BY <1>2, <1>3 DEF SetToSeq
  <1>5. f \in Seq(S)
    BY <1>1, <1>4
  <1> QED
    BY <1>3, <1>5

\* A log of entries, each behind its parent, and then of pointers to them.
LEMMA ForkShape ==
    ASSUME NEW u \in Seq(Mutation), NEW a \in 0..Len(u), NEW ids,
           \A k \in 1..Len(u) : u[k].seq = k,
           \A k \in 1..a : u[k].kind = "entry" /\ u[k].lane = NoLane,
           \A k, j \in 1..a : u[k].id = u[j].id => k = j,
           \A e \in ids : \E k \in 1..a : u[k].id = e,
           \A k \in 1..a : u[k].ref # 0 => \E j \in 1..(k - 1) : u[j].id = u[k].ref,
           \A k \in (a + 1)..Len(u) : u[k].kind \in {"lane", "fact"} /\ u[k].ref \in ids \cup {0}
    PROVE  ValidLog(u)
  <1>1. Len(u) \in Nat /\ a \in Nat
    OBVIOUS
  <1> SUFFICES ASSUME NEW i \in 1..Len(u) PROVE Valid(SubSeq(u, 1, i - 1), u[i])
    BY DEF ValidLog
  <1>2. PICK n \in Nat : n = i - 1
    BY <1>1
  <1>3. PICK p : p = SubSeq(u, 1, n)
    OBVIOUS
  <1>4. n \in 0..Len(u) /\ n + 1 = i
    BY <1>1, <1>2
  <1>5. Len(p) = n
    BY <1>3, <1>4, PrefixIs
  <1>6. \A j \in 1..n : u[j].kind = "entry" => u[j].id \in Entries(p)
    BY <1>3, <1>4, IdsIs DEF Entries
  <1>7. \A K : \A id \in Ids(p, K) : \E j \in 1..n : u[j].kind \in K /\ u[j].id = id
    BY <1>3, <1>4, IdsIs
  <1>8. i \in 1..a \/ i \in (a + 1)..Len(u)
    BY <1>1
  <1>9. u[i].seq = Len(p) + 1
    BY <1>4, <1>5
  <1>10. u[i].kind \in {"entry", "lane", "fact"}
    BY <1>8
  <1>11. ASSUME u[i].kind = "entry", u[i].id \in Ids(p, {"entry", "started", "finished"}) PROVE FALSE
    <2>1. i \in 1..a
      BY <1>8, <1>11
    <2>2. PICK j \in 1..n : u[j].id = u[i].id
      BY <1>7, <1>11
    <2>3. j \in 1..a /\ j # i
      BY <1>1, <1>4, <2>1
    <2> QED
      BY <2>1, <2>2, <2>3
  <1>12. u[i].kind = "entry" => u[i].lane = NoLane
    BY <1>8
  <1>13. ASSUME u[i].ref # 0 PROVE u[i].ref \in Entries(p)
    <2>1. CASE i \in 1..a
      <3>1. PICK j \in 1..n : u[j].id = u[i].ref
        BY <1>2, <1>13, <2>1
      <3>2. j \in 1..a
        BY <1>1, <1>4, <2>1
      <3> QED
        BY <1>6, <3>1, <3>2
    <2>2. CASE i \in (a + 1)..Len(u)
      <3>1. PICK k \in 1..a : u[k].id = u[i].ref
        BY <1>13, <2>2
      <3>2. k \in 1..n
        BY <1>1, <1>4, <2>2
      <3> QED
        BY <1>6, <3>1, <3>2
    <2> QED
      BY <1>8, <2>1, <2>2
  <1>14. Valid(p, u[i])
    BY <1>9, <1>10, <1>11, <1>12, <1>13 DEF Valid
  <1> QED
    BY <1>2, <1>3, <1>14

\* Two sequences, one behind the other.
LEMMA ConcatIs ==
    ASSUME NEW S, NEW s \in Seq(S), NEW t \in Seq(S)
    PROVE  /\ s \o t \in Seq(S) /\ Len(s \o t) = Len(s) + Len(t) /\ Len(s) \in Nat /\ Len(t) \in Nat
           /\ \A k \in 1..(Len(s) + Len(t)) : (s \o t)[k] = IF k <= Len(s) THEN s[k] ELSE t[k - Len(s)]
  BY ConcatProperties

\* A mutation on no lane, and one with another number.
LEMMA OnNoLaneIs ==
    ASSUME NEW m \in Mutation, NEW x, x = [m EXCEPT !.lane = NoLane]
    PROVE  x \in Mutation /\ x.kind = m.kind /\ x.id = m.id /\ x.ref = m.ref /\ x.lane = NoLane
  BY DEF Mutation

\* The same for its number.
LEMMA RenumberedIs ==
    ASSUME NEW m \in Mutation, NEW i \in Nat, NEW x, x = [m EXCEPT !.seq = i]
    PROVE  /\ x \in Mutation /\ x.seq = i /\ x.kind = m.kind
           /\ x.id = m.id /\ x.ref = m.ref /\ x.lane = m.lane
  BY DEF Mutation

\* createForkMutations makes a log that a new session accepts.
LEMMA ForkMutationsAreValid ==
    ASSUME NEW log, ValidLog(log), NEW ids, Whole(log, ids),
           NEW leaves, IsFiniteSet(DOMAIN leaves), DOMAIN leaves \subseteq Lanes,
           \A l \in DOMAIN leaves : leaves[l] \in ids \cup {0}
    PROVE  ValidLog(createForkMutations(log, ids, leaves))
  <1>1. PICK c : c = Copied(log, ids)
    OBVIOUS
  <1>2. /\ c \in Seq(Mutation)
        /\ \A k \in 1..Len(c) : c[k].kind = "entry" /\ c[k].id \in ids
        /\ \A k, j \in 1..Len(c) : c[k].id = c[j].id => k = j
        /\ \A e \in ids : \E k \in 1..Len(c) : c[k].id = e
        /\ \A k \in 1..Len(c) : c[k].ref # 0 => \E j \in 1..(k - 1) : c[j].id = c[k].ref
    BY <1>1, CopiedIs
  <1>3. PICK a \in Nat : a = Len(c)
    BY <1>2
  <1>4. \A k \in 1..a : c[k] \in Mutation
    BY <1>2, <1>3
  <1>5. log \in Seq(Mutation)
    BY DEF ValidLog
  <1>6. ids \cup {0} \subseteq 0..MaxMutations
    BY <1>5, EntriesIs, JsonlAssumption DEF Whole
  <1>7. IsFiniteSet(0..MaxMutations)
    BY FS_Interval, JsonlAssumption
  \* the entries
  <1>8. PICK E : E = [i \in DOMAIN c |-> [c[i] EXCEPT !.lane = NoLane]]
    OBVIOUS
  <1>9. DOMAIN c = 1..a
    BY <1>2, <1>3
  <1>10. \A k \in 1..a : /\ E[k] \in Mutation /\ E[k].kind = "entry" /\ E[k].lane = NoLane
                         /\ E[k].id = c[k].id /\ E[k].ref = c[k].ref
    <2> SUFFICES ASSUME NEW k \in 1..a
                 PROVE  /\ E[k] \in Mutation /\ E[k].kind = "entry" /\ E[k].lane = NoLane
                        /\ E[k].id = c[k].id /\ E[k].ref = c[k].ref
      OBVIOUS
    <2>1. PICK m \in Mutation : m = c[k]
      BY <1>4
    <2>2. E[k] = [m EXCEPT !.lane = NoLane]
      BY <1>8, <1>9, <2>1
    <2>3. m.kind = "entry"
      BY <1>2, <1>3, <2>1
    <2> QED
      BY <2>1, <2>2, <2>3, OnNoLaneIs
  <1>11. E \in Seq(Mutation) /\ Len(E) = a
    <2>1. E \in [1..a -> Mutation]
      BY <1>8, <1>9, <1>10
    <2> QED
      BY <2>1
  \* the pointers
  <1>12. PICK A, B : /\ A = {Pointer(l, leaves[l]) : l \in DOMAIN leaves}
                     /\ B = {Fact(t) : t \in {x \in {0} \cup ids : HasValue(log, x)}}
    OBVIOUS
  <1>13. \A m \in A \cup B : m \in Mutation /\ m.kind \in {"lane", "fact"} /\ m.ref \in ids \cup {0}
    <2>1. \A l \in Lanes, r \in 0..MaxMutations :
            /\ Pointer(l, r) \in Mutation /\ Pointer(l, r).kind = "lane" /\ Pointer(l, r).ref = r
      BY JsonlAssumption DEF Pointer, Mutation, Kinds
    <2>2. \A r \in 0..MaxMutations : Fact(r) \in Mutation /\ Fact(r).kind = "fact" /\ Fact(r).ref = r
      BY JsonlAssumption DEF Fact, Mutation, Kinds
    <2>3. ASSUME NEW m \in A PROVE m \in Mutation /\ m.kind = "lane" /\ m.ref \in ids \cup {0}
      <3>1. PICK l \in DOMAIN leaves : m = Pointer(l, leaves[l])
        BY <1>12
      <3>2. l \in Lanes /\ leaves[l] \in ids \cup {0} /\ leaves[l] \in 0..MaxMutations
        BY <1>6
      <3> QED
        BY <2>1, <3>1, <3>2
    <2>4. ASSUME NEW m \in B PROVE m \in Mutation /\ m.kind = "fact" /\ m.ref \in ids \cup {0}
      <3>1. PICK t \in {0} \cup ids : m = Fact(t)
        BY <1>12
      <3>2. t \in 0..MaxMutations
        BY <1>6
      <3> QED
        BY <2>2, <3>1, <3>2
    <2> QED
      BY <2>3, <2>4
  <1>14. IsFiniteSet(A)
    <2>1. PICK g : g = [l \in DOMAIN leaves |-> Pointer(l, leaves[l])]
      OBVIOUS
    <2>2. g \in Surjection(DOMAIN leaves, A)
      BY <1>12, <2>1 DEF Surjection
    <2> QED
      BY <2>2, FS_Surjection
  <1>15. IsFiniteSet(B)
    <2>1. PICK T : T = {x \in {0} \cup ids : HasValue(log, x)}
      OBVIOUS
    <2>2. T \in SUBSET (0..MaxMutations)
      BY <1>6, <2>1
    <2>3. IsFiniteSet(T)
      BY <1>7, <2>2, FS_Subset
    <2>4. PICK g : g = [t \in T |-> Fact(t)]
      OBVIOUS
    <2>5. g \in Surjection(T, B)
      BY <1>12, <2>1, <2>4 DEF Surjection
    <2> QED
      BY <2>3, <2>5, FS_Surjection
  <1>16. PICK L, T : L = SetToSeq(A) /\ T = SetToSeq(B)
    OBVIOUS
  <1>17. L \in Seq(A) /\ T \in Seq(B)
    BY <1>14, <1>15, <1>16, SetToSeqIs
  <1>18. L \in Seq(Mutation) /\ T \in Seq(Mutation)
    BY <1>13, <1>17, SeqMonotonic
  <1>19. (\A k \in 1..Len(L) : L[k] \in A) /\ (\A k \in 1..Len(T) : T[k] \in B)
    BY <1>17
  \* together
  <1>20. PICK v, w : v = E \o L /\ w = v \o T
    OBVIOUS
  <1>21. /\ v \in Seq(Mutation) /\ Len(v) = a + Len(L) /\ Len(L) \in Nat
         /\ \A k \in 1..(a + Len(L)) : v[k] = IF k <= a THEN E[k] ELSE L[k - a]
    BY <1>11, <1>18, <1>20, ConcatIs
  <1>22. /\ w \in Seq(Mutation) /\ Len(w) = Len(v) + Len(T) /\ Len(T) \in Nat
         /\ \A k \in 1..(Len(v) + Len(T)) : w[k] = IF k <= Len(v) THEN v[k] ELSE T[k - Len(v)]
    <2>1. v \in Seq(Mutation) /\ T \in Seq(Mutation) /\ w = v \o T
      BY <1>18, <1>20, <1>21
    <2> QED
      BY <2>1, ConcatIs
  <1>23. \A k \in 1..a : k \in 1..Len(w) /\ w[k] = E[k]
    BY <1>21, <1>22
  <1>24. ASSUME NEW k \in (a + 1)..Len(w) PROVE w[k] \in A \cup B
    <2>1. CASE k <= Len(v)
      <3>1. k \in 1..(a + Len(L)) /\ ~ (k <= a) /\ k - a \in 1..Len(L) /\ k \in 1..(Len(v) + Len(T))
        BY <1>21, <1>22, <2>1
      <3> QED
        BY <1>19, <1>21, <1>22, <2>1, <3>1
    <2>2. CASE ~ (k <= Len(v))
      <3>1. k \in 1..(Len(v) + Len(T)) /\ k - Len(v) \in 1..Len(T)
        BY <1>21, <1>22, <2>2
      <3> QED
        BY <1>19, <1>22, <2>2, <3>1
    <2> QED
      BY <2>1, <2>2
  \* and numbered
  <1>25. PICK u : u = Numbered(w)
    OBVIOUS
  <1>26. PICK n \in Nat : n = Len(w) /\ DOMAIN w = 1..n /\ a \in 0..n /\ \A k \in 1..n : w[k] \in Mutation
    <2>1. Len(w) \in Nat /\ DOMAIN w = 1..Len(w) /\ a \in 0..Len(w)
      BY <1>21, <1>22
    <2>2. \A k \in 1..Len(w) : w[k] \in Mutation
      BY <1>22
    <2> QED
      BY <2>1, <2>2
  <1>27. u = [k \in 1..n |-> [w[k] EXCEPT !.seq = k]]
    BY <1>25, <1>26 DEF Numbered
  <1>28. ASSUME NEW k \in 1..n
         PROVE  /\ u[k] \in Mutation /\ u[k].seq = k /\ u[k].kind = w[k].kind
                /\ u[k].id = w[k].id /\ u[k].ref = w[k].ref /\ u[k].lane = w[k].lane
    <2>1. PICK m \in Mutation : m = w[k]
      BY <1>26
    <2>2. u[k] = [m EXCEPT !.seq = k] /\ k \in Nat
      BY <1>27, <2>1
    <2> QED
      BY <2>1, <2>2, RenumberedIs
  <1>29. u \in Seq(Mutation) /\ Len(u) = n
    <2>1. u \in [1..n -> Mutation]
      BY <1>27, <1>28
    <2> QED
      BY <2>1
  <1>30. \A k \in 1..a : /\ k \in 1..n /\ u[k].kind = "entry" /\ u[k].lane = NoLane
                         /\ u[k].id = c[k].id /\ u[k].ref = c[k].ref
    BY <1>10, <1>23, <1>26, <1>28
  <1>31. \A k \in (a + 1)..n : u[k].kind \in {"lane", "fact"} /\ u[k].ref \in ids \cup {0}
    <2> SUFFICES ASSUME NEW k \in (a + 1)..n
                 PROVE  u[k].kind \in {"lane", "fact"} /\ u[k].ref \in ids \cup {0}
      OBVIOUS
    <2>1. k \in 1..n /\ k \in (a + 1)..Len(w)
      BY <1>26
    <2>2. w[k].kind \in {"lane", "fact"} /\ w[k].ref \in ids \cup {0}
      BY <1>13, <1>24, <2>1
    <2> QED
      BY <1>28, <2>1, <2>2
  <1>32. \A k \in 1..a : u[k].ref # 0 => \E j \in 1..(k - 1) : u[j].id = u[k].ref
    <2> SUFFICES ASSUME NEW k \in 1..a, u[k].ref # 0 PROVE \E j \in 1..(k - 1) : u[j].id = u[k].ref
      OBVIOUS
    <2>1. PICK j \in 1..(k - 1) : c[j].id = c[k].ref
      BY <1>2, <1>3, <1>30
    <2>2. j \in 1..a
      OBVIOUS
    <2> QED
      BY <1>30, <2>1, <2>2
  <1>33. /\ \A k, j \in 1..a : u[k].id = u[j].id => k = j
         /\ \A e \in ids : \E k \in 1..a : u[k].id = e
    BY <1>2, <1>3, <1>30
  <1>34. ValidLog(u)
    <2>1. a \in 0..Len(u) /\ \A k \in 1..Len(u) : u[k].seq = k
      BY <1>26, <1>28, <1>29
    <2>2. \A k \in 1..a : u[k].kind = "entry" /\ u[k].lane = NoLane
      BY <1>30
    <2>3. \A k \in (a + 1)..Len(u) : u[k].kind \in {"lane", "fact"} /\ u[k].ref \in ids \cup {0}
      BY <1>29, <1>31
    <2> QED
      BY <1>29, <1>32, <1>33, <2>1, <2>2, <2>3, ForkShape
  <1>35. createForkMutations(log, ids, leaves) = u
    BY <1>1, <1>8, <1>12, <1>16, <1>20, <1>25 DEF createForkMutations
  <1> QED
    BY <1>34, <1>35

\* All entries, or those of a branch: each with its parent.
LEMMA WholeIs ==
    ASSUME NEW log, ValidLog(log)
    PROVE  /\ Whole(log, Entries(log))
           /\ \A t \in Entries(log) \cup {0} : Whole(log, Branch(log, t)) /\ t \in Branch(log, t) \cup {0}
  <1>1. log \in Seq(Mutation) /\ Len(log) \in Nat
    BY DEF ValidLog
  <1>2. ASSUME NEW e \in Entries(log) PROVE EntryOf(log, e).ref \in Entries(log) \cup {0}
    <2>1. PICK i \in 1..Len(log) : log[i].kind = "entry" /\ log[i].id = e
      BY <1>1, EntriesIs
    <2>2. EntryOf(log, e) = log[i]
      BY <2>1, EntryOfIs
    <2>3. log[i].ref # 0 => \E j \in 1..(i - 1) : log[j].kind = "entry" /\ log[j].id = log[i].ref
      BY <2>1, ValidLogIs
    <2>4. \A j \in 1..(i - 1) : j \in 1..Len(log)
      BY <1>1
    <2>5. log[i].ref # 0 => log[i].ref \in Entries(log)
      BY <1>1, <2>3, <2>4, EntriesIs
    <2> QED
      BY <2>2, <2>5
  <1>3. ASSUME NEW t \in Entries(log) \cup {0}
        PROVE  Whole(log, Branch(log, t)) /\ t \in Branch(log, t) \cup {0}
    <2>1. ASSUME NEW e \in Branch(log, t) PROVE EntryOf(log, e).ref \in Branch(log, t) \cup {0}
      <3>1. PICK r : r = EntryOf(log, e).ref
        OBVIOUS
      <3>2. e \in Entries(log)
        BY DEF Branch
      <3>3. r \in Entries(log) \cup {0}
        BY <1>2, <3>1, <3>2
      <3>4. ASSUME NEW S \in SUBSET Entries(log), t \in S \cup {0},
                   \A d \in S : EntryOf(log, d).ref \in S \cup {0}, r # 0
            PROVE  r \in S
        <4>1. e \in S
          BY <3>4 DEF Branch
        <4> QED
          BY <3>1, <3>4, <4>1
      <3> QED
        BY <3>1, <3>3, <3>4 DEF Branch
    <2>2. t \in Branch(log, t) \cup {0}
      BY DEF Branch
    <2>3. Branch(log, t) \subseteq Entries(log)
      BY DEF Branch
    <2> QED
      BY <2>1, <2>2, <2>3 DEF Whole
  <1> QED
    BY <1>2, <1>3 DEF Whole

\* Whatever is forked, the fork is a log that a new session accepts.
LEMMA ForkOptionsAreValid ==
    ASSUME NEW log, ValidLog(log), NEW f \in ForkOptions(log)
    PROVE  ValidLog(f)
  <1>1. log \in Seq(Mutation) /\ Len(log) \in Nat /\ DOMAIN log = 1..Len(log)
    BY DEF ValidLog
  <1>2. CASE \E t \in Entries(log) \cup {0} :
               f = createForkMutations(log, Branch(log, t), [l \in {"main"} |-> t])
    <2>1. PICK t \in Entries(log) \cup {0} :
             f = createForkMutations(log, Branch(log, t), [l \in {"main"} |-> t])
      BY <1>2
    <2>2. PICK leaves : leaves = [l \in {"main"} |-> t]
      OBVIOUS
    <2>3. DOMAIN leaves = {"main"} /\ leaves["main"] = t
      BY <2>2
    <2>4. IsFiniteSet(DOMAIN leaves) /\ DOMAIN leaves \subseteq Lanes
      BY <2>3, FS_Singleton, JsonlAssumption
    <2>5. Whole(log, Branch(log, t)) /\ t \in Branch(log, t) \cup {0}
      BY WholeIs
    <2>6. \A l \in DOMAIN leaves : leaves[l] \in Branch(log, t) \cup {0}
      BY <2>3, <2>5
    <2>7. ValidLog(createForkMutations(log, Branch(log, t), leaves))
      BY <2>4, <2>5, <2>6, ForkMutationsAreValid
    <2> QED
      BY <2>1, <2>2, <2>7
  <1>3. CASE f = createForkMutations(log, Entries(log),
                   [l \in {x \in Lanes : Leaf(log, x) # Absent} |-> Leaf(log, l)])
    <2>1. PICK leaves : leaves = [l \in {x \in Lanes : Leaf(log, x) # Absent} |-> Leaf(log, l)]
      OBVIOUS
    <2>2. PICK D : D = {x \in Lanes : Leaf(log, x) # Absent}
      OBVIOUS
    <2>3. DOMAIN leaves = D /\ \A l \in D : leaves[l] = Leaf(log, l)
      BY <2>1, <2>2
    <2>4. IsFiniteSet(D)
      <3>1. PICK g, M : g = [i \in 1..Len(log) |-> log[i].lane] /\ M = {log[i].lane : i \in 1..Len(log)}
        OBVIOUS
      <3>2. g \in Surjection(1..Len(log), M)
        BY <3>1 DEF Surjection
      <3>3. IsFiniteSet(1..Len(log))
        BY <1>1, FS_Interval
      <3>4. IsFiniteSet(M \cup {"main"})
        BY <3>2, <3>3, FS_Surjection, FS_AddElement
      <3>5. ASSUME NEW x \in D PROVE x \in M \cup {"main"}
        <4>1. Moves(log, x) = {} => x = "main"
          BY <2>2 DEF Leaf
        <4>2. Moves(log, x) # {} => x \in M
          BY <1>1, <3>1 DEF Moves
        <4> QED
          BY <4>1, <4>2
      <3>6. D \in SUBSET (M \cup {"main"})
        BY <3>5
      <3> QED
        BY <3>4, <3>6, FS_Subset
    <2>5. \A l \in DOMAIN leaves : leaves[l] \in Entries(log) \cup {0}
      BY <2>2, <2>3, LeafIs
    <2>6. Whole(log, Entries(log))
      BY WholeIs
    <2>7. IsFiniteSet(DOMAIN leaves) /\ DOMAIN leaves \subseteq Lanes
      BY <2>2, <2>3, <2>4
    <2>8. ValidLog(createForkMutations(log, Entries(log), leaves))
      BY <2>5, <2>6, <2>7, ForkMutationsAreValid
    <2> QED
      BY <1>3, <2>1, <2>8
  <1> QED
    BY <1>2, <1>3 DEF ForkOptions

-----------------------------------------------------------------------------
(* What is written *)

\* A line behind terminated ones.
LEMMA LineAppended ==
    ASSUME NEW f \in Seq(Lines), \A i \in 1..Len(f) : f[i].ended,
           NEW T, TextsIn(f, T), NEW x \in Lines, x.text \in T
    PROVE  /\ Append(f, x) \in Seq(Lines) /\ Append(f, x) # <<>>
           /\ Ended(Append(f, x)) /\ TextsIn(Append(f, x), T)
  <1>1. PICK g : g = Append(f, x)
    OBVIOUS
  <1>2. /\ g \in Seq(Lines) /\ g # <<>> /\ Len(f) \in Nat /\ Len(g) = Len(f) + 1
        /\ \A i \in 1..Len(f) : g[i] = f[i]
        /\ g[Len(f) + 1] = x
    BY <1>1, AppendIs
  <1>3. \A i \in 1..Len(g) : i = Len(f) + 1 \/ i \in 1..Len(f)
    BY <1>2
  <1>4. Ended(g) /\ TextsIn(g, T)
    BY <1>2, <1>3 DEF Ended, TextsIn
  <1> QED
    BY <1>1, <1>2, <1>4

\* The lines before the last one.
LEMMA LinesBefore ==
    ASSUME NEW f \in Seq(Lines), f # <<>>, Ended(f), NEW T, TextsIn(f, T)
    PROVE  /\ Front(f) \in Seq(Lines) /\ TextsIn(Front(f), T)
           /\ \A i \in 1..Len(Front(f)) : Front(f)[i].ended
           /\ Last(f) \in Lines /\ Last(f).text \in T
           /\ Len(f) > 1 => Front(f) # <<>>
  <1>1. PICK g : g = Front(f)
    OBVIOUS
  <1>2. /\ Len(f) \in Nat \ {0} /\ Last(f) = f[Len(f)] /\ Last(f) \in Lines
        /\ g \in Seq(Lines) /\ Len(g) = Len(f) - 1
        /\ \A i \in 1..(Len(f) - 1) : g[i] = f[i]
    BY <1>1, FrontIs
  <1>3. \A i \in 1..Len(g) : i \in 1..(Len(f) - 1) /\ i \in 1..Len(f) /\ i # Len(f)
    BY <1>2
  <1>4. TextsIn(g, T) /\ \A i \in 1..Len(g) : g[i].ended
    BY <1>2, <1>3 DEF Ended, TextsIn
  <1>5. Last(f).text \in T
    <2>1. Len(f) \in 1..Len(f)
      BY <1>2
    <2> QED
      BY <1>2, <2>1 DEF TextsIn
  <1>6. Len(f) > 1 => g # <<>>
    BY <1>2, EmptySeq
  <1> QED
    BY <1>1, <1>2, <1>4, <1>5, <1>6

\* A file that ends with a newline is terminated throughout.
LEMMA AllEnded ==
    ASSUME NEW f \in Seq(Lines), Ended(f), ~ Unterminated(f)
    PROVE  \A i \in 1..Len(f) : f[i].ended
  <1>1. CASE f = <<>>
    BY <1>1
  <1>2. CASE f # <<>>
    BY <1>2, FrontIs DEF Ended, Unterminated
  <1> QED
    BY <1>1, <1>2

\* Text behind whatever there is.
LEMMA WrittenIs ==
    ASSUME NEW f \in Seq(Lines), Ended(f), NEW T, TextsIn(f, T),
           NEW text \in Mutation \cup {Header, Garbage}, text \in T, Garbage \in T, NEW ended \in BOOLEAN
    PROVE  LET w == Written(f, text, ended)
           IN  w \in Seq(Lines) /\ w # <<>> /\ Ended(w) /\ TextsIn(w, T)
  <1>1. /\ Line(text, ended) \in Lines /\ Line(text, ended).text \in T
        /\ Line(Garbage, ended) \in Lines /\ Line(Garbage, ended).text \in T
    BY LineIs
  <1>2. CASE Unterminated(f)
    <2>1. f # <<>> /\ Written(f, text, ended) = Append(Front(f), Line(Garbage, ended))
      BY <1>2 DEF Unterminated, Written
    <2>2. /\ Front(f) \in Seq(Lines) /\ TextsIn(Front(f), T)
          /\ \A i \in 1..Len(Front(f)) : Front(f)[i].ended
      BY <2>1, LinesBefore
    <2> QED
      BY <1>1, <2>1, <2>2, LineAppended
  <1>3. CASE ~ Unterminated(f)
    <2>1. Written(f, text, ended) = Append(f, Line(text, ended))
      BY <1>3 DEF Written
    <2>2. \A i \in 1..Len(f) : f[i].ended
      BY <1>3, AllEnded
    <2> QED
      BY <1>1, <2>1, <2>2, LineAppended
  <1> QED
    BY <1>2, <1>3

\* The missing newline.
LEMMA NewlineIs ==
    ASSUME NEW f \in Seq(Lines), Ended(f), NEW T, TextsIn(f, T), Garbage \in T
    PROVE  LET w == NewlineAppended(f)
           IN  w \in Seq(Lines) /\ w # <<>> /\ Ended(w) /\ TextsIn(w, T)
  <1>1. Line(Garbage, TRUE) \in Lines /\ Line(Garbage, TRUE).text \in T
    BY LineIs
  <1>2. CASE Unterminated(f)
    <2>1. f # <<>> /\ NewlineAppended(f) = Append(Front(f), Line(Last(f).text, TRUE))
      BY <1>2 DEF Unterminated, NewlineAppended
    <2>2. /\ Front(f) \in Seq(Lines) /\ TextsIn(Front(f), T)
          /\ \A i \in 1..Len(Front(f)) : Front(f)[i].ended
          /\ Last(f) \in Lines /\ Last(f).text \in T
      BY <2>1, LinesBefore
    <2>3. Last(f).text \in Mutation \cup {Header, Garbage}
      BY <2>2 DEF Lines
    <2>4. Line(Last(f).text, TRUE) \in Lines /\ Line(Last(f).text, TRUE).text \in T
      BY <2>2, <2>3, LineIs
    <2> QED
      BY <2>1, <2>2, <2>4, LineAppended
  <1>3. CASE ~ Unterminated(f)
    <2>1. NewlineAppended(f) = Append(f, Line(Garbage, TRUE))
      BY <1>3 DEF NewlineAppended
    <2>2. \A i \in 1..Len(f) : f[i].ended
      BY <1>3, AllEnded
    <2> QED
      BY <1>1, <2>1, <2>2, LineAppended
  <1> QED
    BY <1>2, <1>3

\* A fork's file.
LEMMA ForkFileIs ==
    ASSUME NEW log \in Seq(Mutation)
    PROVE  <<Line(Header, TRUE)>> \o [i \in DOMAIN log |-> Line(log[i], TRUE)] = CleanFile(log)
  <1>1. PICK h, t, c : /\ h = <<Line(Header, TRUE)>> /\ c = CleanFile(log)
                       /\ t = [i \in DOMAIN log |-> Line(log[i], TRUE)]
    OBVIOUS
  <1>2. /\ c \in Seq(Lines) /\ Len(log) \in Nat /\ Len(c) = Len(log) + 1
        /\ c[1] = Line(Header, TRUE)
        /\ \A i \in 1..Len(log) : c[i + 1] = Line(log[i], TRUE)
    BY <1>1, CleanIs
  <1>3. Line(Header, TRUE) \in Lines /\ \A i \in 1..Len(log) : Line(log[i], TRUE) \in Lines
    <2>1. \A i \in 1..Len(log) : log[i] \in Mutation
      OBVIOUS
    <2> QED
      BY <2>1, LineIs
  <1>4. h \in Seq(Lines) /\ Len(h) = 1 /\ h[1] = Line(Header, TRUE)
    <2>1. PICK x \in Lines : x = Line(Header, TRUE)
      BY <1>3
    <2>2. h = <<x>>
      BY <1>1, <2>1
    <2>3. h \in Seq(Lines) /\ Len(h) = 1 /\ h[1] = x
      BY <2>2
    <2> QED
      BY <2>1, <2>3
  <1>5. t \in Seq(Lines) /\ Len(t) = Len(log) /\ \A i \in 1..Len(log) : t[i] = Line(log[i], TRUE)
    <2>1. DOMAIN log = 1..Len(log)
      OBVIOUS
    <2>2. t \in [1..Len(log) -> Lines] /\ \A i \in 1..Len(log) : t[i] = Line(log[i], TRUE)
      BY <1>1, <1>3, <2>1
    <2>3. PICK n \in Nat : n = Len(log)
      BY <1>2
    <2>4. t \in [1..n -> Lines]
      BY <2>2, <2>3
    <2>5. t \in Seq(Lines) /\ Len(t) = n
      BY <2>4
    <2> QED
      BY <2>2, <2>3, <2>5
  <1>6. PICK u : u = h \o t
    OBVIOUS
  <1>7. /\ u \in Seq(Lines) /\ Len(u) = Len(h) + Len(t)
        /\ \A k \in 1..(Len(h) + Len(t)) : u[k] = IF k <= Len(h) THEN h[k] ELSE t[k - Len(h)]
    BY <1>4, <1>5, <1>6, ConcatIs
  <1>8. Len(u) = Len(c) /\ Len(h) + Len(t) = Len(log) + 1
    BY <1>2, <1>4, <1>5, <1>7
  <1>9. ASSUME NEW i \in 1..Len(u) PROVE u[i] = c[i]
    <2>0. i \in 1..(Len(h) + Len(t))
      BY <1>7
    <2>1. CASE i = 1
      <3>1. 1 <= Len(h) /\ 1 \in 1..(Len(h) + Len(t))
        BY <1>4, <2>0, <2>1
      <3>2. u[1] = h[1]
        BY <1>7, <3>1
      <3> QED
        BY <1>2, <1>4, <2>1, <3>2
    <2>2. CASE i # 1
      <3>1. PICK k \in 1..Len(log) : i = k + 1
        <4>1. i - 1 \in 1..Len(log) /\ i = (i - 1) + 1
          BY <1>2, <1>8, <2>0, <2>2
        <4> QED
          BY <4>1
      <3>2. ~ (i <= Len(h)) /\ i - Len(h) = k
        BY <1>4, <3>1
      <3>3. u[i] = t[k]
        BY <1>7, <2>0, <3>2
      <3> QED
        BY <1>2, <1>5, <3>1, <3>3
    <2> QED
      BY <2>1, <2>2
  <1>10. u = c
    BY <1>2, <1>7, <1>8, <1>9, SeqEqual
  <1> QED
    BY <1>1, <1>6, <1>10

-----------------------------------------------------------------------------
(* The invariant holds at the start and is kept by every step *)

\* The fields of the records.
LEMMA StateIs ==
    ASSUME TypeOK
    PROVE  /\ mem.open \in BOOLEAN /\ mem.log \in Seq(Mutation)
           /\ mem = [open |-> mem.open, log |-> mem.log]
           /\ writing.phase \in {"none", "begun", "partly", "detached"}
           /\ writing.mutation \in Mutation \cup {Garbage} /\ writing.glued \in BOOLEAN
           /\ loader.for \in {"none", "open", "fork"} /\ loader.content \in Seq(Lines)
           /\ NoWrite.phase = "none" /\ NoLoad.for = "none"
  BY DEF TypeOK, NoWrite, NoLoad

\* The empty log and its file.
LEMMA EmptyIs ==
    /\ ValidLog(<<>>) /\ CleanFile(<<>>) = <<Line(Header, TRUE)>>
    /\ <<>> \in Seq(Mutation) /\ <<>> \in Seq(Lines)
    /\ Ended(<<>>) /\ \A T : TextsIn(<<>>, T)
    /\ Garbage \in Known /\ Header \in Known
  <1>1. <<>> \in Seq(Mutation) /\ <<>> \in Seq(Lines) /\ Len(<<>>) = 0 /\ 1..0 = {}
    OBVIOUS
  <1>2. ValidLog(<<>>)
    BY <1>1 DEF ValidLog
  <1>3. Ended(<<>>) /\ \A T : TextsIn(<<>>, T)
    BY <1>1 DEF Ended, TextsIn
  <1>4. Garbage \in Known /\ Header \in Known
    BY TextsDiffer DEF Known
  <1>5. PICK c : c = CleanFile(<<>>)
    OBVIOUS
  <1>6. c \in Seq(Lines) /\ Len(c) = 1 /\ c[1] = Line(Header, TRUE)
    <2>1. c \in Seq(Lines) /\ Len(c) = Len(<<>>) + 1 /\ c[1] = Line(Header, TRUE)
      BY <1>1, <1>5, CleanIs
    <2> QED
      BY <1>1, <2>1
  <1>7. PICK x \in Lines : x = Line(Header, TRUE)
    BY LineIs
  <1>8. <<x>> \in Seq(Lines) /\ Len(<<x>>) = 1 /\ <<x>>[1] = x
    OBVIOUS
  <1>9. c = <<x>>
    <2>1. PICK d : d = <<x>>
      OBVIOUS
    <2>2. d \in Seq(Lines) /\ Len(d) = 1 /\ d[1] = x
      BY <1>8, <2>1
    <2>3. ASSUME NEW i \in 1..Len(c) PROVE c[i] = d[i]
      <3>1. i = 1
        BY <1>6
      <3> QED
        BY <1>6, <1>7, <2>2, <3>1
    <2> QED
      BY <1>6, <2>1, <2>2, <2>3, SeqEqual
  <1> QED
    BY <1>1, <1>2, <1>3, <1>4, <1>5, <1>7, <1>9

\* A file of one line.
LEMMA SingleIs ==
    ASSUME NEW x \in Lines, NEW T, x.text \in T
    PROVE  /\ <<x>> \in Seq(Lines) /\ <<x>> # <<>> /\ Len(<<x>>) = 1 /\ <<x>>[1] = x
           /\ Ended(<<x>>) /\ TextsIn(<<x>>, T)
  <1>1. PICK f : f = <<x>>
    OBVIOUS
  <1>2. f \in Seq(Lines) /\ f # <<>> /\ Len(f) = 1 /\ f[1] = x
    BY <1>1
  <1>3. \A i \in 1..Len(f) : i = 1
    BY <1>2
  <1>4. Ended(f)
    BY <1>2, <1>3 DEF Ended
  <1>5. TextsIn(f, T)
    BY <1>2, <1>3 DEF TextsIn
  <1> QED
    BY <1>1, <1>2, <1>4, <1>5

\* The empty sequence is a prefix of every one.
LEMMA EmptyPrefix ==
    ASSUME NEW S, NEW s \in Seq(S)
    PROVE  IsPrefix(<<>>, s)
  <1>1. PICK e : e = <<>>
    OBVIOUS
  <1>2. e \in Seq(S) /\ Len(e) = 0 /\ Len(s) \in Nat
    BY <1>1
  <1>3. 1..Len(e) = {}
    BY <1>2
  <1>4. Len(e) <= Len(s)
    BY <1>2
  <1>5. IsPrefix(e, s)
    BY <1>2, <1>3, <1>4, PrefixEqual
  <1> QED
    BY <1>1, <1>5

\* There is nothing at first.
LEMMA Initial == Init => IInv
  <1> SUFFICES ASSUME Init PROVE IInv
    OBVIOUS
  <1>1. TypeOK
    <2>1. 0 \in 0..MaxMutations /\ 0 \in 0..MaxForks
      BY JsonlAssumption
    <2>2. mem \in [open : BOOLEAN, log : Seq(Mutation)]
      BY EmptyIs DEF Init, Closed
    <2>3. writing \in [phase : {"none", "begun", "partly", "detached"},
                       mutation : Mutation \cup {Garbage}, glued : BOOLEAN]
      BY DEF Init, NoWrite
    <2>4. loader \in [for : {"none", "open", "fork"}, content : Seq(Lines)]
      BY EmptyIs DEF Init, NoLoad
    <2> QED
      BY <2>1, <2>2, <2>3, <2>4, EmptyIs DEF Init, TypeOK
  <1>2. ~ mem.open /\ mem.log = <<>> /\ loader.content = <<>> /\ writing.mutation = Garbage
    BY DEF Init, Closed, NoLoad, NoWrite
  <1>3. StorageInv
    BY <1>2, EmptyIs DEF Init, StorageInv, NoLoad, NoWrite
  <1>4. IdsInv
    BY <1>2, EmptyIs DEF Init, IdsInv
  <1>5. ForkInv
    BY EmptyIs DEF Init, ForkInv, NoLoad
  <1>6. FileInv
    <2>1. ~ Loadable(file) /\ acked = <<>>
      BY DEF Init, Loadable
    <2> QED
      BY <1>2, <2>1 DEF FileInv, Kept
  <1> QED
    BY <1>1, <1>3, <1>4, <1>5, <1>6 DEF IInv

\* create() leaves a clean file and its storage, or a file without mutations.
LEMMA CreateStep == IInv /\ create => IInv'
  <1> SUFFICES ASSUME IInv, create PROVE IInv'
    OBVIOUS
  <1>1. /\ file = <<>> /\ loader = NoLoad /\ ~ mem.open /\ acked = <<>> /\ writing = NoWrite
        /\ UNCHANGED <<writing, loader, fork, dest, acked, upset, issued, forks>>
    BY DEF create, IInv, StorageInv
  <1>2. TypeOK /\ ForkInv
    BY DEF IInv
  <1>3. Known' = Known
    BY <1>1 DEF Known
  <1>4. CASE file' = <<Line(Header, TRUE)>> /\ mem' = [open |-> TRUE, log |-> <<>>]
    <2>1. file' = CleanFile(<<>>) /\ mem'.open = TRUE /\ mem'.log = <<>>
      BY <1>4, EmptyIs
    <2>2. PICK x \in Lines : x = Line(Header, TRUE) /\ x.text = Header
      BY LineIs
    <2>3. file' = <<x>>
      BY <1>4, <2>2
    <2>4. file' \in Seq(Lines) /\ Len(file') = 1 /\ file'[1] = x /\ file' # <<>>
      BY <2>3
    <2>5. TypeOK'
      BY <1>1, <1>2, <1>4, <2>4, EmptyIs DEF TypeOK
    <2>6. Ended(file') /\ TextsIn(file', Known)
      <3>1. x.text \in Known
        BY <2>2, EmptyIs
      <3> QED
        BY <2>3, <3>1, SingleIs
    <2>7. StorageInv'
      BY <1>1, <2>1, <2>4, <2>6, EmptyIs DEF StorageInv, NoLoad
    <2>8. IdsInv'
      <3>1. IdsInv
        BY DEF IInv
      <3> QED
        BY <1>1, <1>3, <2>1, <2>6, <3>1, EmptyIs DEF IdsInv
    <2>9. ForkInv'
      BY <1>1, <1>2 DEF ForkInv
    <2>10. FileInv'
      BY <1>1, <2>1 DEF FileInv, Mirrored, NoWrite
    <2> QED
      BY <2>5, <2>7, <2>8, <2>9, <2>10 DEF IInv
  <1>5. CASE \E text \in {Header, Garbage} : file' = <<Line(text, FALSE)>> /\ UNCHANGED mem
    <2>1. PICK text \in {Header, Garbage} : file' = <<Line(text, FALSE)>> /\ UNCHANGED mem
      BY <1>5
    <2>2. PICK x \in Lines : x = Line(text, FALSE) /\ x.text = text
      BY LineIs
    <2>3. file' = <<x>>
      BY <2>1, <2>2
    <2>4. file' \in Seq(Lines) /\ Len(file') = 1 /\ file'[1] = x /\ file' # <<>>
      BY <2>3
    <2>5. TypeOK'
      BY <1>1, <1>2, <2>1, <2>4, EmptyIs DEF TypeOK
    <2>6. Ended(file') /\ TextsIn(file', Known)
      <3>1. x.text \in Known
        BY <2>2, EmptyIs
      <3> QED
        BY <2>3, <3>1, SingleIs
    <2>7. StorageInv'
      BY <1>1, <2>1, <2>4, <2>6, EmptyIs DEF StorageInv, NoLoad
    <2>8. IdsInv'
      <3>1. IdsInv
        BY DEF IInv
      <3> QED
        BY <1>1, <1>3, <2>1, <2>6, <3>1, EmptyIs DEF IdsInv
    <2>9. ForkInv'
      BY <1>1, <1>2 DEF ForkInv
    <2>10. FileInv'
      <3>1. PICK f : f = file'
        OBVIOUS
      <3>2. f \in Seq(Lines) /\ f # <<>> /\ Len(f) = 1
        BY <2>4, <3>1
      <3>3. ~ TornTail(f)
        BY <3>2 DEF TornTail
      <3>4. ASSUME Loadable(f) PROVE IsPrefix(<<>>, Recovered(f)) /\ Len(Recovered(f)) <= Len(<<>>) + 1
        <4>1. PICK r : r = Recovered(f)
          OBVIOUS
        <4>2. r \in Seq(Mutation) /\ Len(r) = 0
          BY <3>2, <3>3, <3>4, <4>1, LoadableIs DEF ValidLog
        <4>3. Len(<<>>) = 0 /\ 1..0 = {}
          OBVIOUS
        <4>4. IsPrefix(<<>>, r)
          BY <4>2, EmptyPrefix
        <4> QED
          BY <4>1, <4>2, <4>3, <4>4
      <3> QED
        BY <1>1, <2>1, <3>1, <3>4 DEF FileInv, Kept
    <2> QED
      BY <2>5, <2>7, <2>8, <2>9, <2>10 DEF IInv
  <1> QED
    BY <1>4, <1>5 DEF create

\* An operation makes its mutation from the state, which accepts it.
LEMMA EnqueueStep == IInv /\ enqueue => IInv'
  <1> SUFFICES ASSUME IInv, enqueue PROVE IInv'
    OBVIOUS
  <1>1. /\ mem.open /\ writing = NoWrite /\ issued < MaxMutations /\ issued' = issued + 1
        /\ UNCHANGED <<file, mem, loader, fork, dest, acked, upset, forks>>
    BY DEF enqueue
  <1>2. PICK m \in Operations(mem.log) : writing' = [phase |-> "begun", mutation |-> m, glued |-> FALSE]
    BY DEF enqueue
  <1>3. TypeOK /\ StorageInv /\ IdsInv /\ ForkInv /\ FileInv
    BY DEF IInv
  <1>4. ValidLog(mem.log) /\ issued \in Nat /\ MaxMutations \in Nat
    BY <1>1, <1>3, JsonlAssumption DEF StorageInv, TypeOK
  <1>5. \A i \in 1..Len(mem.log) : mem.log[i].id <= issued
    <2>1. \A i \in 1..Len(mem.log) : mem.log[i] \in Mutation
      BY <1>4 DEF ValidLog
    <2> QED
      BY <1>3, <2>1 DEF IdsInv, Known
  <1>6. m \in Mutation /\ m.id = issued + 1 /\ Valid(mem.log, m)
    <2>1. PICK log : log = mem.log
      OBVIOUS
    <2> QED
      BY <1>1, <1>4, <1>5, <2>1, OperationsAreValid
  <1>7. writing'.phase = "begun" /\ writing'.mutation = m /\ writing'.glued = FALSE
    BY <1>2
  <1>8. TypeOK'
    <2>1. writing' \in [phase : {"none", "begun", "partly", "detached"},
                        mutation : Mutation \cup {Garbage}, glued : BOOLEAN]
      BY <1>2, <1>6
    <2>2. issued' \in 0..MaxMutations
      BY <1>1, <1>4
    <2> QED
      BY <1>1, <1>3, <2>1, <2>2 DEF TypeOK
  <1>9. StorageInv'
    BY <1>1, <1>3, <1>6, <1>7 DEF StorageInv
  <1>10. \A t \in Known : t \in Known'
    <2> SUFFICES ASSUME NEW t \in Known, t \in Mutation PROVE t.id <= issued'
      BY DEF Known
    <2>1. t.id <= issued /\ t.id \in Nat
      BY JsonlAssumption DEF Known, Mutation
    <2> QED
      BY <1>1, <1>4, <2>1
  <1>11. m \in Known'
    BY <1>1, <1>4, <1>6 DEF Known
  <1>12. IdsInv'
    BY <1>1, <1>3, <1>7, <1>10, <1>11 DEF IdsInv, TextsIn
  <1>13. ForkInv'
    BY <1>1, <1>3 DEF ForkInv
  <1>14. FileInv'
    BY <1>1, <1>3, <1>7 DEF FileInv, Mirrored, NoWrite
  <1> QED
    BY <1>8, <1>9, <1>12, <1>13, <1>14 DEF IInv

\* An append that has begun has a storage and a mutation its state accepts.
LEMMA WritingIs ==
    ASSUME IInv, writing # NoWrite
    PROVE  /\ mem.open /\ acked = mem.log /\ ValidLog(mem.log) /\ file # <<>>
           /\ writing.mutation \in Mutation /\ writing.mutation \in Known
           /\ Valid(mem.log, writing.mutation)
           /\ writing.phase \in {"begun", "partly", "detached"}
           /\ file \in Seq(Lines) /\ Ended(file) /\ TextsIn(file, Known)
  <1>1. TypeOK /\ StorageInv /\ IdsInv
    BY DEF IInv
  <1>2. writing.phase \in {"none", "begun", "partly", "detached"}
    BY <1>1, StateIs
  <1>3. mem.open /\ writing.mutation \in Mutation /\ Valid(mem.log, writing.mutation) /\ writing.phase # "none"
    BY <1>1 DEF StorageInv
  <1>4. ValidLog(mem.log) /\ acked = mem.log /\ file # <<>> /\ Ended(file)
    BY <1>1, <1>3 DEF StorageInv
  <1>5. file \in Seq(Lines) /\ TextsIn(file, Known) /\ writing.mutation \in Known
    BY <1>1 DEF TypeOK, IdsInv
  <1> QED
    BY <1>2, <1>3, <1>4, <1>5

\* A part of the line is in the file.
LEMMA AppendPartStep == IInv /\ appendPart => IInv'
  <1> SUFFICES ASSUME IInv, appendPart PROVE IInv'
    OBVIOUS
  <1>1. /\ writing.phase = "begun"
        /\ writing' = [writing EXCEPT !.phase = "partly", !.glued = Unterminated(file)]
        /\ UNCHANGED <<mem, loader, fork, dest, acked, upset, issued, forks>>
    BY DEF appendPart
  <1>2. PICK text \in {Garbage, writing.mutation} : file' = Written(file, text, FALSE)
    BY DEF appendPart
  <1>3. TypeOK /\ StorageInv /\ IdsInv /\ ForkInv /\ FileInv
    BY DEF IInv
  <1>4. writing # NoWrite
    BY <1>1 DEF NoWrite
  <1>5. /\ mem.open /\ ValidLog(mem.log) /\ writing.mutation \in Mutation /\ writing.mutation \in Known
        /\ Valid(mem.log, writing.mutation)
        /\ file \in Seq(Lines) /\ Ended(file) /\ TextsIn(file, Known)
    BY <1>4, WritingIs
  <1>6. text \in Mutation \cup {Header, Garbage} /\ text \in Known /\ Garbage \in Known
    BY <1>2, <1>5, EmptyIs
  <1>7. file' \in Seq(Lines) /\ file' # <<>> /\ Ended(file') /\ TextsIn(file', Known)
    <2>1. PICK f : f = file
      OBVIOUS
    <2>2. f \in Seq(Lines) /\ Ended(f) /\ TextsIn(f, Known)
      BY <1>5, <2>1
    <2> QED
      BY <1>2, <1>6, <2>1, <2>2, WrittenIs
  <1>8. Unterminated(file) \in BOOLEAN
    BY DEF Unterminated
  <1>9. writing'.phase = "partly" /\ writing'.mutation = writing.mutation /\ writing'.glued = Unterminated(file)
    BY <1>1, <1>3 DEF TypeOK
  <1>10. writing' \in [phase : {"none", "begun", "partly", "detached"},
                       mutation : Mutation \cup {Garbage}, glued : BOOLEAN]
    BY <1>1, <1>3, <1>8 DEF TypeOK
  <1>11. TypeOK'
    BY <1>1, <1>3, <1>7, <1>10 DEF TypeOK
  <1>12. StorageInv'
    BY <1>1, <1>3, <1>5, <1>7, <1>9 DEF StorageInv
  <1>13. Known' = Known
    BY <1>1 DEF Known
  <1>14. IdsInv'
    BY <1>1, <1>3, <1>7, <1>9, <1>13 DEF IdsInv
  <1>15. ForkInv'
    BY <1>1, <1>3 DEF ForkInv
  <1>16. FileInv'
    <2> SUFFICES ASSUME upset \subseteq {"past"} PROVE Mirrored'
      BY <1>1, <1>5 DEF FileInv
    <2>1. file = CleanFile(mem.log)
      BY <1>1, <1>3, <1>5 DEF FileInv, Mirrored
    <2>2. ~ Unterminated(file)
      BY <1>5, <2>1, CleanLoads
    <2>3. file' = Append(CleanFile(mem.log), Line(text, FALSE))
      BY <1>2, <2>1, <2>2 DEF Written
    <2> QED
      BY <1>1, <1>2, <1>9, <2>2, <2>3 DEF Mirrored
  <1> QED
    BY <1>11, <1>12, <1>14, <1>15, <1>16 DEF IInv

\* The line an append ends up in is a line of the file.
LEMMA CompletedIs ==
    ASSUME IInv, writing # NoWrite
    PROVE  Completed \in Seq(Lines) /\ Completed # <<>> /\ Ended(Completed) /\ TextsIn(Completed, Known)
  <1>1. /\ writing.mutation \in Mutation /\ writing.mutation \in Known /\ file # <<>>
        /\ writing.phase \in {"begun", "partly", "detached"}
        /\ file \in Seq(Lines) /\ Ended(file) /\ TextsIn(file, Known) /\ Garbage \in Known
    BY WritingIs, EmptyIs
  <1>2. CASE writing.phase = "begun"
    <2>1. Completed = Written(file, writing.mutation, TRUE)
      BY <1>2 DEF Completed
    <2>2. PICK f, m : f = file /\ m = writing.mutation
      OBVIOUS
    <2>3. f \in Seq(Lines) /\ Ended(f) /\ TextsIn(f, Known)
      BY <1>1, <2>2
    <2>4. m \in Mutation \cup {Header, Garbage} /\ m \in Known /\ Garbage \in Known
      BY <1>1, <2>2
    <2> QED
      BY <2>1, <2>2, <2>3, <2>4, WrittenIs
  <1>3. CASE writing.phase = "detached"
    <2>1. Completed = file
      BY <1>3 DEF Completed
    <2> QED
      BY <1>1, <2>1
  <1>4. CASE writing.phase = "partly" /\ Unterminated(file)
    <2>1. PICK f, t : f = file /\ t = IF writing.glued THEN Garbage ELSE writing.mutation
      OBVIOUS
    <2>2. Completed = Append(Front(f), Line(t, TRUE))
      BY <1>4, <2>1 DEF Completed
    <2>3. t \in Known /\ t \in Mutation \cup {Header, Garbage}
      BY <1>1, <2>1
    <2>4. PICK x \in Lines : x = Line(t, TRUE) /\ x.text = t
      BY <2>3, LineIs
    <2>5. PICK b : b = Front(f)
      OBVIOUS
    <2>6. b \in Seq(Lines) /\ TextsIn(b, Known) /\ \A i \in 1..Len(b) : b[i].ended
      BY <1>1, <2>1, <2>5, LinesBefore
    <2>7. x.text \in Known
      BY <2>3, <2>4
    <2>8. Append(b, x) \in Seq(Lines) /\ Append(b, x) # <<>> /\ Ended(Append(b, x)) /\ TextsIn(Append(b, x), Known)
      BY <2>6, <2>7, LineAppended
    <2> QED
      BY <2>2, <2>4, <2>5, <2>8
  <1>5. CASE writing.phase = "partly" /\ ~ Unterminated(file)
    <2>1. PICK f : f = file
      OBVIOUS
    <2>2. Completed = Append(f, Line(Garbage, TRUE))
      BY <1>5, <2>1 DEF Completed
    <2>3. PICK x \in Lines : x = Line(Garbage, TRUE) /\ x.text = Garbage
      BY LineIs
    <2>4. f \in Seq(Lines) /\ TextsIn(f, Known) /\ \A i \in 1..Len(f) : f[i].ended
      BY <1>1, <1>5, <2>1, AllEnded
    <2>5. x.text \in Known
      BY <1>1, <2>3
    <2>6. Append(f, x) \in Seq(Lines) /\ Append(f, x) # <<>> /\ Ended(Append(f, x)) /\ TextsIn(Append(f, x), Known)
      BY <2>4, <2>5, LineAppended
    <2> QED
      BY <2>2, <2>3, <2>6
  <1> QED
    BY <1>1, <1>2, <1>3, <1>4, <1>5

\* Under a storage whose file nobody else touched, the mutation's line is added.
LEMMA CompletedClean ==
    ASSUME IInv, writing # NoWrite, upset \subseteq {"past"}
    PROVE  Completed = CleanFile(Append(mem.log, writing.mutation))
  <1>1. /\ mem.open /\ ValidLog(mem.log) /\ writing.mutation \in Mutation
        /\ writing.phase \in {"begun", "partly", "detached"}
    BY WritingIs
  <1>2. Mirrored
    BY <1>1 DEF IInv, FileInv
  <1>3. PICK log, m, c : log = mem.log /\ m = writing.mutation /\ c = CleanFile(log)
    OBVIOUS
  <1>4. ValidLog(log) /\ log \in Seq(Mutation) /\ m \in Mutation
    BY <1>1, <1>3 DEF ValidLog
  <1>5. c \in Seq(Lines)
    BY <1>3, <1>4, CleanIs
  <1>6. Append(c, Line(m, TRUE)) = CleanFile(Append(log, m))
    BY <1>3, <1>4, CleanAppend
  <1>7. Completed = Append(c, Line(m, TRUE))
    <2>1. CASE writing.phase = "begun"
      <3>1. file = c
        BY <1>2, <1>3, <2>1 DEF Mirrored
      <3>2. ~ Unterminated(file)
        BY <1>3, <1>4, <3>1, CleanLoads
      <3> QED
        BY <1>3, <2>1, <3>1, <3>2 DEF Completed, Written
    <2>2. CASE writing.phase # "begun"
      <3>1. writing.phase = "partly" /\ ~ writing.glued
        BY <1>1, <1>2, <2>2 DEF Mirrored
      <3>2. PICK text \in {Garbage, m} : file = Append(c, Line(text, FALSE))
        BY <1>1, <1>2, <1>3, <2>2 DEF Mirrored
      <3>3. PICK x \in Lines : x = Line(text, FALSE) /\ x.ended = FALSE
        BY <1>4, LineIs
      <3>4. Append(c, x) # <<>> /\ Last(Append(c, x)) = x /\ Front(Append(c, x)) = c
        BY <1>5, AppendIs
      <3>5. Unterminated(file) /\ Front(file) = c
        BY <3>2, <3>3, <3>4 DEF Unterminated
      <3> QED
        BY <1>3, <3>1, <3>5 DEF Completed
    <2> QED
      BY <2>1, <2>2
  <1> QED
    BY <1>3, <1>6, <1>7

\* appendMutation returns: the line is in the file, the mutation in memory.
LEMMA AppendMutationStep == IInv /\ appendMutation => IInv'
  <1> SUFFICES ASSUME IInv, appendMutation PROVE IInv'
    OBVIOUS
  <1>1. /\ writing # NoWrite /\ file' = Completed
        /\ mem' = [mem EXCEPT !.log = Append(@, writing.mutation)]
        /\ acked' = Append(acked, writing.mutation)
        /\ writing' = NoWrite
        /\ UNCHANGED <<loader, fork, dest, upset, issued, forks>>
    BY DEF appendMutation
  <1>2. TypeOK /\ StorageInv /\ IdsInv /\ ForkInv /\ FileInv
    BY DEF IInv
  <1>3. /\ mem.open /\ acked = mem.log /\ ValidLog(mem.log)
        /\ writing.mutation \in Mutation /\ writing.mutation \in Known
        /\ Valid(mem.log, writing.mutation)
    BY <1>1, WritingIs
  <1>4. file' \in Seq(Lines) /\ file' # <<>> /\ Ended(file') /\ TextsIn(file', Known)
    BY <1>1, CompletedIs
  <1>5. PICK log, m : log = mem.log /\ m = writing.mutation
    OBVIOUS
  <1>6. mem'.open = mem.open /\ mem'.log = Append(log, m) /\ acked' = Append(log, m)
    BY <1>1, <1>2, <1>3, <1>5 DEF TypeOK
  <1>7. ValidLog(log) /\ log \in Seq(Mutation) /\ m \in Mutation
    BY <1>3, <1>5 DEF ValidLog
  <1>8. ValidLog(Append(log, m)) /\ Append(log, m) \in Seq(Mutation)
    <2>1. ValidLog(Append(log, m))
      BY <1>3, <1>5, <1>7, ValidAppend
    <2> QED
      BY <2>1 DEF ValidLog
  <1>9. writing'.phase = "none" /\ writing'.mutation = Garbage
    BY <1>1 DEF NoWrite
  <1>10. TypeOK'
    <2>1. mem' \in [open : BOOLEAN, log : Seq(Mutation)]
      BY <1>1, <1>2, <1>5, <1>8 DEF TypeOK
    <2>2. writing' \in [phase : {"none", "begun", "partly", "detached"},
                        mutation : Mutation \cup {Garbage}, glued : BOOLEAN]
      BY <1>1 DEF NoWrite
    <2> QED
      BY <1>1, <1>2, <1>4, <1>6, <1>8, <2>1, <2>2 DEF TypeOK
  <1>11. StorageInv'
    BY <1>1, <1>2, <1>3, <1>4, <1>6, <1>8, <1>9 DEF StorageInv
  <1>12. Known' = Known
    BY <1>1 DEF Known
  <1>13. IdsInv'
    <2>1. PICK n : n = Append(log, m)
      OBVIOUS
    <2>2. Len(log) \in Nat /\ Len(n) = Len(log) + 1 /\ n[Len(log) + 1] = m /\ \A i \in 1..Len(log) : n[i] = log[i]
      BY <1>7, <2>1, AppendIs
    <2>3. \A i \in 1..Len(log) : log[i] \in Known
      BY <1>2, <1>5 DEF IdsInv
    <2>4. ASSUME NEW i \in 1..Len(n) PROVE n[i] \in Known
      <3>1. i \in 1..Len(log) \/ i = Len(log) + 1
        BY <2>2
      <3> QED
        BY <1>3, <1>5, <2>2, <2>3, <3>1
    <2> QED
      BY <1>1, <1>2, <1>4, <1>6, <1>9, <1>12, <2>1, <2>4, EmptyIs DEF IdsInv
  <1>14. ForkInv'
    BY <1>1, <1>2 DEF ForkInv
  <1>15. FileInv'
    <2> SUFFICES ASSUME upset \subseteq {"past"} PROVE Mirrored'
      BY <1>1, <1>3, <1>6 DEF FileInv
    <2>1. Completed = CleanFile(Append(log, m))
      BY <1>1, <1>5, CompletedClean
    <2> QED
      BY <1>1, <1>6, <1>9, <2>1 DEF Mirrored
  <1> QED
    BY <1>10, <1>11, <1>13, <1>14, <1>15 DEF IInv

\* A failed append counts as a disturbance unless nothing of it was written.
LEMMA AppendFailsStep == IInv /\ appendFails => IInv'
  <1> SUFFICES ASSUME IInv, appendFails PROVE IInv'
    OBVIOUS
  <1>1. /\ writing # NoWrite /\ writing' = NoWrite
        /\ upset' = IF writing.phase = "begun" THEN upset ELSE upset \cup {"append"}
        /\ UNCHANGED <<file, mem, loader, fork, dest, acked, issued, forks>>
    BY DEF appendFails
  <1>2. TypeOK /\ StorageInv /\ IdsInv /\ ForkInv /\ FileInv
    BY DEF IInv
  <1>3. mem.open /\ ValidLog(mem.log)
    BY <1>1, WritingIs
  <1>4. writing'.phase = "none" /\ writing'.mutation = Garbage
    BY <1>1 DEF NoWrite
  <1>5. TypeOK'
    <2>1. writing' \in [phase : {"none", "begun", "partly", "detached"},
                        mutation : Mutation \cup {Garbage}, glued : BOOLEAN]
      BY <1>1 DEF NoWrite
    <2>2. upset' \subseteq {"append", "fork", "past"}
      BY <1>1, <1>2 DEF TypeOK
    <2> QED
      BY <1>1, <1>2, <2>1, <2>2 DEF TypeOK
  <1>6. StorageInv'
    BY <1>1, <1>2, <1>4 DEF StorageInv
  <1>7. Known' = Known
    BY <1>1 DEF Known
  <1>8. IdsInv'
    BY <1>1, <1>2, <1>4, <1>7, EmptyIs DEF IdsInv
  <1>9. ForkInv'
    BY <1>1, <1>2 DEF ForkInv
  <1>10. FileInv'
    <2> SUFFICES ASSUME upset' \subseteq {"past"} PROVE Mirrored'
      BY <1>1, <1>3 DEF FileInv
    <2>1. writing.phase = "begun" /\ upset \subseteq {"past"}
      BY <1>1
    <2>2. file = CleanFile(mem.log)
      BY <1>2, <1>3, <2>1 DEF FileInv, Mirrored
    <2> QED
      BY <1>1, <1>4, <2>2 DEF Mirrored
  <1> QED
    BY <1>5, <1>6, <1>8, <1>9, <1>10 DEF IInv

\* load reads the file.
LEMMA LoadStep ==
    ASSUME IInv, NEW for \in {"open", "fork"}, load(for)
    PROVE  IInv'
  <1>1. /\ loader = NoLoad /\ file # <<>> /\ fork = <<>>
        /\ for = "open" => ~ mem.open
        /\ for = "fork" => forks < MaxForks
        /\ loader' = [for |-> for, content |-> file]
        /\ UNCHANGED <<file, mem, writing, fork, dest, acked, upset, issued, forks>>
    BY DEF load
  <1>2. TypeOK /\ StorageInv /\ IdsInv /\ ForkInv /\ FileInv
    BY DEF IInv
  <1>3. loader'.for = for /\ loader'.content = file
    BY <1>1
  <1>4. TypeOK'
    <2>1. loader' \in [for : {"none", "open", "fork"}, content : Seq(Lines)]
      BY <1>1, <1>2 DEF TypeOK
    <2> QED
      BY <1>1, <1>2, <2>1 DEF TypeOK
  <1>5. StorageInv'
    BY <1>1, <1>2, <1>3 DEF StorageInv
  <1>6. Known' = Known
    BY <1>1 DEF Known
  <1>7. IdsInv'
    BY <1>1, <1>2, <1>3, <1>6 DEF IdsInv
  <1>8. ForkInv'
    BY <1>1, <1>2, <1>3 DEF ForkInv
  <1>9. FileInv'
    BY <1>1, <1>2 DEF FileInv, Mirrored, Kept
  <1> QED
    BY <1>4, <1>5, <1>7, <1>8, <1>9 DEF IInv

\* A load that fails forgets what it read.
LEMMA LoadFailsStep == IInv /\ loadFails => IInv'
  <1> SUFFICES ASSUME IInv, loadFails PROVE IInv'
    OBVIOUS
  <1>1. /\ loader' = NoLoad
        /\ UNCHANGED <<file, mem, writing, fork, dest, acked, upset, issued, forks>>
    BY DEF loadFails
  <1>2. TypeOK /\ StorageInv /\ IdsInv /\ ForkInv /\ FileInv
    BY DEF IInv
  <1>3. loader'.for = "none" /\ loader'.content = <<>>
    BY <1>1 DEF NoLoad
  <1>4. TypeOK'
    <2>1. loader' \in [for : {"none", "open", "fork"}, content : Seq(Lines)]
      BY <1>1, EmptyIs DEF NoLoad
    <2> QED
      BY <1>1, <1>2, <2>1 DEF TypeOK
  <1>5. StorageInv'
    BY <1>1, <1>2, <1>3, EmptyIs DEF StorageInv
  <1>6. Known' = Known
    BY <1>1 DEF Known
  <1>7. IdsInv'
    BY <1>1, <1>2, <1>3, <1>6, EmptyIs DEF IdsInv
  <1>8. ForkInv'
    BY <1>1, <1>2, <1>3 DEF ForkInv
  <1>9. FileInv'
    BY <1>1, <1>2 DEF FileInv, Mirrored, Kept
  <1> QED
    BY <1>4, <1>5, <1>7, <1>8, <1>9 DEF IInv

\* A repair leaves a file, whatever became of the one that was read.
LEMMA RepairedIs ==
    ASSUME NEW f \in Seq(Lines), f # <<>>, Ended(f), NEW r \in Seq(Lines), r # <<>>, Ended(r),
           NEW T, TextsIn(f, T), TextsIn(r, T), Garbage \in T
    PROVE  LET w == Repaired(f, r)
           IN  w \in Seq(Lines) /\ w # <<>> /\ Ended(w) /\ TextsIn(w, T)
  <1>1. CASE TornTail(r)
    <2>1. Repaired(f, r) = Front(r) /\ Len(r) > 1
      BY <1>1 DEF Repaired, Parsed, TornTail
    <2>2. PICK b : b = Front(r)
      OBVIOUS
    <2>3. b \in Seq(Lines) /\ TextsIn(b, T) /\ b # <<>> /\ \A i \in 1..Len(b) : b[i].ended
      BY <2>1, <2>2, LinesBefore
    <2>4. Ended(b)
      BY <2>3 DEF Ended
    <2> QED
      BY <2>1, <2>2, <2>3, <2>4
  <1>2. CASE ~ TornTail(r) /\ Unterminated(r)
    <2>1. Repaired(f, r) = NewlineAppended(f)
      BY <1>2 DEF Repaired
    <2> QED
      BY <2>1, NewlineIs
  <1>3. CASE ~ TornTail(r) /\ ~ Unterminated(r)
    <2>1. Repaired(f, r) = f
      BY <1>3 DEF Repaired
    <2> QED
      BY <2>1
  <1> QED
    BY <1>1, <1>2, <1>3

\* What a loader replays is a log of known mutations.
LEMMA ReplayIs ==
    ASSUME IInv, loader # NoLoad, Loadable(loader.content)
    PROVE  /\ ValidLog(Recovered(loader.content))
           /\ Recovered(loader.content) \in Seq(Mutation)
           /\ \A i \in 1..Len(Recovered(loader.content)) : Recovered(loader.content)[i] \in Known
           /\ loader.content # <<>> /\ file # <<>>
           /\ loader.for \in {"open", "fork"}
  <1>1. PICK f, r : f = loader.content /\ r = Recovered(f)
    OBVIOUS
  <1>2. TypeOK /\ StorageInv /\ IdsInv
    BY DEF IInv
  <1>3. f \in Seq(Lines) /\ TextsIn(f, Known)
    BY <1>1, <1>2, StateIs DEF IdsInv
  <1>4. ValidLog(r) /\ f # <<>>
    BY <1>1, <1>3, LoadableIs
  <1>5. r \in Seq(Mutation)
    BY <1>4 DEF ValidLog
  <1>6. \A i \in DOMAIN r : r[i] = f[i + 1].text /\ i + 1 \in 1..Len(f)
    BY <1>1, <1>3, <1>4, RecoveredIs
  <1>7. DOMAIN r = 1..Len(r)
    BY <1>5
  <1>8. \A i \in 1..Len(r) : r[i] \in Known
    BY <1>3, <1>6, <1>7 DEF TextsIn
  <1>9. loader.for \in {"open", "fork"}
    BY <1>2, StateIs DEF StorageInv
  <1>10. file # <<>>
    BY <1>1, <1>2, <1>4 DEF StorageInv
  <1> QED
    BY <1>1, <1>4, <1>5, <1>8, <1>9, <1>10

\* open() has replayed the file and repaired it.
LEMMA OpenedStep ==
    ASSUME IInv, loaded, loader.for = "open"
    PROVE  /\ IInv'
           /\ ~ mem.open /\ Loadable(file) /\ file' = CleanFile(Recovered(file))
           /\ ValidLog(Recovered(file)) /\ acked' = Recovered(file)
           /\ upset' = IF upset = {} THEN {} ELSE {"past"}
  <1>1. /\ loader # NoLoad /\ Loadable(loader.content)
        /\ file' = Repaired(file, loader.content)
        /\ writing' = IF TornTail(loader.content) /\ writing.phase = "partly"
                      THEN [writing EXCEPT !.phase = "detached"] ELSE writing
        /\ mem' = [open |-> TRUE, log |-> Recovered(loader.content)]
        /\ acked' = Recovered(loader.content)
        /\ upset' = IF upset = {} THEN {} ELSE {"past"}
        /\ loader' = NoLoad
        /\ UNCHANGED <<fork, dest, issued, forks>>
    BY DEF loaded
  <1>2. TypeOK /\ StorageInv /\ IdsInv /\ ForkInv /\ FileInv
    BY DEF IInv
  <1>3. ~ mem.open /\ loader.content = file /\ writing = NoWrite
    BY <1>1, <1>2 DEF StorageInv
  <1>4. writing' = NoWrite
    BY <1>1, <1>3 DEF NoWrite
  <1>5. PICK f, r : f = file /\ r = Recovered(f)
    OBVIOUS
  <1>6. /\ Loadable(f) /\ f \in Seq(Lines) /\ Ended(f) /\ TextsIn(f, Known)
        /\ ValidLog(r) /\ r \in Seq(Mutation) /\ f # <<>>
        /\ \A i \in 1..Len(r) : r[i] \in Known
    BY <1>1, <1>2, <1>3, <1>5, ReplayIs DEF TypeOK, StorageInv, IdsInv
  <1>7. file' = CleanFile(r)
    <2>1. Repaired(f, f) = CleanFile(Recovered(f))
      BY <1>6, RepairIs
    <2> QED
      BY <1>1, <1>3, <1>5, <2>1
  <1>8. file' \in Seq(Lines) /\ file' # <<>> /\ Ended(file') /\ TextsIn(file', Known)
    <2>1. Repaired(f, f) \in Seq(Lines) /\ Repaired(f, f) # <<>> /\ Ended(Repaired(f, f)) /\ TextsIn(Repaired(f, f), Known)
      BY <1>6, EmptyIs, RepairedIs
    <2> QED
      BY <1>1, <1>3, <1>5, <2>1
  <1>9. mem'.open = TRUE /\ mem'.log = r /\ acked' = r
    BY <1>1, <1>3, <1>5
  <1>10. loader'.for = "none" /\ loader'.content = <<>> /\ writing'.phase = "none" /\ writing'.mutation = Garbage
    BY <1>1, <1>4 DEF NoLoad, NoWrite
  <1>11. TypeOK'
    <2>1. loader' \in [for : {"none", "open", "fork"}, content : Seq(Lines)]
      BY <1>1, EmptyIs DEF NoLoad
    <2>2. mem' \in [open : BOOLEAN, log : Seq(Mutation)]
      BY <1>1, <1>3, <1>5, <1>6
    <2>3. upset' \subseteq {"append", "fork", "past"}
      BY <1>1
    <2> QED
      BY <1>1, <1>2, <1>3, <1>4, <1>6, <1>8, <1>9, <2>1, <2>2, <2>3 DEF TypeOK
  <1>12. StorageInv'
    BY <1>1, <1>4, <1>6, <1>8, <1>9, <1>10, EmptyIs DEF StorageInv
  <1>13. Known' = Known
    BY <1>1 DEF Known
  <1>14. IdsInv'
    BY <1>6, <1>8, <1>9, <1>10, <1>13, EmptyIs DEF IdsInv
  <1>15. ForkInv'
    BY <1>1, <1>2, <1>10 DEF ForkInv
  <1>16. FileInv'
    BY <1>7, <1>9, <1>10 DEF FileInv, Mirrored
  <1>17. IInv'
    BY <1>11, <1>12, <1>14, <1>15, <1>16 DEF IInv
  <1> QED
    BY <1>1, <1>3, <1>5, <1>6, <1>7, <1>9, <1>17

\* fork() has replayed the file, and repaired it under whoever has it open.
LEMMA ForkedStep ==
    ASSUME IInv, loaded, loader.for = "fork"
    PROVE  /\ IInv'
           /\ UNCHANGED <<mem, acked>>
           /\ ~ mem.open => /\ Loadable(file) /\ file' = CleanFile(Recovered(file))
                            /\ ValidLog(Recovered(file)) /\ upset' = upset
           /\ mem.open /\ upset' \subseteq {"past"} => file' = file /\ upset' = upset
           /\ upset \subseteq upset'
  <1>1. /\ loader # NoLoad /\ Loadable(loader.content)
        /\ file' = Repaired(file, loader.content)
        /\ writing' = IF TornTail(loader.content) /\ writing.phase = "partly"
                      THEN [writing EXCEPT !.phase = "detached"] ELSE writing
        /\ fork' \in ForkOptions(Recovered(loader.content))
        /\ upset' = IF mem.open /\ (TornTail(loader.content) \/ Unterminated(loader.content))
                    THEN upset \cup {"fork"} ELSE upset
        /\ loader' = NoLoad
        /\ UNCHANGED <<mem, acked, dest, issued, forks>>
    BY DEF loaded
  <1>2. TypeOK /\ StorageInv /\ IdsInv /\ ForkInv /\ FileInv
    BY DEF IInv
  <1>3. PICK f, c, r : f = file /\ c = loader.content /\ r = Recovered(c)
    OBVIOUS
  <1>4. /\ Loadable(c) /\ c \in Seq(Lines) /\ Ended(c) /\ TextsIn(c, Known) /\ c # <<>>
        /\ f \in Seq(Lines) /\ Ended(f) /\ TextsIn(f, Known) /\ f # <<>>
        /\ ValidLog(r)
    BY <1>1, <1>2, <1>3, ReplayIs, StateIs DEF TypeOK, StorageInv, IdsInv
  <1>5. file' \in Seq(Lines) /\ file' # <<>> /\ Ended(file') /\ TextsIn(file', Known)
    <2>1. PICK w : w = Repaired(f, c)
      OBVIOUS
    <2>2. w \in Seq(Lines) /\ w # <<>> /\ Ended(w) /\ TextsIn(w, Known)
      BY <1>4, <2>1, EmptyIs, RepairedIs
    <2> QED
      BY <1>1, <1>3, <2>1, <2>2
  <1>6. ValidLog(fork') /\ fork' \in Seq(Mutation)
    <2>1. PICK k : k = fork'
      OBVIOUS
    <2>2. ValidLog(k)
      BY <1>1, <1>3, <1>4, <2>1, ForkOptionsAreValid
    <2> QED
      BY <2>1, <2>2 DEF ValidLog
  <1>7. loader'.for = "none" /\ loader'.content = <<>>
    BY <1>1 DEF NoLoad
  <1>8. /\ writing' \in [phase : {"none", "begun", "partly", "detached"},
                         mutation : Mutation \cup {Garbage}, glued : BOOLEAN]
        /\ writing'.mutation = writing.mutation
        /\ writing.phase # "partly" => writing' = writing
        /\ writing.phase = "partly" => writing'.phase # "none"
        /\ writing = NoWrite => writing' = NoWrite
    <2>1. writing = NoWrite => writing.phase # "partly"
      BY DEF NoWrite
    <2>2. writing.phase # "partly" => writing' = writing
      BY <1>1
    <2>3. PICK w, v : w = writing /\ v = writing'
      OBVIOUS
    <2>4. /\ w \in [phase : {"none", "begun", "partly", "detached"},
                   mutation : Mutation \cup {Garbage}, glued : BOOLEAN]
          /\ v = w \/ v = [w EXCEPT !.phase = "detached"]
      BY <1>1, <1>2, <2>3 DEF TypeOK
    <2>5. /\ v \in [phase : {"none", "begun", "partly", "detached"},
                   mutation : Mutation \cup {Garbage}, glued : BOOLEAN]
          /\ v.mutation = w.mutation /\ (w.phase = "partly" => v.phase # "none")
      BY <2>4
    <2> QED
      BY <2>1, <2>2, <2>3, <2>5
  <1>9. TypeOK'
    <2>1. loader' \in [for : {"none", "open", "fork"}, content : Seq(Lines)]
      BY <1>1, EmptyIs DEF NoLoad
    <2>2. upset' \subseteq {"append", "fork", "past"}
      BY <1>1, <1>2 DEF TypeOK
    <2> QED
      BY <1>1, <1>2, <1>5, <1>6, <1>8, <2>1, <2>2 DEF TypeOK
  <1>10. StorageInv'
    <2>1. writing' # NoWrite => writing # NoWrite
      BY <1>8
    <2>2. writing'.phase = "none" => writing' = NoWrite
      BY <1>2, <1>8 DEF StorageInv
    <2> QED
      BY <1>1, <1>2, <1>5, <1>7, <1>8, <2>1, <2>2, EmptyIs DEF StorageInv
  <1>11. Known' = Known
    BY <1>1 DEF Known
  <1>12. IdsInv'
    BY <1>1, <1>2, <1>5, <1>7, <1>8, <1>11, EmptyIs DEF IdsInv
  <1>13. ForkInv'
    BY <1>1, <1>2, <1>6, <1>7 DEF ForkInv
  <1>14. ASSUME ~ mem.open
         PROVE  Loadable(file) /\ file' = CleanFile(Recovered(file)) /\ ValidLog(Recovered(file)) /\ upset' = upset
    <2>1. c = f
      BY <1>1, <1>2, <1>3, <1>14 DEF StorageInv
    <2>2. Repaired(f, f) = CleanFile(Recovered(f))
      BY <1>4, <2>1, RepairIs
    <2> QED
      BY <1>1, <1>3, <1>4, <1>14, <2>1, <2>2
  <1>15. ASSUME mem.open, upset' \subseteq {"past"}
         PROVE  file' = file /\ upset' = upset /\ writing' = writing
    <2>1. ~ TornTail(loader.content) /\ ~ Unterminated(loader.content)
      BY <1>1, <1>15
    <2> QED
      BY <1>1, <2>1 DEF Repaired
  <1>16. FileInv'
    <2> SUFFICES ASSUME upset' \subseteq {"past"}
                 PROVE  (mem.open => Mirrored') /\ (~ mem.open => Kept')
      BY <1>1 DEF FileInv
    <2>1. CASE mem.open
      BY <1>1, <1>2, <1>15, <2>1 DEF FileInv, Mirrored
    <2>2. CASE ~ mem.open
      <3>1. Kept
        BY <1>2, <1>14, <2>2 DEF FileInv
      <3>2. Loadable(file) /\ Loadable(file') /\ Recovered(file') = Recovered(file)
        BY <1>14, <2>2, CleanLoads
      <3> QED
        BY <1>1, <2>2, <3>1, <3>2 DEF Kept
    <2> QED
      BY <2>1, <2>2
  <1>17. IInv'
    BY <1>9, <1>10, <1>12, <1>13, <1>16 DEF IInv
  <1>18. upset \subseteq upset'
    BY <1>1
  <1> QED
    BY <1>1, <1>14, <1>15, <1>17, <1>18

\* A fork is renamed to its place, or given up.
LEMMA PublishStep == IInv /\ publishFileAtomically => IInv'
  <1> SUFFICES ASSUME IInv, publishFileAtomically PROVE IInv'
    OBVIOUS
  <1>1. /\ fork # <<>> /\ fork' = <<>>
        /\ UNCHANGED <<file, mem, writing, loader, acked, upset, issued>>
    BY DEF publishFileAtomically
  <1>2. TypeOK /\ StorageInv /\ IdsInv /\ ForkInv /\ FileInv
    BY DEF IInv
  <1>3. loader = NoLoad /\ loader.for = "none" /\ forks < MaxForks /\ ValidLog(fork)
    BY <1>1, <1>2, StateIs DEF ForkInv
  <1>4. /\ dest' \in Seq(Lines) /\ forks' \in 0..MaxForks
        /\ dest' # <<>> => ValidLog(Recovered(dest')) /\ dest' = CleanFile(Recovered(dest'))
    <2>1. CASE UNCHANGED <<dest, forks>>
      BY <1>2, <2>1 DEF TypeOK, ForkInv
    <2>2. CASE /\ dest' = <<Line(Header, TRUE)>> \o [i \in DOMAIN fork |-> Line(fork[i], TRUE)]
               /\ forks' = forks + 1
      <3>1. PICK log : log = fork
        OBVIOUS
      <3>2. ValidLog(log) /\ log \in Seq(Mutation)
        BY <1>3, <3>1 DEF ValidLog
      <3>3. dest' = CleanFile(log)
        BY <2>2, <3>1, <3>2, ForkFileIs
      <3>4. Recovered(CleanFile(log)) = log /\ CleanFile(log) \in Seq(Lines)
        BY <3>2, CleanLoads, CleanIs
      <3>5. forks' \in 0..MaxForks
        BY <1>2, <1>3, <2>2, JsonlAssumption DEF TypeOK
      <3> QED
        BY <3>2, <3>3, <3>4, <3>5
    <2> QED
      BY <2>1, <2>2 DEF publishFileAtomically
  <1>5. TypeOK'
    BY <1>1, <1>2, <1>4, EmptyIs DEF TypeOK
  <1>6. StorageInv'
    BY <1>1, <1>2 DEF StorageInv
  <1>7. Known' = Known
    BY <1>1 DEF Known
  <1>8. IdsInv'
    BY <1>1, <1>2, <1>7 DEF IdsInv
  <1>9. ForkInv'
    BY <1>1, <1>3, <1>4, EmptyIs DEF ForkInv
  <1>10. FileInv'
    BY <1>1, <1>2 DEF FileInv, Mirrored, Kept
  <1> QED
    BY <1>5, <1>6, <1>8, <1>9, <1>10 DEF IInv

\* delete() removes a file nobody has open.
LEMMA DeleteStep == IInv /\ delete => IInv'
  <1> SUFFICES ASSUME IInv, delete PROVE IInv'
    OBVIOUS
  <1>1. /\ ~ mem.open /\ loader = NoLoad /\ file' = <<>> /\ acked' = <<>> /\ upset' = {}
        /\ UNCHANGED <<mem, writing, loader, fork, dest, issued, forks>>
    BY DEF delete
  <1>2. TypeOK /\ StorageInv /\ IdsInv /\ ForkInv
    BY DEF IInv
  <1>3. TypeOK'
    BY <1>1, <1>2, EmptyIs DEF TypeOK
  <1>4. StorageInv'
    BY <1>1, <1>2, EmptyIs DEF StorageInv
  <1>5. Known' = Known
    BY <1>1 DEF Known
  <1>6. IdsInv'
    BY <1>1, <1>2, <1>5, EmptyIs DEF IdsInv
  <1>7. ForkInv'
    BY <1>1, <1>2 DEF ForkInv
  <1>8. FileInv'
    <2>1. ~ Loadable(file')
      BY <1>1 DEF Loadable
    <2> QED
      BY <1>1, <2>1 DEF FileInv, Kept
  <1> QED
    BY <1>3, <1>4, <1>6, <1>7, <1>8 DEF IInv

\* A log is a prefix of itself and of itself with one more mutation.
LEMMA PrefixOfAppend ==
    ASSUME NEW S, NEW s \in Seq(S), NEW x \in S
    PROVE  IsPrefix(s, s) /\ IsPrefix(s, Append(s, x)) /\ Len(Append(s, x)) = Len(s) + 1 /\ Len(s) <= Len(s) + 1
  <1>1. PICK t : t = Append(s, x)
    OBVIOUS
  <1>2. t \in Seq(S) /\ Len(s) \in Nat /\ Len(t) = Len(s) + 1 /\ \A i \in 1..Len(s) : t[i] = s[i]
    BY <1>1, AppendIs
  <1>3. IsPrefix(s, s)
    BY <1>2, PrefixEqual
  <1>4. Len(s) <= Len(t)
    BY <1>2
  <1>5. IsPrefix(s, t)
    BY <1>2, <1>4, PrefixEqual
  <1> QED
    BY <1>1, <1>2, <1>3, <1>5

\* Under a storage whose file nobody else touched, the file holds what is in
\* memory, and of the mutation being appended either nothing or all of it.
LEMMA MirroredLoads ==
    ASSUME IInv, mem.open, Mirrored
    PROVE  /\ Loadable(file) /\ ValidLog(mem.log)
           /\ \/ Recovered(file) = mem.log
              \/ /\ writing # NoWrite /\ writing.mutation \in Mutation
                 /\ Recovered(file) = Append(mem.log, writing.mutation)
  <1>1. ValidLog(mem.log)
    BY DEF IInv, StorageInv
  <1>2. PICK log : log = mem.log
    OBVIOUS
  <1>3. CASE file = CleanFile(mem.log)
    BY <1>1, <1>3, CleanLoads
  <1>4. CASE file = Append(CleanFile(mem.log), Line(Garbage, FALSE))
    <2>1. Loadable(Append(CleanFile(log), Line(Garbage, FALSE))) /\ Recovered(Append(CleanFile(log), Line(Garbage, FALSE))) = log
      BY <1>1, <1>2, TornLoads
    <2> QED
      BY <1>1, <1>2, <1>4, <2>1
  <1>5. CASE writing.phase = "partly" /\ file = Append(CleanFile(mem.log), Line(writing.mutation, FALSE))
    <2>1. writing # NoWrite
      BY <1>5 DEF NoWrite
    <2>2. PICK m \in Mutation : m = writing.mutation
      BY <2>1, WritingIs
    <2>3. Valid(log, m)
      BY <1>2, <2>1, <2>2, WritingIs
    <2>4. Loadable(Append(CleanFile(log), Line(m, FALSE))) /\ Recovered(Append(CleanFile(log), Line(m, FALSE))) = Append(log, m)
      BY <1>1, <1>2, <2>3, ExtendedLoads
    <2> QED
      BY <1>1, <1>2, <1>5, <2>1, <2>2, <2>4
  <1> QED
    BY <1>3, <1>4, <1>5 DEF Mirrored

\* So the file keeps what was acknowledged, with or without a storage.
LEMMA FileKeeps ==
    ASSUME IInv, upset \subseteq {"past"}
    PROVE  Kept
  <1>1. CASE ~ mem.open
    BY <1>1 DEF IInv, FileInv
  <1>2. CASE mem.open
    <2>1. Mirrored /\ acked = mem.log
      BY <1>2 DEF IInv, FileInv, StorageInv
    <2>2. PICK log, r : log = mem.log /\ r = Recovered(file)
      OBVIOUS
    <2>3. /\ Loadable(file) /\ log \in Seq(Mutation)
          /\ r = log \/ (writing.mutation \in Mutation /\ r = Append(log, writing.mutation))
      BY <1>2, <2>1, <2>2, MirroredLoads DEF ValidLog
    <2>4. IsPrefix(log, r) /\ Len(r) <= Len(log) + 1
      <3>1. PICK g : g \in Mutation /\ g.seq = 0
        <4>1. [seq |-> 0, id |-> 0, kind |-> "fact", lane |-> NoLane, ref |-> 0] \in Mutation
          BY JsonlAssumption DEF Mutation, Kinds
        <4> QED
          BY <4>1
      <3>2. IsPrefix(log, log) /\ Len(log) <= Len(log) + 1
        BY <2>3, <3>1, PrefixOfAppend
      <3>3. CASE r = log
        BY <3>2, <3>3
      <3>4. CASE writing.mutation \in Mutation /\ r = Append(log, writing.mutation)
        <4>1. PICK m \in Mutation : m = writing.mutation
          BY <3>4
        <4>2. IsPrefix(log, Append(log, m)) /\ Len(Append(log, m)) = Len(log) + 1
          BY <2>3, PrefixOfAppend
        <4>3. Len(log) \in Nat
          BY <2>3
        <4> QED
          BY <3>4, <4>1, <4>2, <4>3
      <3> QED
        BY <2>3, <3>3, <3>4
    <2> QED
      BY <2>1, <2>2, <2>3, <2>4 DEF Kept
  <1> QED
    BY <1>1, <1>2

\* The process dies.
LEMMA CrashStep == IInv /\ crash => IInv'
  <1> SUFFICES ASSUME IInv, crash PROVE IInv'
    OBVIOUS
  <1>1. /\ mem' = Closed /\ writing' = NoWrite /\ loader' = NoLoad /\ fork' = <<>>
        /\ UNCHANGED <<file, dest, acked, upset, issued, forks>>
    BY DEF crash
  <1>2. TypeOK /\ StorageInv /\ IdsInv /\ ForkInv
    BY DEF IInv
  <1>3. /\ mem'.open = FALSE /\ mem'.log = <<>> /\ loader'.for = "none" /\ loader'.content = <<>>
        /\ writing'.phase = "none" /\ writing'.mutation = Garbage
    BY <1>1 DEF Closed, NoLoad, NoWrite
  <1>4. TypeOK'
    <2>1. mem' \in [open : BOOLEAN, log : Seq(Mutation)]
      BY <1>1, EmptyIs DEF Closed
    <2>2. writing' \in [phase : {"none", "begun", "partly", "detached"},
                        mutation : Mutation \cup {Garbage}, glued : BOOLEAN]
      BY <1>1 DEF NoWrite
    <2>3. loader' \in [for : {"none", "open", "fork"}, content : Seq(Lines)]
      BY <1>1, EmptyIs DEF NoLoad
    <2> QED
      BY <1>1, <1>2, <2>1, <2>2, <2>3, EmptyIs DEF TypeOK
  <1>5. StorageInv'
    BY <1>1, <1>2, <1>3, EmptyIs DEF StorageInv
  <1>6. Known' = Known
    BY <1>1 DEF Known
  <1>7. IdsInv'
    BY <1>1, <1>2, <1>3, <1>6, EmptyIs DEF IdsInv
  <1>8. ForkInv'
    BY <1>1, <1>2, <1>3, EmptyIs DEF ForkInv
  <1>9. FileInv'
    BY <1>1, <1>3, FileKeeps DEF FileInv, Kept
  <1> QED
    BY <1>4, <1>5, <1>7, <1>8, <1>9 DEF IInv

\* A stuttering step.
LEMMA StutterStep == IInv /\ UNCHANGED vars => IInv'
  <1> SUFFICES ASSUME IInv, UNCHANGED vars PROVE IInv'
    OBVIOUS
  <1>1. UNCHANGED <<file, mem, writing, loader, fork, dest, acked, upset, issued, forks>>
    BY DEF vars
  <1>2. Known' = Known
    BY <1>1 DEF Known
  <1> QED
    BY <1>1, <1>2 DEF IInv, TypeOK, StorageInv, IdsInv, ForkInv, FileInv, Mirrored, Kept

-----------------------------------------------------------------------------
(* The theorems *)

\* Every step keeps the invariant.
LEMMA Inductive == IInv /\ [Next]_vars => IInv'
  <1> SUFFICES ASSUME IInv, [Next]_vars PROVE IInv'
    OBVIOUS
  <1>1. CASE load("open") \/ load("fork")
    BY <1>1, LoadStep
  <1>2. CASE loaded
    <2>1. loader # NoLoad /\ (loader.for = "open" \/ loader.for = "fork")
      BY <1>2 DEF loaded
    <2> QED
      BY <1>2, <2>1, OpenedStep, ForkedStep
  <1> QED
    BY <1>1, <1>2, CreateStep, EnqueueStep, AppendPartStep, AppendMutationStep, AppendFailsStep,
       LoadFailsStep, PublishStep, DeleteStep, CrashStep, StutterStep DEF Next

\* The inductive invariant holds at every moment of every execution of the
\* storage, the repository and the crashes.
THEOREM InvCorrect == Spec => []IInv
  <1> QED
    BY Initial, Inductive, PTL DEF Spec

\* TypeOK for every number of lanes, mutations and forks: every line of a file
\* is the header, one mutation or garbage, and every text a storage, a load or
\* a fork handles is a mutation.
THEOREM TypeCorrect == Spec => []TypeOK
  <1>1. IInv => TypeOK
    BY DEF IInv
  <1> QED
    BY <1>1, InvCorrect, PTL

\* The file loads and gives back every mutation callers were told of, whenever
\* the process dies: within an append, between an append and its
\* acknowledgement, within the repair of an earlier crash.
THEOREM CrashSafe == Spec => []CrashesAreHarmless
  <1>1. ASSUME IInv, upset \subseteq {"past"} PROVE Durable
    <2>1. Kept
      BY <1>1, FileKeeps
    <2> QED
      BY <2>1 DEF Kept, Durable
  <1>2. IInv => CrashesAreHarmless
    BY <1>1 DEF CrashesAreHarmless
  <1> QED
    BY <1>2, InvCorrect, PTL

\* While no append is open, replaying the file gives the state in memory, and
\* no tail is left for the next append to run into.
THEOREM MemoryCorrect == Spec => []MemoryMirrorsFile
  <1>1. ASSUME IInv, mem.open, writing = NoWrite, upset \subseteq {"past"}
        PROVE  Loadable(file) /\ Recovered(file) = mem.log /\ ~ TornTail(file)
    <2>1. Mirrored /\ ValidLog(mem.log)
      BY <1>1 DEF IInv, FileInv, StorageInv
    <2>2. file = CleanFile(mem.log)
      BY <1>1, <2>1 DEF Mirrored, NoWrite
    <2> QED
      BY <2>1, <2>2, CleanLoads
  <1>2. IInv => MemoryMirrorsFile
    BY <1>1 DEF MemoryMirrorsFile
  <1> QED
    BY <1>2, InvCorrect, PTL

\* A published fork loads without repair, and no lane of it points at an entry
\* that was not copied, whichever branch was forked and from whatever log.
THEOREM ForkCorrect == Spec => []ForkReplays
  <1>1. ASSUME IInv, dest # <<>>
        PROVE  /\ Loadable(dest) /\ ~ TornTail(dest)
               /\ \A l \in Lanes : Leaf(Recovered(dest), l) \in {0, Absent} \cup Entries(Recovered(dest))
    <2>1. PICK r : r = Recovered(dest)
      OBVIOUS
    <2>2. ValidLog(r) /\ dest = CleanFile(r)
      BY <1>1, <2>1 DEF IInv, ForkInv
    <2>3. Loadable(dest) /\ ~ TornTail(dest)
      BY <2>2, CleanLoads
    <2>4. \A l \in Lanes : Leaf(r, l) \in {0, Absent} \cup Entries(r)
      BY <2>2, LeafIs
    <2> QED
      BY <2>1, <2>3, <2>4
  <1>2. IInv => ForkReplays
    BY <1>1 DEF ForkReplays
  <1> QED
    BY <1>2, InvCorrect, PTL

-----------------------------------------------------------------------------
(* The storage implements the log that a SessionStorage promises *)

\* What a reader of the file would find.
Stored == IF Loadable(file) THEN Range(Recovered(file)) ELSE {}

\* The mutations of a log, as a set.
LEMMA RangeIs ==
    ASSUME NEW log \in Seq(Mutation), NEW m \in Mutation
    PROVE  /\ Range(Append(log, m)) = Range(log) \cup {m}
           /\ Len(log) = 0 => Range(log) = {}
  <1>1. PICK n : n = Append(log, m)
    OBVIOUS
  <1>2. /\ n \in Seq(Mutation) /\ Len(log) \in Nat /\ Len(n) = Len(log) + 1 /\ n[Len(log) + 1] = m
        /\ \A i \in 1..Len(log) : n[i] = log[i]
    BY <1>1, AppendIs
  <1>3. DOMAIN log = 1..Len(log) /\ DOMAIN n = 1..(Len(log) + 1)
    BY <1>2
  <1>4. \A i : i \in DOMAIN n <=> i \in DOMAIN log \/ i = Len(log) + 1
    BY <1>2, <1>3
  <1>5. Range(n) = Range(log) \cup {m}
    BY <1>2, <1>3, <1>4 DEF Range
  <1>6. Len(log) = 0 => DOMAIN log = {}
    BY <1>3
  <1> QED
    BY <1>1, <1>5, <1>6 DEF Range

\* A log has as many mutations as its length says: no number is used twice.
LEMMA LogCardinality ==
    ASSUME NEW log, ValidLog(log)
    PROVE  Cardinality(Range(log)) = Len(log)
  <1>1. log \in Seq(Mutation) /\ \A i \in 1..Len(log) : log[i].seq = i
    BY ValidLogIs DEF ValidLog
  <1>2. Len(log) \in Nat /\ DOMAIN log = 1..Len(log)
    BY <1>1
  <1>3. log \in [1..Len(log) -> Range(log)]
    <2>1. log = [i \in 1..Len(log) |-> log[i]]
      BY <1>1
    <2>2. \A i \in 1..Len(log) : log[i] \in Range(log)
      BY <1>2 DEF Range
    <2> QED
      BY <2>1, <2>2
  <1>4. IsInjective(log)
    BY <1>1, <1>2 DEF IsInjective
  <1>5. \A t \in Range(log) : \E i \in 1..Len(log) : log[i] = t
    BY <1>2 DEF Range
  <1>6. ExistsBijection(1..Len(log), Range(log))
    BY <1>3, <1>4, <1>5 DEF ExistsBijection, Bijection, Injection, Surjection
  <1>7. IsFiniteSet(1..Len(log)) /\ Cardinality(1..Len(log)) = Len(log)
    <2>1. PICK n \in Nat : n = Len(log)
      BY <1>2
    <2>2. IsFiniteSet(1..n) /\ Cardinality(1..n) = IF 1 > n THEN 0 ELSE n - 1 + 1
      BY FS_Interval
    <2> QED
      BY <2>1, <2>2
  <1> QED
    BY <1>6, <1>7, FS_Bijection

\* The mutation an operation makes has the number that the log gives out next.
LEMMA NextNumber ==
    ASSUME NEW log, ValidLog(log), NEW m \in Mutation, Valid(log, m)
    PROVE  /\ Range(Append(log, m)) = Range(log) \cup {m} /\ m \in Range(Append(log, m))
           /\ m.seq = Cardinality(Range(log)) + 1
  <1>1. log \in Seq(Mutation) /\ Cardinality(Range(log)) = Len(log)
    BY LogCardinality DEF ValidLog
  <1>2. m.seq = Len(log) + 1
    BY DEF Valid
  <1>3. Range(Append(log, m)) = Range(log) \cup {m}
    BY <1>1, RangeIs
  <1> QED
    BY <1>1, <1>2, <1>3

\* Steps of the log.
LEMMA LogSteps ==
    /\ Stored' = Stored /\ Range(acked)' = Range(acked) /\ upset' = upset => UNCHANGED Log!vars
    /\ ~ (upset' \subseteq {"past"}) => Log!Next
    /\ ~ (upset \subseteq {"past"}) /\ upset' \subseteq {"past"} /\ Range(acked)' = Stored' => Log!Next
    /\ upset \subseteq {"past"} /\ upset' \subseteq {"past"} =>
         /\ Range(acked)' = Stored /\ Stored' = Stored => Log!Next
         /\ Stored' = {} /\ Range(acked)' = {} => Log!Next
         /\ /\ Range(acked) = Stored
            /\ \E m \in Stored' : Stored' = Stored \cup {m} /\ m.seq = Cardinality(Stored) + 1
            /\ Range(acked)' = Range(acked) \/ Range(acked)' = Stored'
            => Log!Next
  <1>1. \A S : Log!Cardinality(S) = Cardinality(S)
    BY DEF Log!Cardinality, Cardinality
  <1>2. (Stored' = Stored /\ Range(acked)' = Range(acked) /\ upset' = upset) => UNCHANGED Log!vars
    BY DEF Log!vars, Stored
  <1>3. ~ (upset' \subseteq {"past"}) => Log!Next
    BY DEF Log!Next, Log!Break
  <1>4. ~ (upset \subseteq {"past"}) /\ upset' \subseteq {"past"} /\ Range(acked)' = Stored' => Log!Next
    BY DEF Log!Next, Log!Reload, Stored
  <1>5. ASSUME upset \subseteq {"past"}, upset' \subseteq {"past"}, Range(acked)' = Stored, Stored' = Stored
        PROVE  Log!Next
    BY <1>5 DEF Log!Next, Log!Accept, Stored
  <1>6. ASSUME upset \subseteq {"past"}, upset' \subseteq {"past"}, Stored' = {}, Range(acked)' = {}
        PROVE  Log!Next
    BY <1>6 DEF Log!Next, Log!Delete, Stored
  <1>7. ASSUME upset \subseteq {"past"}, upset' \subseteq {"past"}, Range(acked) = Stored,
               \E m \in Stored' : Stored' = Stored \cup {m} /\ m.seq = Cardinality(Stored) + 1,
               Range(acked)' = Range(acked) \/ Range(acked)' = Stored'
        PROVE  Log!Next
    <2>1. Log!Extended
      BY <1>1, <1>7 DEF Log!Extended, Stored
    <2> QED
      BY <1>7, <2>1 DEF Log!Next, Log!Store, Log!Commit, Stored
  <1> QED
    BY <1>2, <1>3, <1>4, <1>5, <1>6, <1>7

\* The file of a log, as a reader finds it.
LEMMA CleanStored ==
    ASSUME NEW log, ValidLog(log)
    PROVE  /\ file = CleanFile(log) => Stored = Range(log)
           /\ file' = CleanFile(log) => Stored' = Range(log)
  BY CleanLoads DEF Stored

\* A file of one line holds no mutation.
LEMMA CreateLogStep ==
    ASSUME IInv, create
    PROVE  Stored' = Stored /\ Range(acked)' = Range(acked) /\ upset' = upset
  <1>1. file = <<>> /\ UNCHANGED <<acked, upset>> /\ \E text \in {Header, Garbage}, ended \in BOOLEAN : file' = <<Line(text, ended)>>
    BY DEF create
  <1>2. PICK text \in {Header, Garbage}, ended \in BOOLEAN : file' = <<Line(text, ended)>>
    BY <1>1
  <1>3. PICK x \in Lines : x = Line(text, ended)
    BY LineIs
  <1>4. PICK f : f = <<x>>
    OBVIOUS
  <1>5. f \in Seq(Lines) /\ f # <<>> /\ Len(f) = 1
    BY <1>4
  <1>6. ~ TornTail(f)
    BY <1>5 DEF TornTail
  <1>7. DOMAIN Recovered(f) = 1..(Len(f) - 1)
    BY <1>5, <1>6, RecoveredIs
  <1>8. DOMAIN Recovered(f) = {}
    BY <1>5, <1>7
  <1>9. Range(Recovered(f)) = {}
    BY <1>8 DEF Range
  <1>10. Stored = {}
    BY <1>1 DEF Stored, Loadable
  <1>11. Stored' = {}
    BY <1>2, <1>3, <1>4, <1>9 DEF Stored
  <1> QED
    BY <1>1, <1>10, <1>11

\* A line, or a part of it, is written.
LEMMA AppendPartLogStep ==
    ASSUME IInv, appendPart, upset \subseteq {"past"}
    PROVE  [Log!Next]_(Log!vars)
  <1>1. writing.phase = "begun" /\ UNCHANGED <<mem, acked, upset>>
    BY DEF appendPart
  <1>2. writing # NoWrite
    BY <1>1 DEF NoWrite
  <1>3. PICK log, m : log = mem.log /\ m = writing.mutation
    OBVIOUS
  <1>4. mem.open /\ acked = log /\ ValidLog(log) /\ m \in Mutation /\ Valid(log, m)
    BY <1>2, <1>3, WritingIs
  <1>5. file = CleanFile(log)
    BY <1>1, <1>3, <1>4 DEF IInv, FileInv, Mirrored
  <1>6. ~ Unterminated(file)
    BY <1>4, <1>5, CleanLoads
  <1>7. PICK text \in {Garbage, m} : file' = Append(CleanFile(log), Line(text, FALSE))
    BY <1>3, <1>5, <1>6 DEF appendPart, Written
  <1>8. Stored = Range(log)
    BY <1>4, <1>5, CleanStored
  <1>9. CASE text = Garbage
    <2>1. Loadable(file') /\ Recovered(file') = log
      BY <1>4, <1>7, <1>9, TornLoads
    <2>2. Stored' = Stored
      BY <1>8, <2>1 DEF Stored
    <2> QED
      BY <1>1, <2>2, LogSteps
  <1>10. CASE text = m
    <2>1. Loadable(file') /\ Recovered(file') = Append(log, m)
      BY <1>4, <1>7, <1>10, ExtendedLoads
    <2>2. Stored' = Range(Append(log, m))
      BY <2>1 DEF Stored
    <2>3. m \in Stored' /\ Stored' = Stored \cup {m} /\ m.seq = Cardinality(Stored) + 1
      BY <1>4, <1>8, <2>2, NextNumber
    <2> QED
      BY <1>1, <1>4, <1>8, <2>3, LogSteps
  <1> QED
    BY <1>7, <1>9, <1>10

\* An append is acknowledged.
LEMMA AppendMutationLogStep ==
    ASSUME IInv, appendMutation, upset \subseteq {"past"}
    PROVE  Log!Next
  <1>1. /\ writing # NoWrite /\ file' = Completed /\ acked' = Append(acked, writing.mutation)
        /\ UNCHANGED upset
    BY DEF appendMutation
  <1>2. PICK log, m : log = mem.log /\ m = writing.mutation
    OBVIOUS
  <1>3. mem.open /\ acked = log /\ ValidLog(log) /\ m \in Mutation /\ Valid(log, m)
    BY <1>1, <1>2, WritingIs
  <1>4. file' = CleanFile(Append(log, m)) /\ acked' = Append(log, m)
    BY <1>1, <1>2, <1>3, CompletedClean
  <1>5. ValidLog(Append(log, m))
    BY <1>3, ValidAppend
  <1>6. Stored' = Range(Append(log, m)) /\ Range(acked)' = Range(Append(log, m))
    BY <1>4, <1>5, CleanStored
  <1>7. Loadable(file) /\ (Recovered(file) = log \/ Recovered(file) = Append(log, m))
    <2>1. Mirrored
      BY <1>3 DEF IInv, FileInv
    <2> QED
      BY <1>2, <1>3, <2>1, MirroredLoads
  <1>8. CASE Recovered(file) = log
    <2>1. Stored = Range(log) /\ Range(acked) = Range(log)
      BY <1>3, <1>7, <1>8 DEF Stored
    <2>2. m \in Stored' /\ Stored' = Stored \cup {m} /\ m.seq = Cardinality(Stored) + 1
      BY <1>3, <1>6, <2>1, NextNumber
    <2> QED
      BY <1>1, <1>6, <2>1, <2>2, LogSteps
  <1>9. CASE Recovered(file) = Append(log, m)
    <2>1. Stored = Range(Append(log, m))
      BY <1>7, <1>9 DEF Stored
    <2> QED
      BY <1>1, <1>6, <2>1, LogSteps
  <1> QED
    BY <1>7, <1>8, <1>9

\* open() tells its caller all that the file holds.
LEMMA OpenedLogStep ==
    ASSUME IInv, loaded, loader.for = "open"
    PROVE  Log!Next
  <1>1. PICK r : r = Recovered(file)
    OBVIOUS
  <1>2. /\ Loadable(file) /\ file' = CleanFile(r) /\ ValidLog(r) /\ acked' = r
        /\ upset' = IF upset = {} THEN {} ELSE {"past"}
    BY <1>1, OpenedStep
  <1>3. Stored' = Range(r) /\ Range(acked)' = Range(r)
    BY <1>2, CleanStored
  <1>4. Stored = Range(r)
    BY <1>1, <1>2 DEF Stored
  <1>5. upset' \subseteq {"past"}
    BY <1>2
  <1> QED
    BY <1>3, <1>4, <1>5, LogSteps

\* fork() leaves what the file holds, or breaks the promise.
LEMMA ForkedLogStep ==
    ASSUME IInv, loaded, loader.for = "fork"
    PROVE  [Log!Next]_(Log!vars)
  <1>1. CASE ~ (upset' \subseteq {"past"})
    BY <1>1, LogSteps
  <1>2. CASE upset' \subseteq {"past"} /\ mem.open
    <2>1. file' = file /\ UNCHANGED <<acked, upset>>
      BY <1>2, ForkedStep
    <2>2. Stored' = Stored
      BY <2>1 DEF Stored
    <2> QED
      BY <2>1, <2>2, LogSteps
  <1>3. CASE ~ mem.open
    <2>1. PICK r : r = Recovered(file)
      OBVIOUS
    <2>2. Loadable(file) /\ file' = CleanFile(r) /\ ValidLog(r) /\ UNCHANGED <<acked, upset>>
      BY <1>3, <2>1, ForkedStep
    <2>3. Stored' = Stored
      BY <2>1, <2>2, CleanStored DEF Stored
    <2> QED
      BY <2>2, <2>3, LogSteps
  <1> QED
    BY <1>1, <1>2, <1>3

\* Every step of the storage is a step of the log, or none that its readers see.
LEMMA LogStep == IInv /\ [Next]_vars => [Log!Next]_(Log!vars)
  <1> SUFFICES ASSUME IInv, [Next]_vars PROVE [Log!Next]_(Log!vars)
    OBVIOUS
  <1>1. ASSUME UNCHANGED <<file, acked, upset>> PROVE UNCHANGED Log!vars
    <2>1. Stored' = Stored
      BY <1>1 DEF Stored
    <2> QED
      BY <1>1, <2>1, LogSteps
  <1>2. CASE ~ (upset' \subseteq {"past"})
    BY <1>2, LogSteps
  <1>3. CASE create
    BY <1>3, CreateLogStep, LogSteps
  <1>4. CASE enqueue
    BY <1>1, <1>4 DEF enqueue
  <1>5. CASE appendPart /\ upset' \subseteq {"past"}
    <2>1. upset \subseteq {"past"}
      BY <1>5 DEF appendPart
    <2> QED
      BY <1>5, <2>1, AppendPartLogStep
  <1>6. CASE appendMutation /\ upset' \subseteq {"past"}
    <2>1. upset \subseteq {"past"}
      BY <1>6 DEF appendMutation
    <2> QED
      BY <1>6, <2>1, AppendMutationLogStep
  <1>7. CASE appendFails /\ upset' \subseteq {"past"}
    <2>1. UNCHANGED <<file, acked, upset>>
      BY <1>7 DEF appendFails
    <2> QED
      BY <1>1, <2>1
  <1>8. CASE load("open") \/ load("fork")
    BY <1>1, <1>8 DEF load
  <1>9. CASE loaded
    <2>1. loader.for = "open" \/ loader.for = "fork"
      BY <1>9 DEF loaded
    <2> QED
      BY <1>9, <2>1, OpenedLogStep, ForkedLogStep
  <1>10. CASE loadFails \/ publishFileAtomically \/ crash \/ UNCHANGED vars
    BY <1>1, <1>10 DEF loadFails, publishFileAtomically, crash, vars
  <1>11. CASE delete
    <2>1. file' = <<>> /\ acked' = <<>> /\ upset' = {}
      BY <1>11 DEF delete
    <2>2. Stored' = {}
      BY <2>1 DEF Stored, Loadable
    <2>3. Range(acked)' = {}
      BY <2>1 DEF Range
    <2> QED
      BY <2>1, <2>2, <2>3, LogSteps
  <1> QED
    BY <1>2, <1>3, <1>4, <1>5, <1>6, <1>7, <1>8, <1>9, <1>10, <1>11 DEF Next

\* The JSONL backend implements the log that a SessionStorage promises: over torn
\* appends, crashes, repairs, loads, forks and deletes, a mutation gets the next
\* number, at most one is in the file without its caller having been told, and
\* none that a reader could have found goes away, until an append fails midway
\* or a fork repairs the file under its writer.
THEOREM FileImplementsLog == Spec => ImplementsLog
  <1>1. Init => Log!Init
    <2> SUFFICES ASSUME Init PROVE Log!Init
      OBVIOUS
    <2>1. Stored = {}
      BY DEF Init, Stored, Loadable
    <2>2. Range(acked) = {}
      BY DEF Init, Range
    <2> QED
      BY <2>1, <2>2 DEF Init, Log!Init, Stored
  <1> QED
    BY <1>1, LogStep, InvCorrect, PTL DEF Spec, ImplementsLog, Log!Spec
=============================================================================
