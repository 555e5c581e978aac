------------------------- MODULE DurableStateProofs -------------------------
(***************************************************************************)
(* The two files the daemon keeps beside a session.                        *)
(*                                                                         *)
(* The command journal, where a failing write leaves no part of its line:  *)
(* no dispatched command is replayed, the journal is one durable entry per *)
(* key, and its file stays bounded, for any number of keys, responses,     *)
(* errors and crashes and any threshold.                                   *)
(*                                                                         *)
(* The session lease: exclusivity for any number of processes and pid      *)
(* reuses, as long as no live guard holder outlasts the guard's staleness  *)
(* threshold.                                                              *)
(***************************************************************************)
EXTENDS CommandJournal, SessionLease, SequenceTheorems, FiniteSetTheorems, TLAPS

---------------------------------------------------------------------------
(* Induction over the naturals, as a fact about sets: the library's rule    *)
(* takes an operator, which the provers here cannot instantiate.            *)

Less == {ss \in Nat \X Nat : ss[1] < ss[2]}

LEMMA LessIsWellFounded == IsWellFoundedOn(Less, Nat)
<1>1. Less = OpToRel(<, Nat)
  BY DEF Less, OpToRel
<1>2. QED
  BY <1>1, NatLessThanWellFounded

LEMMA SetInduction ==
  ASSUME NEW T, 0 \in T, \A n \in Nat : n \in T => n + 1 \in T
  PROVE  \A n \in Nat : n \in T
<1>1. SUFFICES ASSUME Nat \ T # {} PROVE FALSE
  OBVIOUS
<1>2. PICK m \in Nat \ T : \A y \in Nat \ T : ~(<<y, m>> \in Less)
  <2> DEFINE U == Nat \ T
  <2>1. U \subseteq Nat /\ U # {}
    BY <1>1
  <2> HIDE DEF U
  <2>2. \E x \in U : \A y \in U : ~(<<y, x>> \in Less)
    BY <2>1, LessIsWellFounded, WFMin
  <2>3. QED
    BY <2>2 DEF U
<1>3. m - 1 \in Nat /\ <<m - 1, m>> \in Nat \X Nat /\ m - 1 < m /\ (m - 1) + 1 = m
  OBVIOUS
<1>4. m - 1 \in T
  BY <1>2, <1>3 DEF Less
<1>5. QED
  BY <1>3, <1>4

---------------------------------------------------------------------------
(* load(): the map after a line more is the map before it, with that line   *)
(* replayed.                                                                *)

Line == Record \cup {Garbage}

LEMMA SeqOfRecords ==
  ASSUME NEW s \in Seq(Record)
  PROVE  s \in Seq(Line)
BY SeqMonotonic DEF Line

\* f holds the maps after the first 0, 1, ..., n lines.
IsReplay(f, lines, n) ==
  f = [i \in 0..n |-> IF i = 0 THEN NoEntries ELSE Replay(f[i - 1], lines[i])]

LEMMA ReplayExists ==
  ASSUME NEW lines, NEW n \in Nat
  PROVE  \E f : IsReplay(f, lines, n)
<1> DEFINE T == {m \in Nat : \E f : IsReplay(f, lines, m)}
<1>1. 0 \in T
  <2>1. IsReplay([i \in 0..0 |-> NoEntries], lines, 0)
    BY DEF IsReplay
  <2>2. QED
    BY <2>1
<1>2. ASSUME NEW m \in Nat, m \in T
      PROVE  m + 1 \in T
  <2>1. PICK f : IsReplay(f, lines, m)
    BY <1>2
  <2> DEFINE g == [i \in 0..(m + 1) |-> IF i = 0 THEN NoEntries ELSE Replay(f[i - 1], lines[i])]
  <2>2. \A i \in 0..m : g[i] = f[i]
    BY <2>1 DEF IsReplay
  <2>3. \A i \in 0..(m + 1) : i # 0 => i - 1 \in 0..m
    OBVIOUS
  <2>4. IsReplay(g, lines, m + 1)
    <3> DEFINE h == [i \in 0..(m + 1) |-> IF i = 0 THEN NoEntries ELSE Replay(g[i - 1], lines[i])]
    <3>1. \A i \in 0..(m + 1) : g[i] = h[i]
      BY <2>2, <2>3
    <3>2. g = h
      BY <3>1
    <3>3. QED
      BY <3>2 DEF IsReplay
  <2>5. QED
    BY <2>4
<1>3. \A m \in Nat : m \in T
  <2> HIDE DEF T
  <2>1. QED
    BY <1>1, <1>2, SetInduction
<1>4. QED
  BY <1>3

\* A replay of more lines is the same up to there.
LEMMA ReplayOfOneMore ==
  ASSUME NEW lines, NEW more, NEW n \in Nat, NEW f, NEW g,
         IsReplay(f, lines, n), IsReplay(g, more, n + 1), \A i \in 1..n : lines[i] = more[i]
  PROVE  g[n + 1] = Replay(f[n], more[n + 1])
<1> DEFINE T == {m \in Nat : m <= n => f[m] = g[m]}
<1>1. 0 \in T
  BY DEF IsReplay
<1>2. ASSUME NEW m \in Nat, m \in T
      PROVE  m + 1 \in T
  <2>1. SUFFICES ASSUME m + 1 <= n PROVE f[m + 1] = g[m + 1]
    OBVIOUS
  <2>2. /\ m + 1 \in 1..n /\ m + 1 \in 0..n /\ m + 1 \in 0..(n + 1)
        /\ m + 1 # 0 /\ (m + 1) - 1 = m /\ m <= n
    BY <2>1
  <2>3. f[m + 1] = Replay(f[m], lines[m + 1]) /\ g[m + 1] = Replay(g[m], more[m + 1])
    BY <2>2 DEF IsReplay
  <2>4. QED
    BY <1>2, <2>2, <2>3
<1>3. \A m \in Nat : m \in T
  <2> HIDE DEF T
  <2>1. QED
    BY <1>1, <1>2, SetInduction
<1>4. f[n] = g[n]
  BY <1>3
<1>5. n + 1 \in 0..(n + 1) /\ n + 1 # 0 /\ (n + 1) - 1 = n
  OBVIOUS
<1>6. QED
  BY <1>4, <1>5 DEF IsReplay

LEMMA LoadedIsReplay ==
  ASSUME NEW lines, Len(lines) \in Nat
  PROVE  \E f : IsReplay(f, lines, Len(lines)) /\ Loaded(lines) = f[Len(lines)]
<1> DEFINE g == CHOOSE f : f = [i \in 0..Len(lines) |->
                  IF i = 0 THEN NoEntries ELSE Replay(f[i - 1], lines[i])]
<1>1. Loaded(lines) = g[Len(lines)]
  BY DEF Loaded
<1>2. IsReplay(g, lines, Len(lines))
  BY ReplayExists DEF IsReplay
<1> HIDE DEF g
<1>3. QED
  BY <1>1, <1>2

LEMMA LoadedOfNothing == Loaded(<<>>) = NoEntries
<1>1. PICK f : IsReplay(f, <<>>, 0) /\ Loaded(<<>>) = f[0]
  BY LoadedIsReplay
<1>2. QED
  BY <1>1 DEF IsReplay

LEMMA LoadedOfAppend ==
  ASSUME NEW S, NEW lines \in Seq(S), NEW line \in S
  PROVE  Loaded(Append(lines, line)) = Replay(Loaded(lines), line)
<1> DEFINE n == Len(lines)
           more == Append(lines, line)
<1>1. n \in Nat /\ Len(more) = n + 1 /\ more[n + 1] = line /\ (\A i \in 1..n : lines[i] = more[i])
  BY AppendProperties, LenProperties
<1>2. PICK f : IsReplay(f, lines, n) /\ Loaded(lines) = f[n]
  BY <1>1, LoadedIsReplay
<1> HIDE DEF n, more
<1>3. PICK g : IsReplay(g, more, n + 1) /\ Loaded(more) = g[n + 1]
  <2>1. Len(more) \in Nat
    BY <1>1
  <2>2. \E g : IsReplay(g, more, Len(more)) /\ Loaded(more) = g[Len(more)]
    BY <2>1, LoadedIsReplay
  <2>3. QED
    BY <1>1, <2>2
<1>4. g[n + 1] = Replay(f[n], more[n + 1])
  BY <1>1, <1>2, <1>3, ReplayOfOneMore
<1>5. QED
  BY <1>1, <1>2, <1>3, <1>4 DEF more, n

LEMMA ReplayOfLine ==
  ASSUME NEW m \in Entries, NEW k \in Key
  PROVE  /\ Replay(m, Received(k)) = [m EXCEPT ![k] = "received"]
         /\ Replay(m, Acknowledged(k)) = [m EXCEPT ![k] = "none"]
         /\ \A r \in Response : Replay(m, Result(k, r)) =
              IF m[k] = "none" THEN m ELSE [m EXCEPT ![k] = r]
         /\ Replay(m, Garbage) = m
BY DEF Replay, Received, Acknowledged, Result, Garbage

LEMMA ReplayType ==
  ASSUME NEW m \in Entries, NEW line \in Line
  PROVE  Replay(m, line) \in Entries
<1>1. ASSUME NEW k \in Key, line = Received(k) \/ line = Acknowledged(k)
      PROVE  Replay(m, line) \in Entries
  BY <1>1 DEF Replay, Received, Acknowledged, Entries
<1>2. ASSUME NEW k \in Key, NEW r \in Response, line = Result(k, r)
      PROVE  Replay(m, line) \in Entries
  BY <1>2, ReplayOfLine DEF Entries
<1>3. CASE line = Garbage
  BY <1>3 DEF Replay, Garbage
<1>4. QED
  BY <1>1, <1>2, <1>3 DEF Line, Record

LEMMA LoadedType ==
  ASSUME NEW lines \in Seq(Line)
  PROVE  Loaded(lines) \in Entries
<1> DEFINE n == Len(lines)
<1>1. n \in Nat /\ \A i \in 1..n : lines[i] \in Line
  BY ElementOfSeq
<1>2. PICK f : IsReplay(f, lines, n) /\ Loaded(lines) = f[n]
  BY <1>1, LoadedIsReplay
<1> HIDE DEF n
<1> DEFINE T == {m \in Nat : m <= n => f[m] \in Entries}
<1>3. 0 \in T
  BY <1>1, <1>2 DEF IsReplay, NoEntries, Entries
<1>4. ASSUME NEW m \in Nat, m \in T
      PROVE  m + 1 \in T
  <2>1. SUFFICES ASSUME m + 1 <= n PROVE f[m + 1] \in Entries
    OBVIOUS
  <2>2. m + 1 \in 1..n /\ m + 1 \in 0..n /\ m + 1 # 0 /\ (m + 1) - 1 = m /\ m <= n
    BY <1>1, <2>1
  <2>3. f[m + 1] = Replay(f[m], lines[m + 1]) /\ lines[m + 1] \in Line
    BY <1>1, <1>2, <2>2 DEF IsReplay
  <2>4. QED
    BY <1>4, <2>2, <2>3, ReplayType
<1>5. \A m \in Nat : m \in T
  <2> HIDE DEF T
  <2>1. QED
    BY <1>3, <1>4, SetInduction
<1>6. QED
  BY <1>1, <1>2, <1>5

---------------------------------------------------------------------------
(* compact(): the file it writes is loaded as the map, and has at most two  *)
(* lines per key of it.                                                     *)

Live == {k \in Key : entries[k] # "none"}

IsCompaction(f, keys, n) ==
  f = [i \in 0..n |-> IF i = 0 THEN <<>> ELSE f[i - 1] \o LinesOf(keys[i])]

LEMMA CompactionExists ==
  ASSUME NEW keys, NEW n \in Nat
  PROVE  \E f : IsCompaction(f, keys, n)
<1> DEFINE T == {m \in Nat : \E f : IsCompaction(f, keys, m)}
<1>1. 0 \in T
  <2>1. IsCompaction([i \in 0..0 |-> <<>>], keys, 0)
    BY DEF IsCompaction
  <2>2. QED
    BY <2>1
<1>2. ASSUME NEW m \in Nat, m \in T
      PROVE  m + 1 \in T
  <2>1. PICK f : IsCompaction(f, keys, m)
    BY <1>2
  <2> DEFINE g == [i \in 0..(m + 1) |-> IF i = 0 THEN <<>> ELSE f[i - 1] \o LinesOf(keys[i])]
             h == [i \in 0..(m + 1) |-> IF i = 0 THEN <<>> ELSE g[i - 1] \o LinesOf(keys[i])]
  <2>2. \A i \in 0..m : g[i] = f[i]
    BY <2>1 DEF IsCompaction
  <2>3. \A i \in 0..(m + 1) : i # 0 => i - 1 \in 0..m
    OBVIOUS
  <2>4. \A i \in 0..(m + 1) : g[i] = h[i]
    BY <2>2, <2>3
  <2>5. g = h
    BY <2>4
  <2>6. IsCompaction(g, keys, m + 1)
    BY <2>5 DEF IsCompaction
  <2>7. QED
    BY <2>6
<1>3. \A m \in Nat : m \in T
  <2> HIDE DEF T
  <2>1. QED
    BY <1>1, <1>2, SetInduction
<1>4. QED
  BY <1>3

\* The lines of one key.
LEMMA LinesOfOneKey ==
  ASSUME entries \in Entries, NEW s \in Seq(Record), NEW k \in Live
  PROVE  /\ s \o LinesOf(k) \in Seq(Record)
         /\ Len(s \o LinesOf(k)) <= Len(s) + 2
         /\ Loaded(s \o LinesOf(k)) = [Loaded(s) EXCEPT ![k] = entries[k]]
<1> DEFINE a == Received(k)
           b == Result(k, entries[k])
<1>1. k \in Key /\ a \in Record /\ Loaded(s) \in Entries /\ s \in Seq(Line)
  BY LoadedType, SeqOfRecords DEF Live, Record
<1>2. /\ Append(s, a) \in Seq(Record)
      /\ Len(Append(s, a)) = Len(s) + 1
      /\ Loaded(Append(s, a)) = [Loaded(s) EXCEPT ![k] = "received"]
  <2>1. Append(s, a) \in Seq(Record) /\ Len(Append(s, a)) = Len(s) + 1
    BY <1>1, AppendProperties
  <2>2. Loaded(Append(s, a)) = Replay(Loaded(s), a)
    BY <1>1, LoadedOfAppend
  <2>3. QED
    BY <1>1, <2>1, <2>2, ReplayOfLine
<1>3. CASE entries[k] = "received"
  <2>1. s \o LinesOf(k) = Append(s, a)
    BY <1>1, <1>3 DEF LinesOf
  <2>2. QED
    BY <1>1, <1>2, <1>3, <2>1
<1>4. CASE entries[k] # "received"
  <2>1. entries[k] \in Response
    BY <1>4 DEF Live, Entries
  <2>2. b \in Record
    BY <1>1, <2>1 DEF Record
  <2>3. s \o LinesOf(k) = Append(Append(s, a), b)
    BY <1>1, <1>4, <2>2 DEF LinesOf
  <2>4. /\ Append(Append(s, a), b) \in Seq(Record)
        /\ Len(Append(Append(s, a), b)) = Len(s) + 2
        /\ Loaded(Append(Append(s, a), b)) = Replay(Loaded(Append(s, a)), b)
    <3>1. /\ Append(Append(s, a), b) \in Seq(Record)
          /\ Len(Append(Append(s, a), b)) = Len(Append(s, a)) + 1
      BY <1>2, <2>2, AppendProperties
    <3>2. Loaded(Append(Append(s, a), b)) = Replay(Loaded(Append(s, a)), b)
      BY <1>2, <2>2, LoadedOfAppend
    <3>3. QED
      BY <1>2, <3>1, <3>2
  <2>5. Loaded(Append(s, a)) \in Entries /\ Loaded(Append(s, a))[k] = "received"
    BY <1>1, <1>2 DEF Entries
  <2>6. Replay(Loaded(Append(s, a)), b) = [Loaded(Append(s, a)) EXCEPT ![k] = entries[k]]
    BY <1>1, <2>1, <2>5, ReplayOfLine
  <2>7. [Loaded(Append(s, a)) EXCEPT ![k] = entries[k]] = [Loaded(s) EXCEPT ![k] = entries[k]]
    BY <1>1, <1>2 DEF Entries
  <2>8. Len(s) + 1 + 1 <= Len(s) + 2
    BY <1>1
  <2>9. QED
    BY <1>1, <1>2, <2>3, <2>4, <2>6, <2>7, <2>8
<1>5. QED
  BY <1>3, <1>4

LEMMA KeysInASequence ==
  ASSUME NEW S, IsFiniteSet(S)
  PROVE  /\ SetToSeq(S) \in [1..Cardinality(S) -> S]
         /\ Cardinality(S) \in Nat
         /\ Len(SetToSeq(S)) = Cardinality(S)
         /\ \A k \in S : \E i \in 1..Cardinality(S) : SetToSeq(S)[i] = k
<1> DEFINE n == Cardinality(S)
           q == SetToSeq(S)
<1>1. n \in Nat /\ ExistsBijection(1..n, S)
  BY FS_CardinalityType
<1>2. \E f \in [1..n -> S] : IsInjective(f)
  BY <1>1 DEF ExistsBijection, Bijection, Injection
<1>3. q \in [1..n -> S] /\ IsInjective(q)
  BY <1>2 DEF SetToSeq
<1>4. q \in Injection(1..n, S)
  BY <1>3 DEF Injection
<1>5. IsFiniteSet(1..n) /\ Cardinality(1..n) = n
  BY <1>1, FS_Interval
<1> HIDE DEF q
<1>6. q \in Surjection(1..n, S)
  BY <1>4, <1>5, FS_Injection
<1>7. \A k \in S : \E i \in 1..n : q[i] = k
  BY <1>6 DEF Surjection
<1>8. q \in Seq(S) /\ Len(q) = n
  <2> HIDE DEF n
  <2>1. QED
    BY <1>1, <1>3
<1>9. QED
  BY <1>1, <1>3, <1>7, <1>8 DEF q

LEMMA CompactedIsTheMap ==
  ASSUME entries \in Entries
  PROVE  /\ Compacted \in Seq(Record)
         /\ Cardinality(Live) \in Nat
         /\ Len(Compacted) <= 2 * Cardinality(Live)
         /\ Loaded(Compacted) = entries
<1> DEFINE q == SetToSeq(Live)
           n == Cardinality(Live)
           f == CHOOSE g : g = [i \in 0..Len(q) |->
                              IF i = 0 THEN <<>> ELSE g[i - 1] \o LinesOf(q[i])]
<1>1. IsFiniteSet(Live)
  BY JournalAssumption, FS_Subset DEF JournalAssumption, Live
<1>2. n \in Nat /\ q \in [1..n -> Live] /\ Len(q) = n
      /\ \A k \in Live : \E i \in 1..n : q[i] = k
  BY <1>1, KeysInASequence
<1>3. Compacted = f[Len(q)]
  BY DEF Compacted, Live
<1>4. IsCompaction(f, q, Len(q))
  <2>1. \E g : IsCompaction(g, q, Len(q))
    BY <1>2, CompactionExists
  <2>2. QED
    BY <2>1 DEF IsCompaction
<1> HIDE DEF f, n, q
<1>5. IsCompaction(f, q, n) /\ Compacted = f[n]
  BY <1>2, <1>3, <1>4
<1> DEFINE Before(m) == {q[j] : j \in 1..m}
           Kept(m) == [k \in Key |-> IF k \in Before(m) THEN entries[k] ELSE "none"]
           T == {m \in Nat : m <= n =>
                   f[m] \in Seq(Record) /\ Len(f[m]) <= 2 * m /\ Loaded(f[m]) = Kept(m)}
<1>6. 0 \in T
  <2>1. f[0] = <<>>
    BY <1>2, <1>5 DEF IsCompaction
  <2>2. Kept(0) = NoEntries
    BY DEF NoEntries
  <2>3. <<>> \in Seq(Record) /\ Len(<<>>) = 0
    BY EmptySeq
  <2> HIDE DEF Kept
  <2>4. f[0] \in Seq(Record)
    BY <2>1, <2>3
  <2>5. Len(f[0]) <= 2 * 0
    BY <2>1, <2>3
  <2>6. Loaded(f[0]) = Kept(0)
    BY <2>1, <2>2, LoadedOfNothing
  <2>7. QED
    BY <2>4, <2>5, <2>6
<1>7. ASSUME NEW m \in Nat, m \in T
      PROVE  m + 1 \in T
  <2>1. SUFFICES ASSUME m + 1 <= n
                 PROVE  /\ f[m + 1] \in Seq(Record)
                        /\ Len(f[m + 1]) <= 2 * (m + 1)
                        /\ Loaded(f[m + 1]) = Kept(m + 1)
    OBVIOUS
  <2>2. m + 1 \in 1..n /\ m + 1 \in 0..n /\ m + 1 # 0 /\ (m + 1) - 1 = m /\ m <= n
    BY <1>2, <2>1
  <2>3. f[m + 1] = f[m] \o LinesOf(q[m + 1]) /\ q[m + 1] \in Live
    BY <1>2, <1>5, <2>2 DEF IsCompaction
  <2>4. f[m] \in Seq(Record) /\ Len(f[m]) <= 2 * m /\ Loaded(f[m]) = Kept(m)
    BY <1>7, <2>2
  <2>5. /\ f[m + 1] \in Seq(Record)
        /\ Len(f[m + 1]) <= Len(f[m]) + 2
        /\ Loaded(f[m + 1]) = [Loaded(f[m]) EXCEPT ![q[m + 1]] = entries[q[m + 1]]]
    <3>1. /\ f[m] \o LinesOf(q[m + 1]) \in Seq(Record)
          /\ Len(f[m] \o LinesOf(q[m + 1])) <= Len(f[m]) + 2
          /\ Loaded(f[m] \o LinesOf(q[m + 1]))
               = [Loaded(f[m]) EXCEPT ![q[m + 1]] = entries[q[m + 1]]]
      BY <2>3, <2>4, LinesOfOneKey
    <3>2. QED
      BY <2>3, <3>1
  <2>6. [Kept(m) EXCEPT ![q[m + 1]] = entries[q[m + 1]]] = Kept(m + 1)
    <3>1. Before(m + 1) = Before(m) \cup {q[m + 1]}
      BY <2>2
    <3>2. q[m + 1] \in Key
      BY <2>3 DEF Live
    <3> HIDE DEF Before
    <3>3. QED
      BY <3>1, <3>2
  <2>7. Len(f[m + 1]) <= 2 * (m + 1)
    <3>1. Len(f[m]) \in Nat /\ Len(f[m + 1]) \in Nat
      BY <2>4, <2>5, LenProperties
    <3>2. QED
      BY <2>4, <2>5, <3>1
  <2>8. QED
    BY <2>4, <2>5, <2>6, <2>7
<1>8. n \in T
  <2> HIDE DEF T
  <2>1. \A m \in Nat : m \in T
    BY <1>6, <1>7, SetInduction
  <2>2. QED
    BY <1>2, <2>1
<1>9. Kept(n) = entries
  <2>1. \A k \in Live : k \in Before(n)
    BY <1>2
  <2>2. \A k \in Key \ Live : entries[k] = "none"
    BY DEF Live
  <2> HIDE DEF Before
  <2>3. QED
    BY <2>1, <2>2 DEF Entries
<1>10. QED
  <2>1. f[n] \in Seq(Record) /\ Len(f[n]) <= 2 * n /\ Loaded(f[n]) = entries
    BY <1>8, <1>9, <1>2
  <2>2. QED
    BY <1>2, <1>5, <2>1 DEF n

---------------------------------------------------------------------------
(* The inductive invariant.                                                 *)

Disk == Loaded(file)

\* Only whole lines are in the file, and only a process that runs is in a method.
ShapeInv ==
  /\ file \in Seq(Record)
  /\ up => ~torn
  /\ ~up => stage = "idle"

\* What a method appends fits the map it has looked at.
LineOfMethod ==
  \/ \E k \in Key : entries[k] = "none" /\ record = Received(k)
  \/ \E k \in Key : entries[k] # "none" /\ k \notin dispatched /\ record = Acknowledged(k)
  \/ \E k \in Key, r \in Response : entries[k] # "none" /\ record = Result(k, r)

RecordInv == stage \in {"append", "apply"} => LineOfMethod

\* d is m, or m after one operation.
Agree(m, d) ==
  /\ m = "none" => d \in {"none", "received"}
  /\ m \in Response => d # "received"

\* Failed appends leave the disk at most one operation ahead of the map.
AgreeInv == up => \A k \in Key : Agree(entries[k], Disk[k])

\* Between the write and the update of the map the line is already on disk.
WrittenInv ==
  stage = "apply" =>
    /\ record.type = "received" => Disk[record.key] = "received"
    /\ record.type = "acknowledged" => Disk[record.key] = "none"
    /\ record.type = "result" => Disk[record.key] \in {"none", record.response}

\* A dispatched command is on disk and in memory.
DispatchedInv ==
  /\ \A k \in dispatched : Disk[k] # "none" /\ (up => entries[k] # "none")
  /\ redispatched = {}

JournalInv ==
  JournalTypeOK /\ ShapeInv /\ RecordInv /\ AgreeInv /\ WrittenInv /\ DispatchedInv

LEMMA InvFacts ==
  ASSUME JournalInv
  PROVE  /\ file \in Seq(Line) /\ file \in Seq(Record)
         /\ Len(file) \in Nat
         /\ Disk \in Entries /\ entries \in Entries
BY SeqOfRecords, LoadedType, LenProperties
   DEF JournalInv, ShapeInv, JournalTypeOK, Disk

\* What append() leaves on disk, whether or not the method goes on.
LEMMA AppendedLine ==
  ASSUME JournalInv, stage = "append", AppendLine
  PROVE  /\ file' \in Seq(Record)
         /\ Len(file') = Len(file) + 1
         /\ torn' = FALSE
         /\ Disk' = Replay(Disk, record)
         /\ \A k \in Key : Agree(entries[k], Disk'[k])
         /\ \A k \in dispatched : Disk'[k] # "none"
<1> USE JournalAssumption DEF JournalAssumption
<1>1. Disk \in Entries /\ entries \in Entries /\ file \in Seq(Record) /\ LineOfMethod /\ ~torn
  BY InvFacts DEF JournalInv, RecordInv, ShapeInv
<1>2. /\ \A k \in Key : Agree(entries[k], Disk[k])
      /\ \A k \in dispatched : Disk[k] # "none" /\ entries[k] # "none"
      /\ dispatched \subseteq Key
  BY DEF JournalInv, AgreeInv, DispatchedInv, ShapeInv, JournalTypeOK
<1>3. record \in Record
  BY <1>1 DEF LineOfMethod, Record
<1>4. file' = Append(file, record) /\ torn' = FALSE
  BY <1>1 DEF AppendLine
<1>5. file' \in Seq(Record) /\ Len(file') = Len(file) + 1
  BY <1>1, <1>3, <1>4, AppendProperties
<1>6. Disk' = Replay(Disk, record)
  BY <1>1, <1>3, <1>4, LoadedOfAppend DEF Disk
<1> DEFINE OneAhead == /\ \A k \in Key : Agree(entries[k], Disk'[k])
                       /\ \A k \in dispatched : Disk'[k] # "none"
<1>7. OneAhead
  <2> HIDE DEF Disk
  <2>1. ASSUME NEW k \in Key, entries[k] = "none", record = Received(k)
        PROVE  OneAhead
    <3>1. Disk' = [Disk EXCEPT ![k] = "received"]
      BY <1>1, <1>6, <2>1, ReplayOfLine
    <3>2. QED
      BY <1>1, <1>2, <2>1, <3>1 DEF Agree, Entries
  <2>2. ASSUME NEW k \in Key, entries[k] # "none", k \notin dispatched, record = Acknowledged(k)
        PROVE  OneAhead
    <3>1. Disk' = [Disk EXCEPT ![k] = "none"]
      BY <1>1, <1>6, <2>2, ReplayOfLine
    <3>2. QED
      BY <1>1, <1>2, <2>2, <3>1 DEF Agree, Entries
  <2>3. ASSUME NEW k \in Key, NEW r \in Response, entries[k] # "none", record = Result(k, r)
        PROVE  OneAhead
    <3>1. Disk' = IF Disk[k] = "none" THEN Disk ELSE [Disk EXCEPT ![k] = r]
      BY <1>1, <1>6, <2>3, ReplayOfLine
    <3>2. QED
      BY <1>1, <1>2, <2>3, <3>1 DEF Agree, Entries
  <2>4. QED
    BY <1>1, <2>1, <2>2, <2>3 DEF LineOfMethod
<1>8. QED
  BY <1>4, <1>5, <1>6, <1>7

---------------------------------------------------------------------------
(* The types, also where a failing write leaves part of a line.             *)

LEMMA SequenceTypes ==
  ASSUME JournalTypeOK
  PROVE  /\ Len(file) \in Nat
         /\ \A line \in Line : Append(file, line) \in Seq(Line)
         /\ Loaded(file) \in Entries
         /\ Cardinality({i \in 1..Len(file) : file[i] # Garbage}) \in Nat
<1> DEFINE Parsed == {i \in 1..Len(file) : file[i] # Garbage}
<1>1. file \in Seq(Line)
  BY DEF JournalTypeOK, Line
<1>2. Len(file) \in Nat /\ \A line \in Line : Append(file, line) \in Seq(Line)
  BY <1>1, LenProperties, AppendProperties
<1>3. IsFiniteSet(1..Len(file))
  BY <1>2, FS_Interval
<1>4. IsFiniteSet(Parsed)
  BY <1>3, FS_Subset
<1>5. Cardinality(Parsed) \in Nat
  BY <1>4, FS_CardinalityType
<1>6. QED
  BY <1>1, <1>2, <1>5, LoadedType

LEMMA TypeStep ==
  ASSUME JournalTypeOK, [JournalNext]_journalVars
  PROVE  JournalTypeOK'
<1> USE JournalAssumption DEF JournalAssumption
<1>1. record \in Line /\ Garbage \in Line /\ file \in Seq(Line)
  BY DEF JournalTypeOK, Line
<1>2. ASSUME NEW line \in Record, Start(line), dispatched' \subseteq Key
      PROVE  JournalTypeOK'
  BY <1>2 DEF Start, JournalTypeOK, disk, memory
<1>3. ASSUME NEW k \in Key, Begin(k)
      PROVE  JournalTypeOK'
  <2>1. Received(k) \in Record
    BY DEF Record
  <2>2. QED
    BY <1>2, <1>3, <2>1 DEF Begin, JournalTypeOK
<1>4. ASSUME NEW k \in Key, Acknowledge(k)
      PROVE  JournalTypeOK'
  <2>1. Acknowledged(k) \in Record
    BY DEF Record
  <2>2. QED
    BY <1>2, <1>4, <2>1 DEF Acknowledge, JournalTypeOK
<1>5. ASSUME NEW k \in Key, NEW r \in Response, RecordResult(k, r)
      PROVE  JournalTypeOK'
  <2>1. Result(k, r) \in Record
    BY DEF Record
  <2>2. QED
    BY <1>2, <1>5, <2>1 DEF RecordResult, JournalTypeOK
<1>6. ASSUME AppendLine
      PROVE  file' \in Seq(Line) /\ torn' = FALSE
  BY <1>1, <1>6, SequenceTypes DEF AppendLine
<1>7. CASE Write
  BY <1>6, <1>7 DEF Write, JournalTypeOK, Line, memory, history
<1>8. ASSUME Throws, file' \in Seq(Line), torn' \in BOOLEAN
      PROVE  JournalTypeOK'
  BY <1>8 DEF Throws, JournalTypeOK, Line, memory, history
<1>9. CASE WriteFails
  BY <1>1, <1>8, <1>9 DEF WriteFails, JournalTypeOK
<1>10. CASE SyncFails
  BY <1>6, <1>8, <1>10 DEF SyncFails
<1>11. CASE Apply
  <2>1. entries' \in Entries
    BY <1>1, <1>11, ReplayType DEF Apply, JournalTypeOK
  <2>2. record.type = "received" => record.key \in Key
    BY DEF JournalTypeOK, Record, Garbage, Received, Acknowledged, Result
  <2>3. dispatched' \subseteq Key /\ redispatched' \subseteq Key
    BY <1>11, <2>2 DEF Apply, JournalTypeOK
  <2>4. QED
    BY <1>11, <2>1, <2>3 DEF Apply, JournalTypeOK, disk
<1>12. CASE Compact
  <2>1. Compacted \in Seq(Line) /\ Len(Compacted) \in Nat
    BY CompactedIsTheMap, SeqOfRecords, LenProperties DEF JournalTypeOK
  <2>2. QED
    BY <1>12, <2>1 DEF Compact, JournalTypeOK, Line, history
<1>13. CASE CompactFails
  BY <1>1, <1>8, <1>13 DEF CompactFails, JournalTypeOK, disk
<1>14. CASE JournalCrash
  <2>1. file' \in Seq(Line) /\ torn' \in BOOLEAN
    BY <1>1, <1>6, <1>14 DEF JournalCrash, JournalTypeOK, disk
  <2>2. NoEntries \in Entries
    BY DEF NoEntries, Entries
  <2>3. /\ crashes < MaxCrashes /\ crashes' = crashes + 1 /\ up' = FALSE /\ stage' = "idle"
        /\ entries' = NoEntries /\ recordCount' = 0 /\ record' = Garbage
        /\ errors' = errors /\ dispatched' = dispatched /\ redispatched' = redispatched
    BY <1>14 DEF JournalCrash, history
  <2>4. crashes' \in 0..MaxCrashes
    BY <2>3 DEF JournalTypeOK
  <2>5. record' \in Line
    BY <1>1, <2>3
  <2>6. QED
    BY <2>1, <2>2, <2>3, <2>4, <2>5 DEF JournalTypeOK, Line
<1>15. CASE Load
  <2>1. QED
    BY <1>15, SequenceTypes DEF Load, JournalTypeOK, history
<1>16. CASE UNCHANGED journalVars
  BY <1>16 DEF journalVars, disk, memory, history, JournalTypeOK
<1>17. QED
  BY <1>3, <1>4, <1>5, <1>7, <1>9, <1>10, <1>11, <1>12, <1>13, <1>14, <1>15, <1>16
     DEF JournalNext

LEMMA JournalInitTypes ==
  ASSUME JournalInit
  PROVE  JournalTypeOK
<1>1. file \in Seq(Line) /\ record \in Line
  BY EmptySeq DEF JournalInit, Line
<1>2. entries \in Entries
  BY DEF JournalInit, NoEntries, Entries
<1>3. recordCount \in Nat /\ errors \in 0..MaxErrors /\ crashes \in 0..MaxCrashes
  BY JournalAssumption DEF JournalAssumption, JournalInit
<1>4. torn \in BOOLEAN /\ up \in BOOLEAN /\ stage \in {"idle", "append", "apply", "compact"}
        /\ dispatched \subseteq Key /\ redispatched \subseteq Key
  BY DEF JournalInit
<1>5. QED
  BY <1>1, <1>2, <1>3, <1>4 DEF JournalTypeOK, Line

\* The types of CommandJournal's state hold in every reachable state.
THEOREM JournalTypeCorrect == JournalSpec => []JournalTypeOK
<1>1. JournalInit => JournalTypeOK
  BY JournalInitTypes
<1>2. JournalTypeOK /\ [JournalNext]_journalVars => JournalTypeOK'
  BY TypeStep
<1>3. QED
  BY <1>1, <1>2, PTL DEF JournalSpec

---------------------------------------------------------------------------
(* Each step preserves the inductive invariant, where failing writes leave  *)
(* nothing.                                                                 *)

\* A method starts.
LEMMA StartStep ==
  ASSUME JournalInv, NEW line \in Record, Start(line),
         dispatched' \subseteq dispatched, LineOfMethod'
  PROVE  JournalInv'
<1>1. /\ file' = file /\ torn' = torn /\ entries' = entries /\ up' = up /\ up
      /\ stage' = "append" /\ redispatched' = redispatched
  BY DEF Start, disk, memory
<1>2. Disk' = Disk
  BY <1>1 DEF Disk
<1>3. JournalTypeOK'
  BY DEF JournalInv, JournalTypeOK, Start, disk, memory
<1>4. ShapeInv' /\ RecordInv' /\ WrittenInv'
  BY <1>1 DEF JournalInv, ShapeInv, RecordInv, WrittenInv
<1>5. AgreeInv' /\ DispatchedInv'
  BY <1>1, <1>2 DEF JournalInv, AgreeInv, DispatchedInv
<1>6. QED
  BY <1>3, <1>4, <1>5 DEF JournalInv

LEMMA WriteStep ==
  ASSUME JournalInv, JournalTypeOK', Write
  PROVE  JournalInv'
<1> USE JournalAssumption DEF JournalAssumption
<1>1. /\ stage = "append" /\ stage' = "apply" /\ entries' = entries /\ up' = up
      /\ record' = record /\ dispatched' = dispatched /\ redispatched' = redispatched
      /\ AppendLine
  BY DEF Write, memory, history
<1>2. /\ file' \in Seq(Record) /\ torn' = FALSE /\ Disk' = Replay(Disk, record)
      /\ \A k \in Key : Agree(entries[k], Disk'[k])
      /\ \A k \in dispatched : Disk'[k] # "none"
  BY <1>1, AppendedLine
<1>3. LineOfMethod /\ up
  BY <1>1 DEF JournalInv, RecordInv, ShapeInv
<1>4. ShapeInv'
  BY <1>1, <1>2, <1>3 DEF ShapeInv
<1>5. RecordInv'
  BY <1>1, <1>3 DEF RecordInv, LineOfMethod
<1>6. AgreeInv' /\ DispatchedInv'
  BY <1>1, <1>2, <1>3 DEF JournalInv, AgreeInv, DispatchedInv
<1>7. WrittenInv'
  <2>1. Disk \in Entries /\ entries \in Entries
    BY InvFacts
  <2> HIDE DEF Disk
  <2>2. ASSUME NEW k \in Key, record = Received(k)
        PROVE  WrittenInv'
    <3>1. Disk' = [Disk EXCEPT ![k] = "received"]
      BY <1>2, <2>1, <2>2, ReplayOfLine
    <3>2. Disk'[k] = "received" /\ record' = Received(k)
      BY <1>1, <2>1, <2>2, <3>1 DEF Entries
    <3>3. QED
      BY <3>2 DEF WrittenInv, Received
  <2>3. ASSUME NEW k \in Key, record = Acknowledged(k)
        PROVE  WrittenInv'
    <3>1. Disk' = [Disk EXCEPT ![k] = "none"]
      BY <1>2, <2>1, <2>3, ReplayOfLine
    <3>2. Disk'[k] = "none" /\ record' = Acknowledged(k)
      BY <1>1, <2>1, <2>3, <3>1 DEF Entries
    <3>3. QED
      BY <3>2 DEF WrittenInv, Acknowledged
  <2>4. ASSUME NEW k \in Key, NEW r \in Response, record = Result(k, r)
        PROVE  WrittenInv'
    <3>1. Disk' = IF Disk[k] = "none" THEN Disk ELSE [Disk EXCEPT ![k] = r]
      BY <1>2, <2>1, <2>4, ReplayOfLine
    <3>2. Disk'[k] \in {"none", r} /\ record' = Result(k, r)
      BY <1>1, <2>1, <2>4, <3>1 DEF Entries
    <3>3. QED
      BY <3>2 DEF WrittenInv, Result
  <2>5. QED
    BY <1>3, <2>2, <2>3, <2>4 DEF LineOfMethod
<1>8. QED
  BY <1>4, <1>5, <1>6, <1>7 DEF JournalInv

\* append() or compact() throws; what it left is at most one operation ahead.
LEMMA ThrowStep ==
  ASSUME JournalInv, JournalTypeOK', Throws, file' \in Seq(Record), torn' = FALSE,
         \A k \in Key : Agree(entries[k], Disk'[k]),
         \A k \in dispatched : Disk'[k] # "none"
  PROVE  JournalInv'
<1>1. /\ stage' = "idle" /\ up /\ up' = up /\ entries' = entries
      /\ dispatched' = dispatched /\ redispatched' = redispatched
  BY DEF Throws, memory, history
<1>2. ShapeInv' /\ RecordInv' /\ WrittenInv'
  BY <1>1 DEF ShapeInv, RecordInv, WrittenInv
<1>3. AgreeInv' /\ DispatchedInv'
  BY <1>1 DEF JournalInv, AgreeInv, DispatchedInv
<1>4. QED
  BY <1>2, <1>3 DEF JournalInv

LEMMA ApplyStep ==
  ASSUME JournalInv, JournalTypeOK', Apply
  PROVE  JournalInv'
<1> USE JournalAssumption DEF JournalAssumption
<1>1. /\ stage = "apply" /\ entries' = Replay(entries, record) /\ file' = file
      /\ torn' = torn /\ up' = up /\ stage' \in {"idle", "compact"} /\ Disk' = Disk
  BY DEF Apply, disk, Disk
<1>2. IF record.type = "received"
        THEN /\ dispatched' = dispatched \cup {record.key}
             /\ redispatched' = redispatched \cup (dispatched \cap {record.key})
        ELSE dispatched' = dispatched /\ redispatched' = redispatched
  BY DEF Apply
<1>3. /\ LineOfMethod /\ up /\ redispatched = {} /\ dispatched \subseteq Key
      /\ \A k \in dispatched : Disk[k] # "none" /\ entries[k] # "none"
      /\ \A k \in Key : Agree(entries[k], Disk[k])
  BY <1>1 DEF JournalInv, RecordInv, ShapeInv, DispatchedInv, AgreeInv, JournalTypeOK
<1>4. Disk \in Entries /\ entries \in Entries
  BY InvFacts
<1>5. ShapeInv' /\ RecordInv' /\ WrittenInv'
  BY <1>1, <1>3 DEF JournalInv, ShapeInv, RecordInv, WrittenInv
<1>6. AgreeInv' /\ DispatchedInv'
  <2> HIDE DEF Disk
  <2>1. ASSUME NEW k \in Key, entries[k] = "none", record = Received(k)
        PROVE  AgreeInv' /\ DispatchedInv'
    <3>1. entries' = [entries EXCEPT ![k] = "received"]
      BY <1>1, <1>4, <2>1, ReplayOfLine
    <3>2. Disk[k] = "received"
      BY <1>1, <2>1 DEF JournalInv, WrittenInv, Received
    <3>3. dispatched' = dispatched \cup {k} /\ redispatched' = {}
      BY <1>2, <1>3, <2>1 DEF Received
    <3>4. \A j \in Key : j # k => entries'[j] = entries[j]
      BY <1>4, <3>1 DEF Entries
    <3>5. entries'[k] = "received"
      BY <1>4, <3>1 DEF Entries
    <3>6. AgreeInv'
      <4>1. Agree("received", Disk[k])
        BY <2>1, <3>2 DEF Agree
      <4>2. QED
        BY <1>1, <1>3, <3>4, <3>5, <4>1 DEF AgreeInv
    <3>7. DispatchedInv'
      BY <1>1, <1>3, <2>1, <3>2, <3>3, <3>4, <3>5 DEF DispatchedInv
    <3>8. QED
      BY <3>6, <3>7
  <2>2. ASSUME NEW k \in Key, k \notin dispatched, record = Acknowledged(k)
        PROVE  AgreeInv' /\ DispatchedInv'
    <3>1. entries' = [entries EXCEPT ![k] = "none"]
      BY <1>1, <1>4, <2>2, ReplayOfLine
    <3>2. Disk[k] = "none"
      BY <1>1, <2>2 DEF JournalInv, WrittenInv, Acknowledged
    <3>3. dispatched' = dispatched /\ redispatched' = {}
      BY <1>2, <1>3, <2>2 DEF Acknowledged
    <3>4. \A j \in Key : j # k => entries'[j] = entries[j]
      BY <1>4, <3>1 DEF Entries
    <3>5. entries'[k] = "none"
      BY <1>4, <3>1 DEF Entries
    <3>6. AgreeInv'
      <4>1. Agree("none", Disk[k])
        BY <2>2, <3>2 DEF Agree
      <4>2. QED
        BY <1>1, <1>3, <3>4, <3>5, <4>1 DEF AgreeInv
    <3>7. DispatchedInv'
      BY <1>1, <1>3, <2>2, <3>2, <3>3, <3>4, <3>5 DEF DispatchedInv
    <3>8. QED
      BY <3>6, <3>7
  <2>3. ASSUME NEW k \in Key, NEW r \in Response, entries[k] # "none", record = Result(k, r)
        PROVE  AgreeInv' /\ DispatchedInv'
    <3>1. entries' = [entries EXCEPT ![k] = r]
      BY <1>1, <1>4, <2>3, ReplayOfLine
    <3>2. Disk[k] \in {"none", r}
      BY <1>1, <2>3 DEF JournalInv, WrittenInv, Result
    <3>3. dispatched' = dispatched /\ redispatched' = {}
      BY <1>2, <1>3, <2>3 DEF Result
    <3>4. \A j \in Key : j # k => entries'[j] = entries[j]
      BY <1>4, <3>1 DEF Entries
    <3>5. entries'[k] = r
      BY <1>4, <3>1 DEF Entries
    <3>6. AgreeInv'
      <4>1. Agree(r, Disk[k])
        BY <2>3, <3>2 DEF Agree
      <4>2. QED
        BY <1>1, <1>3, <3>4, <3>5, <4>1 DEF AgreeInv
    <3>7. DispatchedInv'
      BY <1>1, <1>3, <2>3, <3>2, <3>3, <3>4, <3>5 DEF DispatchedInv
    <3>8. QED
      BY <3>6, <3>7
  <2>4. QED
    BY <1>3, <2>1, <2>2, <2>3 DEF LineOfMethod
<1>7. QED
  BY <1>5, <1>6 DEF JournalInv

LEMMA JournalCrashStep ==
  ASSUME JournalInv, JournalTypeOK', JournalCrash
  PROVE  /\ JournalInv'
         /\ \A k \in Key : Agree(entries[k], Disk'[k])
<1>1. /\ up /\ up' = FALSE /\ stage' = "idle"
      /\ dispatched' = dispatched /\ redispatched' = redispatched
  BY DEF JournalCrash, history
<1>2. /\ \A k \in Key : Agree(entries[k], Disk[k])
      /\ \A k \in dispatched : Disk[k] # "none"
      /\ file \in Seq(Record)
  BY <1>1 DEF JournalInv, AgreeInv, DispatchedInv, ShapeInv
<1>3. /\ file' \in Seq(Record)
      /\ \A k \in Key : Agree(entries[k], Disk'[k])
      /\ \A k \in dispatched : Disk'[k] # "none"
  <2>1. CASE file' = file
    BY <1>2, <2>1 DEF Disk
  <2>2. CASE stage = "append" /\ AppendLine
    BY <2>2, AppendedLine
  <2>3. QED
    BY <2>1, <2>2 DEF JournalCrash, disk
<1>4. ShapeInv' /\ RecordInv' /\ WrittenInv' /\ AgreeInv' /\ DispatchedInv'
  BY <1>1, <1>3 DEF JournalInv, ShapeInv, RecordInv, WrittenInv, AgreeInv, DispatchedInv
<1>5. QED
  BY <1>3, <1>4 DEF JournalInv

LEMMA CompactStep ==
  ASSUME JournalInv, JournalTypeOK', Compact
  PROVE  JournalInv'
<1> USE JournalAssumption DEF JournalAssumption
<1>1. /\ stage = "compact" /\ stage' = "idle" /\ torn' = FALSE /\ file' = Compacted
      /\ entries' = entries /\ up' = up
      /\ dispatched' = dispatched /\ redispatched' = redispatched
  BY DEF Compact, history
<1>2. entries \in Entries /\ up
  BY <1>1, InvFacts DEF JournalInv, ShapeInv
<1>3. file' \in Seq(Record) /\ Disk' = entries
  BY <1>1, <1>2, CompactedIsTheMap DEF Disk
<1>4. \A k \in Key : Agree(entries[k], entries[k])
  BY DEF Agree
<1>5. ShapeInv' /\ RecordInv' /\ WrittenInv'
  BY <1>1, <1>3 DEF ShapeInv, RecordInv, WrittenInv
<1>6. AgreeInv' /\ DispatchedInv'
  BY <1>1, <1>2, <1>3, <1>4 DEF JournalInv, AgreeInv, DispatchedInv
<1>7. QED
  BY <1>5, <1>6 DEF JournalInv

LEMMA LoadStep ==
  ASSUME JournalInv, JournalTypeOK', Load
  PROVE  JournalInv'
<1> USE JournalAssumption DEF JournalAssumption
<1>1. /\ ~up /\ up' = TRUE /\ torn' = FALSE /\ file' = file /\ entries' = Disk
      /\ stage' = stage /\ dispatched' = dispatched /\ redispatched' = redispatched
      /\ Disk' = Disk
  BY DEF Load, history, Disk
<1>2. /\ stage = "idle" /\ file \in Seq(Record)
      /\ \A k \in dispatched : Disk[k] # "none"
      /\ redispatched = {}
  BY <1>1 DEF JournalInv, ShapeInv, DispatchedInv
<1>3. \A k \in Key : Agree(Disk[k], Disk[k])
  BY DEF Agree
<1>4. ShapeInv' /\ RecordInv' /\ WrittenInv'
  BY <1>1, <1>2 DEF ShapeInv, RecordInv, WrittenInv
<1>5. AgreeInv' /\ DispatchedInv'
  BY <1>1, <1>2, <1>3 DEF AgreeInv, DispatchedInv
<1>6. QED
  BY <1>4, <1>5 DEF JournalInv

LEMMA JournalInvStep ==
  ASSUME ~ShortWrites, JournalInv, [JournalNext]_journalVars
  PROVE  JournalInv'
<1>1. JournalTypeOK'
  BY TypeStep DEF JournalInv
<1>2. /\ \A k \in Key : up => Agree(entries[k], Disk[k])
      /\ \A k \in dispatched : Disk[k] # "none"
      /\ file \in Seq(Record) /\ (up => ~torn) /\ torn \in BOOLEAN
  BY DEF JournalInv, AgreeInv, DispatchedInv, ShapeInv, JournalTypeOK
<1>3. ASSUME NEW k \in Key, Begin(k)
      PROVE  JournalInv'
  <2>1. Received(k) \in Record
    BY DEF Record
  <2>2. LineOfMethod'
    BY <1>3 DEF Begin, Start, LineOfMethod, memory
  <2>3. QED
    BY <1>3, <2>1, <2>2, StartStep DEF Begin
<1>4. ASSUME NEW k \in Key, Acknowledge(k)
      PROVE  JournalInv'
  <2>1. Acknowledged(k) \in Record
    BY DEF Record
  <2>2. LineOfMethod'
    BY <1>4 DEF Acknowledge, Start, LineOfMethod, memory
  <2>3. dispatched' \subseteq dispatched
    BY <1>4 DEF Acknowledge
  <2>4. QED
    BY <1>4, <2>1, <2>2, <2>3, StartStep DEF Acknowledge
<1>5. ASSUME NEW k \in Key, NEW r \in Response, RecordResult(k, r)
      PROVE  JournalInv'
  <2>1. Result(k, r) \in Record
    BY DEF Record
  <2>2. LineOfMethod'
    BY <1>5 DEF RecordResult, Start, LineOfMethod, memory
  <2>3. QED
    BY <1>5, <2>1, <2>2, StartStep DEF RecordResult
<1>6. CASE Write
  BY <1>1, <1>6, WriteStep
<1>7. ASSUME Throws, file' = file, torn' = torn
      PROVE  JournalInv'
  <2>1. Disk' = Disk /\ up /\ torn' = FALSE
    BY <1>2, <1>7 DEF Disk, Throws
  <2>2. QED
    BY <1>1, <1>2, <1>7, <2>1, ThrowStep
<1>8. CASE WriteFails
  BY <1>7, <1>8 DEF WriteFails
<1>9. CASE SyncFails
  <2>1. Throws /\ AppendLine /\ stage = "append"
    BY <1>9 DEF SyncFails
  <2>2. QED
    BY <1>1, <2>1, AppendedLine, ThrowStep
<1>10. CASE Apply
  BY <1>1, <1>10, ApplyStep
<1>11. CASE Compact
  BY <1>1, <1>11, CompactStep
<1>12. CASE CompactFails
  BY <1>7, <1>12 DEF CompactFails, disk
<1>13. CASE JournalCrash
  BY <1>1, <1>13, JournalCrashStep
<1>14. CASE Load
  BY <1>1, <1>14, LoadStep
<1>15. CASE UNCHANGED journalVars
  <2>1. Disk' = Disk
    BY <1>15 DEF journalVars, disk, Disk
  <2>2. QED
    BY <1>1, <1>15, <2>1
       DEF journalVars, disk, memory, history, JournalInv, ShapeInv, RecordInv, LineOfMethod,
           AgreeInv, WrittenInv, DispatchedInv
<1>16. QED
  BY <1>3, <1>4, <1>5, <1>6, <1>8, <1>9, <1>10, <1>11, <1>12, <1>13, <1>14, <1>15
     DEF JournalNext

LEMMA JournalInvariant ==
  ASSUME ~ShortWrites
  PROVE  JournalSpec => []JournalInv
<1>1. ASSUME JournalInit
      PROVE  ShapeInv /\ RecordInv /\ AgreeInv /\ WrittenInv /\ DispatchedInv
  <2>1. file \in Seq(Record) /\ Disk = NoEntries /\ entries = NoEntries
    BY <1>1, EmptySeq, LoadedOfNothing DEF JournalInit, Disk
  <2>2. \A k \in Key : Agree("none", "none")
    BY JournalAssumption DEF JournalAssumption, Agree
  <2>3. AgreeInv
    BY <2>1, <2>2 DEF AgreeInv, NoEntries
  <2>4. ShapeInv /\ RecordInv /\ WrittenInv /\ DispatchedInv
    BY <1>1, <2>1 DEF JournalInit, ShapeInv, RecordInv, WrittenInv, DispatchedInv
  <2>5. QED
    BY <2>3, <2>4
<1>2. JournalInit => JournalTypeOK
  BY JournalInitTypes
<1>3. JournalInit => JournalInv
  BY <1>1, <1>2 DEF JournalInv
<1>4. JournalInv /\ [JournalNext]_journalVars => JournalInv'
  BY JournalInvStep
<1>5. QED
  BY <1>3, <1>4, PTL DEF JournalSpec

\* A dispatched command is never taken for a new one before it is acknowledged,
\* whatever crashes and whichever appends and compactions fail, for any number
\* of keys and any threshold, as long as a failing write leaves no part of its
\* line.
THEOREM NothingReplayed ==
  ASSUME ~ShortWrites
  PROVE  JournalSpec => []NeverReplayed
<1>1. JournalInv => NeverReplayed
  BY DEF JournalInv, DispatchedInv, NeverReplayed
<1>2. QED
  BY <1>1, JournalInvariant, PTL

---------------------------------------------------------------------------
(* The journal implements one durable entry per key.                        *)

LEMMA VisibleStep ==
  ASSUME ~ShortWrites, JournalInv, [JournalNext]_journalVars
  PROVE  \A k \in Key : Agree(Visible[k], Visible'[k])
<1> USE JournalAssumption DEF JournalAssumption
<1>1. Disk \in Entries /\ entries \in Entries
  BY InvFacts
<1>2. \A k \in Key : Agree(entries[k], entries[k]) /\ Agree(Disk[k], Disk[k])
  BY DEF Agree
<1>3. ASSUME entries' = entries, up' = up, up \/ file' = file
      PROVE  \A k \in Key : Agree(Visible[k], Visible'[k])
  <2>1. Visible' = Visible
    BY <1>3 DEF Visible
  <2>2. \A k \in Key : Agree(Visible[k], Visible[k])
    BY <1>2 DEF Visible, Disk
  <2>3. QED
    BY <2>1, <2>2
<1>4. ASSUME NEW line, Start(line)
      PROVE  \A k \in Key : Agree(Visible[k], Visible'[k])
  BY <1>3, <1>4 DEF Start, memory
<1>5. CASE Write \/ WriteFails \/ SyncFails \/ Compact \/ CompactFails
  <2>1. up
    BY <1>5 DEF Write, WriteFails, SyncFails, Compact, CompactFails, JournalInv, ShapeInv
  <2>2. entries' = entries /\ up' = up
    BY <1>5 DEF Write, WriteFails, SyncFails, Compact, CompactFails, Throws, memory
  <2>3. QED
    BY <1>3, <2>1, <2>2
<1>6. CASE Apply
  <2>1. /\ up /\ up' = up /\ LineOfMethod /\ entries' = Replay(entries, record)
    BY <1>6 DEF Apply, JournalInv, RecordInv, ShapeInv
  <2>2. \A k \in Key : Agree(entries[k], entries'[k])
    <3>1. ASSUME NEW k \in Key, entries[k] = "none", record = Received(k)
          PROVE  \A j \in Key : Agree(entries[j], entries'[j])
      <4>1. entries' = [entries EXCEPT ![k] = "received"]
        BY <1>1, <2>1, <3>1, ReplayOfLine
      <4>2. QED
        BY <1>1, <3>1, <4>1 DEF Agree, Entries
    <3>2. ASSUME NEW k \in Key, record = Acknowledged(k)
          PROVE  \A j \in Key : Agree(entries[j], entries'[j])
      <4>1. entries' = [entries EXCEPT ![k] = "none"]
        BY <1>1, <2>1, <3>2, ReplayOfLine
      <4>2. QED
        BY <1>1, <4>1 DEF Agree, Entries
    <3>3. ASSUME NEW k \in Key, NEW r \in Response, entries[k] # "none", record = Result(k, r)
          PROVE  \A j \in Key : Agree(entries[j], entries'[j])
      <4>1. entries' = [entries EXCEPT ![k] = r]
        BY <1>1, <2>1, <3>3, ReplayOfLine
      <4>2. QED
        BY <1>1, <3>3, <4>1 DEF Agree, Entries
    <3>4. QED
      BY <2>1, <3>1, <3>2, <3>3 DEF LineOfMethod
  <2>3. QED
    BY <2>1, <2>2 DEF Visible
<1>7. CASE JournalCrash
  <2>1. up /\ up' = FALSE
    BY <1>7 DEF JournalCrash
  <2>2. \A k \in Key : Agree(entries[k], Disk'[k])
    BY <1>7, TypeStep, JournalCrashStep DEF JournalInv
  <2>3. QED
    BY <2>1, <2>2 DEF Visible, Disk
<1>8. CASE Load
  <2>1. Visible = Disk /\ Visible' = Disk
    BY <1>8 DEF Load, Visible, Disk
  <2>2. QED
    BY <1>2, <2>1
<1>9. CASE UNCHANGED journalVars
  BY <1>3, <1>9 DEF journalVars, disk, memory
<1>10. QED
  BY <1>4, <1>5, <1>6, <1>7, <1>8, <1>9 DEF JournalNext, Begin, Acknowledge, RecordResult

\* What load() rebuilds at a crash, and what each method does, is one operation
\* of each key's durable entry or no step of it: an answered command never
\* becomes a received one, and no answer appears for a command not received.
THEOREM JournalImplementsEntries ==
  ASSUME ~ShortWrites
  PROVE  JournalSpec => ImplementsEntries
<1>1. JournalInit => \A k \in Key : Entry(k)!Init
  BY DEF JournalInit, Visible, NoEntries, Entry!Init
<1>2. ASSUME JournalInv, JournalInv', [JournalNext]_journalVars
      PROVE  [EntriesStep]_Visible
  <2>1. ASSUME NEW k \in Key
        PROVE  [Entry(k)!Next]_(Visible[k])
    <3>1. Agree(Visible[k], Visible'[k])
      BY <1>2, VisibleStep
    <3>2. Visible[k] \in {"none", "received"} \cup Response
          /\ Visible'[k] \in {"none", "received"} \cup Response
      <4>1. Visible \in Entries
        BY <1>2, InvFacts DEF Visible, Disk
      <4>2. Visible' \in Entries
        <5>1. entries' \in Entries
          BY <1>2 DEF JournalInv, JournalTypeOK
        <5>2. Loaded(file') \in Entries
          BY <1>2, SeqOfRecords, LoadedType DEF JournalInv, ShapeInv
        <5>3. QED
          BY <5>1, <5>2 DEF Visible
      <4>3. QED
        BY <4>1, <4>2 DEF Entries
    <3>3. QED
      BY <3>1, <3>2 DEF Agree, Entry!Next, Entry!Receive, Entry!StoreResult, Entry!Forget
  <2>2. QED
    BY <2>1 DEF EntriesStep
<1>3. QED
  BY <1>1, <1>2, JournalInvariant, PTL DEF JournalSpec, ImplementsEntries

---------------------------------------------------------------------------
(* The length of the file.                                                  *)

\* The keys a begin() can still add a line for.
Unused == Cardinality(Key) - Cardinality(Live)

Faults == errors + crashes

Limit == CompactAfter + 2 * Cardinality(Key) + Faults * (Cardinality(Key) + 1)

\* begin() never compacts, so there is room for one line of each unused key, and
\* for the line of the method that does compact.
LengthInv ==
  IF up
    THEN /\ stage \in {"idle", "append"} => Len(file) + Unused + 1 <= Limit
         /\ stage = "apply" => Len(file) + Unused <= Limit
         /\ stage = "compact" => Len(file) <= Limit
    ELSE Len(file) + Cardinality(Key) + 1 <= Limit

\* Each fault leaves at most one line recordCount does not know of.
CountInv ==
  up => Len(file) <= recordCount + Faults + (IF stage = "apply" THEN 1 ELSE 0)

BoundInv == LengthInv /\ CountInv

LEMMA BoundFacts ==
  ASSUME JournalInv
  PROVE  /\ Cardinality(Key) \in Nat /\ CompactAfter \in Nat /\ CompactAfter >= 1
         /\ Unused \in Nat /\ Unused <= Cardinality(Key)
         /\ Cardinality(Live) \in Nat /\ Cardinality(Live) <= Cardinality(Key)
         /\ Len(file) \in Nat /\ recordCount \in Nat
         /\ Faults \in Nat /\ Limit \in Nat
         /\ CompactAfter + 2 * Cardinality(Key) + Faults <= Limit
<1> USE JournalAssumption DEF JournalAssumption
<1>1. /\ Cardinality(Key) \in Nat /\ Cardinality(Live) \in Nat
      /\ Cardinality(Live) <= Cardinality(Key)
  <2>1. Live \in SUBSET Key
    BY DEF Live
  <2>2. IsFiniteSet(Live) /\ Cardinality(Live) <= Cardinality(Key)
    BY <2>1, FS_Subset
  <2>3. QED
    BY <2>2, FS_CardinalityType
<1>2. Len(file) \in Nat /\ recordCount \in Nat /\ Faults \in Nat
  BY InvFacts DEF JournalInv, JournalTypeOK, Faults
<1>3. \A e, c \in Nat : e * (c + 1) \in Nat /\ e <= e * (c + 1)
  OBVIOUS
<1>4. Faults * (Cardinality(Key) + 1) \in Nat /\ Faults <= Faults * (Cardinality(Key) + 1)
  BY <1>1, <1>2, <1>3
<1> DEFINE slack == Faults * (Cardinality(Key) + 1)
<1>5. slack \in Nat /\ Faults <= slack /\ Limit = CompactAfter + 2 * Cardinality(Key) + slack
  BY <1>4 DEF Limit
<1> HIDE DEF slack
<1>6. QED
  BY <1>1, <1>2, <1>5 DEF Unused

LEMMA LimitGrows ==
  ASSUME JournalInv, Faults' = Faults + 1
  PROVE  Limit' = Limit + Cardinality(Key) + 1
<1>1. \A e, c \in Nat : (e + 1) * (c + 1) = e * (c + 1) + (c + 1)
  OBVIOUS
<1>2. Faults \in Nat /\ Cardinality(Key) \in Nat /\ CompactAfter \in Nat
  BY BoundFacts
<1>3. (Faults + 1) * (Cardinality(Key) + 1)
        = Faults * (Cardinality(Key) + 1) + (Cardinality(Key) + 1)
  BY <1>1, <1>2
<1> DEFINE before == Faults * (Cardinality(Key) + 1)
           after  == (Faults + 1) * (Cardinality(Key) + 1)
<1>4. /\ before \in Int /\ after = before + (Cardinality(Key) + 1)
      /\ Limit = CompactAfter + 2 * Cardinality(Key) + before
      /\ Limit' = CompactAfter + 2 * Cardinality(Key) + after
  BY <1>2, <1>3 DEF Limit
<1> HIDE DEF before, after
<1>5. QED
  BY <1>2, <1>4

\* append() or compact() throws: each fault pays for one line and a later round.
LEMMA FaultStep ==
  ASSUME JournalInv, BoundInv, Throws, Len(file') \in Nat,
         file' = file \/ (stage = "append" /\ Len(file') = Len(file) + 1)
  PROVE  BoundInv'
<1>1. /\ up /\ up' = up /\ entries' = entries /\ stage' = "idle"
      /\ recordCount' = recordCount /\ Faults' = Faults + 1
  BY DEF Throws, memory, Faults, JournalInv, JournalTypeOK
<1>2. Unused' = Unused
  BY <1>1 DEF Unused, Live
<1>3. Limit' = Limit + Cardinality(Key) + 1
  BY <1>1, LimitGrows
<1>4. stage \in {"idle", "append", "apply", "compact"}
  BY DEF JournalInv, JournalTypeOK
<1> HIDE DEF Limit, Unused, Faults
<1>5. /\ Len(file) \in Int /\ Limit \in Int /\ Cardinality(Key) \in Nat
      /\ Unused \in Nat /\ Unused <= Cardinality(Key)
      /\ recordCount \in Int /\ Faults \in Int
  BY BoundFacts
<1>6. Len(file') + Unused + 1 <= Limit'
  <2>1. CASE file' = file
    <3>1. Len(file) <= Limit
      BY <1>1, <1>4, <1>5 DEF BoundInv, LengthInv
    <3>2. QED
      BY <1>3, <1>5, <2>1, <3>1
  <2>2. CASE stage = "append" /\ Len(file') = Len(file) + 1
    <3>1. Len(file) + Unused + 1 <= Limit
      BY <1>1, <2>2 DEF BoundInv, LengthInv
    <3>2. QED
      BY <1>3, <1>5, <2>2, <3>1
  <2>3. QED
    BY <2>1, <2>2
<1>7. Len(file') <= recordCount + Faults + 1
  <2>1. CASE file' = file
    BY <1>1, <1>5, <2>1 DEF BoundInv, CountInv
  <2>2. CASE stage = "append" /\ Len(file') = Len(file) + 1
    BY <1>1, <1>5, <2>2 DEF BoundInv, CountInv
  <2>3. QED
    BY <2>1, <2>2
<1>8. LengthInv'
  BY <1>1, <1>2, <1>6 DEF LengthInv
<1>9. CountInv'
  BY <1>1, <1>5, <1>7 DEF CountInv
<1>10. QED
  BY <1>8, <1>9 DEF BoundInv

\* The map is updated: a receipt uses a key up; any other method compacts the
\* file when it is long.
LEMMA ApplyBound ==
  ASSUME JournalInv, BoundInv, Apply
  PROVE  BoundInv'
<1>1. /\ stage = "apply" /\ entries' = Replay(entries, record) /\ file' = file
      /\ up' = up /\ recordCount' = recordCount + 1 /\ Faults' = Faults /\ Limit' = Limit
      /\ stage' = IF CompactionDue THEN "compact" ELSE "idle"
  BY DEF Apply, disk, Faults, Limit
<1>2. up /\ LineOfMethod
  BY <1>1 DEF JournalInv, ShapeInv, RecordInv
<1>3. Len(file) + Unused <= Limit /\ Len(file) <= recordCount + Faults + 1
  BY <1>1, <1>2 DEF BoundInv, LengthInv, CountInv
<1>4. Unused \in Nat /\ Unused' \in Int /\ Unused' <= Cardinality(Key)
  <2>1. Live' \in SUBSET Key
    BY DEF Live
  <2>2. Cardinality(Live') \in Nat
    BY <2>1, JournalAssumption, FS_Subset, FS_CardinalityType DEF JournalAssumption
  <2>3. QED
    BY <2>2, BoundFacts DEF Unused
<1> HIDE DEF Limit, Unused, Faults
<1>5. CountInv'
  BY <1>1, <1>3, BoundFacts DEF CountInv
<1>6. CASE CompactionDue
  <2>1. Len(file) <= Limit
    BY <1>3, <1>4, BoundFacts
  <2>2. QED
    BY <1>1, <1>2, <1>5, <1>6, <2>1 DEF BoundInv, LengthInv
<1>7. ASSUME record.type # "received", ~CompactionDue
      PROVE  BoundInv'
  <2>1. recordCount + 1 < CompactAfter
    BY <1>1, <1>7, BoundFacts DEF CompactionDue
  <2>2. Len(file) + 1 <= CompactAfter + Faults
    BY <1>3, <2>1, BoundFacts
  <2>3. Len(file) + Unused' + 1 <= Limit
    <3>1. CompactAfter + Faults + Cardinality(Key) <= Limit
      BY BoundFacts
    <3>2. (Len(file) + 1) + Unused' <= (CompactAfter + Faults) + Cardinality(Key)
      BY <1>4, <2>2, BoundFacts
    <3>3. /\ Len(file) \in Int /\ Unused' \in Int /\ Limit \in Int
          /\ CompactAfter \in Int /\ Faults \in Int /\ Cardinality(Key) \in Int
      BY <1>4, BoundFacts
    <3>4. QED
      BY <3>1, <3>2, <3>3
  <2>4. QED
    BY <1>1, <1>2, <1>5, <1>7, <2>3 DEF BoundInv, LengthInv
<1>8. ASSUME NEW k \in Key, entries[k] = "none", record = Received(k), ~CompactionDue
      PROVE  BoundInv'
  <2>1. entries \in Entries /\ entries' = [entries EXCEPT ![k] = "received"]
    BY <1>1, <1>8, InvFacts, ReplayOfLine
  <2>2. Live' = Live \cup {k} /\ k \notin Live
    BY <1>8, <2>1 DEF Live, Entries
  <2>3. IsFiniteSet(Live)
    BY JournalAssumption, FS_Subset DEF JournalAssumption, Live
  <2>4. Cardinality(Live') = Cardinality(Live) + 1
    BY <2>2, <2>3, FS_AddElement
  <2>5. Unused' = Unused - 1
    BY <2>4, BoundFacts DEF Unused
  <2>6. Len(file) + Unused' + 1 <= Limit
    BY <1>3, <1>4, <2>5, BoundFacts
  <2>7. QED
    BY <1>1, <1>2, <1>5, <1>8, <2>6 DEF BoundInv, LengthInv
<1>9. record.type # "received" \/ \E k \in Key : entries[k] = "none" /\ record = Received(k)
  BY <1>2 DEF LineOfMethod, Acknowledged, Result
<1>10. QED
  BY <1>6, <1>7, <1>8, <1>9

LEMMA CompactBound ==
  ASSUME JournalInv, BoundInv, Compact
  PROVE  BoundInv'
<1>1. /\ stage = "compact" /\ stage' = "idle" /\ file' = Compacted
      /\ recordCount' = Len(Compacted) /\ entries' = entries /\ up' = up
      /\ Faults' = Faults
  BY DEF Compact, Faults
<1>2. up /\ entries \in Entries
  BY <1>1, InvFacts DEF JournalInv, ShapeInv
<1>3. Unused' = Unused /\ Limit' = Limit
  BY <1>1 DEF Unused, Live, Limit
<1>4. Len(file') \in Nat /\ Len(file') <= 2 * Cardinality(Live) /\ recordCount' = Len(file')
  BY <1>1, <1>2, CompactedIsTheMap, LenProperties
<1>5. Unused = Cardinality(Key) - Cardinality(Live)
  BY DEF Unused
<1> HIDE DEF Limit, Unused, Faults
<1>6. Len(file') + Unused + 1 <= Limit
  <2>1. Len(file') + Unused <= 2 * Cardinality(Key)
    BY <1>4, <1>5, BoundFacts
  <2>2. QED
    BY <1>4, <2>1, BoundFacts
<1>7. Len(file') <= recordCount' + Faults
  BY <1>4, BoundFacts
<1>8. QED
  BY <1>1, <1>2, <1>3, <1>6, <1>7, BoundFacts DEF BoundInv, LengthInv, CountInv

LEMMA CrashBound ==
  ASSUME JournalInv, BoundInv, JournalCrash
  PROVE  BoundInv'
<1>1. /\ up /\ up' = FALSE /\ Faults' = Faults + 1
  BY DEF JournalCrash, Faults, JournalInv, JournalTypeOK
<1>2. file' = file \/ (stage = "append" /\ Len(file') = Len(file) + 1)
  <2>1. CASE file' = file
    BY <2>1
  <2>2. CASE stage = "append" /\ AppendLine
    BY <2>2, AppendedLine
  <2>3. QED
    BY <2>1, <2>2 DEF JournalCrash, disk
<1>3. Limit' = Limit + Cardinality(Key) + 1
  BY <1>1, LimitGrows
<1>4. stage \in {"idle", "append", "apply", "compact"}
  BY DEF JournalInv, JournalTypeOK
<1> HIDE DEF Limit, Unused, Faults
<1>5. Len(file') <= Limit
  BY <1>1, <1>2, <1>4, BoundFacts DEF BoundInv, LengthInv
<1>6. Len(file') \in Nat
  BY <1>2, BoundFacts
<1>7. Limit \in Int /\ Cardinality(Key) \in Int
  BY BoundFacts
<1>8. Len(file') + Cardinality(Key) + 1 <= Limit'
  BY <1>3, <1>5, <1>6, <1>7
<1>9. QED
  BY <1>1, <1>8 DEF BoundInv, LengthInv, CountInv

LEMMA LoadBound ==
  ASSUME JournalInv, BoundInv, Load
  PROVE  BoundInv'
<1>1. /\ ~up /\ up' = TRUE /\ file' = file /\ stage' = stage /\ stage = "idle"
      /\ Faults' = Faults /\ Limit' = Limit /\ entries' = Disk
      /\ recordCount' = Cardinality({i \in 1..Len(file) : file[i] # Garbage})
  BY DEF Load, Faults, Limit, JournalInv, ShapeInv, Disk
<1>2. recordCount' = Len(file)
  <2>1. \A i \in 1..Len(file) : file[i] \in Record
    BY InvFacts, ElementOfSeq
  <2>2. \A i \in 1..Len(file) : file[i] # Garbage
    <3>1. \A line \in Record : line.type # "garbage"
      BY DEF Record, Received, Acknowledged, Result
    <3>2. QED
      BY <2>1, <3>1 DEF Garbage
  <2>3. {i \in 1..Len(file) : file[i] # Garbage} = 1..Len(file)
    BY <2>2
  <2>4. Cardinality(1..Len(file)) = Len(file)
    <3>1. Len(file) \in Nat
      BY BoundFacts
    <3>2. Cardinality(1..Len(file)) = IF 1 > Len(file) THEN 0 ELSE Len(file) - 1 + 1
      BY <3>1, FS_Interval
    <3>3. QED
      BY <3>1, <3>2
  <2>5. QED
    BY <1>1, <2>3, <2>4
<1>3. Unused' \in Int /\ Unused' <= Cardinality(Key)
  <2>1. Live' \in SUBSET Key
    BY DEF Live
  <2>2. Cardinality(Live') \in Nat
    BY <2>1, JournalAssumption, FS_Subset, FS_CardinalityType DEF JournalAssumption
  <2>3. QED
    BY <2>2, BoundFacts DEF Unused
<1> HIDE DEF Limit, Unused, Faults
<1>4. Len(file) + Unused' + 1 <= Limit
  BY <1>1, <1>3, BoundFacts DEF BoundInv, LengthInv
<1>5. /\ file' = file /\ up' = TRUE /\ stage' = "idle"
      /\ Faults' = Faults /\ Limit' = Limit
  BY <1>1
<1>6. Len(file) <= Len(file) + Faults
  BY BoundFacts
<1>7. LengthInv'
  BY <1>4, <1>5 DEF LengthInv
<1>8. CountInv'
  BY <1>2, <1>5, <1>6, BoundFacts DEF CountInv
<1>9. QED
  BY <1>7, <1>8 DEF BoundInv

LEMMA BoundStep ==
  ASSUME JournalInv, BoundInv, [JournalNext]_journalVars
  PROVE  BoundInv'
<1>1. ASSUME entries' = entries, recordCount' = recordCount, file' = file, up' = up,
             errors' = errors, crashes' = crashes,
             stage' = stage \/ (stage = "idle" /\ stage' = "append")
      PROVE  BoundInv'
  <2>1. Unused' = Unused /\ Limit' = Limit /\ Faults' = Faults
    BY <1>1 DEF Unused, Live, Limit, Faults
  <2> HIDE DEF Limit, Unused, Faults
  <2>2. QED
    BY <1>1, <2>1 DEF BoundInv, LengthInv, CountInv
<1>2. ASSUME NEW line, Start(line)
      PROVE  BoundInv'
  BY <1>1, <1>2 DEF Start, disk, memory
<1>3. CASE Write
  <2>1. /\ stage = "append" /\ stage' = "apply" /\ entries' = entries /\ up' = up
        /\ recordCount' = recordCount /\ errors' = errors /\ crashes' = crashes /\ AppendLine
    BY <1>3 DEF Write, memory
  <2>2. Len(file') = Len(file) + 1 /\ up
    BY <2>1, AppendedLine DEF JournalInv, ShapeInv
  <2>3. Unused' = Unused /\ Limit' = Limit /\ Faults' = Faults
    BY <2>1 DEF Unused, Live, Limit, Faults
  <2> HIDE DEF Limit, Unused, Faults
  <2>4. QED
    BY <2>1, <2>2, <2>3, BoundFacts DEF BoundInv, LengthInv, CountInv
<1>4. CASE WriteFails \/ CompactFails
  <2>1. Throws /\ file' = file
    BY <1>4 DEF WriteFails, CompactFails, disk
  <2>2. Len(file') \in Nat
    BY <2>1, BoundFacts
  <2>3. QED
    BY <2>1, <2>2, FaultStep
<1>5. CASE SyncFails
  <2>1. Throws /\ stage = "append" /\ Len(file') = Len(file) + 1
    BY <1>5, AppendedLine DEF SyncFails
  <2>2. Len(file') \in Nat
    BY <2>1, BoundFacts
  <2>3. QED
    BY <2>1, <2>2, FaultStep
<1>6. CASE UNCHANGED journalVars
  BY <1>1, <1>6 DEF journalVars, disk, memory
<1>7. QED
  BY <1>2, <1>3, <1>4, <1>5, <1>6, ApplyBound, CompactBound, CrashBound, LoadBound
     DEF JournalNext, Begin, Acknowledge, RecordResult

\* The file stays bounded although begin() never compacts it: by the threshold,
\* two lines per key, and one line per key and one more for every error or crash
\* that may have skipped a compaction.
THEOREM JournalIsBounded ==
  ASSUME ~ShortWrites
  PROVE  JournalSpec => []FileIsBounded
<1>1. ASSUME JournalInit
      PROVE  BoundInv
  <2>1. /\ file = <<>> /\ up /\ stage = "idle" /\ errors = 0 /\ crashes = 0
        /\ recordCount = 0 /\ entries = NoEntries
    BY <1>1 DEF JournalInit
  <2>2. Cardinality(Key) \in Nat /\ CompactAfter \in Nat /\ CompactAfter >= 1
    BY JournalAssumption, FS_CardinalityType DEF JournalAssumption
  <2>3. Live = {}
    BY <2>1 DEF Live, NoEntries
  <2>4. Unused = Cardinality(Key) /\ Faults = 0
    BY <2>1, <2>2, <2>3, FS_EmptySet DEF Unused, Faults
  <2>5. Limit = CompactAfter + 2 * Cardinality(Key)
    BY <2>2, <2>4 DEF Limit
  <2>6. Len(file) = 0
    BY <2>1
  <2> HIDE DEF Limit, Unused, Faults
  <2>7. QED
    BY <2>1, <2>2, <2>4, <2>5, <2>6 DEF BoundInv, LengthInv, CountInv
<1>2. JournalInv /\ BoundInv /\ [JournalNext]_journalVars => BoundInv'
  BY BoundStep
<1>3. ASSUME JournalInv, BoundInv
      PROVE  FileIsBounded
  <2>1. stage \in {"idle", "append", "apply", "compact"}
    BY <1>3 DEF JournalInv, JournalTypeOK
  <2>2. Len(file) <= Limit
    <3> HIDE DEF Limit, Unused
    <3>1. QED
      BY <1>3, <2>1, BoundFacts DEF BoundInv, LengthInv
  <2>3. QED
    BY <2>2 DEF Limit, Faults, FileIsBounded
<1>4. QED
  BY <1>1, <1>2, <1>3, JournalInvariant, PTL DEF JournalSpec


---------------------------------------------------------------------------
(* The session lease.                                                      *)

\* A dead process runs nothing, and no record names a process yet to be born: a
\* dead owner stays dead when its pid is given away.
PastInv ==
  /\ \A p \in Proc : ~alive[p] => pc[p] = "idle" /\ ~holds[p]
  /\ lease # Nobody => lease[2] <= life[lease[1]]
  /\ guard # Nobody => guard[2] <= life[guard[1]]

\* Which operation a process is in shows in its next call, and the loop is bounded.
LoopInv ==
  \A p \in Proc :
    /\ pc[p] = "check" => releasing[p]
    /\ pc[p] \in {"rename", "read"} => ~releasing[p]
    /\ pc[p] = "lock" /\ ~releasing[p] => attempts[p] = 0
    /\ pc[p] \in {"rename", "read", "reclaim"} /\ ~releasing[p] => attempts[p] < 3

\* Whoever is in the section owns the guard, and it is fresh.
GuardInv == \A p \in Proc : pc[p] \in Section => guard = Me(p) /\ ~stale

\* A holder is named on disk and is not in the middle of an operation that could
\* change that; what is about to be reclaimed is the process's own released lease
\* or one whose owner is dead.
OwnerInv ==
  /\ \A p \in Proc : holds[p] => lease = Me(p) /\ pc[p] \in {"idle", "unlock"}
  /\ \A p \in Proc : pc[p] = "reclaim" =>
       IF releasing[p] THEN lease = Me(p) ELSE lease = Nobody \/ ~OwnerAlive(lease)

IInv == TypeOK /\ LoopInv /\ PastInv /\ (pauses = 0 => GuardInv /\ OwnerInv)

USE LeaseAssumption
    DEF LeaseAssumption, Process, Me, Section, At, Goto, OwnerAlive, locks, procs

---------------------------------------------------------------------------
(* Each step preserves the inductive invariant.                            *)

\* An operation starts.
LEMMA AcquireStep ==
  ASSUME IInv, NEW p \in Proc, Acquire(p)
  PROVE  IInv'
<1> USE DEF IInv, Acquire
<1>1. TypeOK'
  BY DEF TypeOK, LoopInv
<1>2. LoopInv' /\ PastInv'
  BY DEF TypeOK, LoopInv, PastInv
<1>3. ASSUME pauses' = 0
      PROVE  pauses = 0 /\ GuardInv /\ OwnerInv
  BY <1>3 DEF TypeOK
<1>4. ASSUME pauses' = 0
      PROVE  GuardInv'
  BY <1>3, <1>4 DEF TypeOK, PastInv, GuardInv
<1>5. ASSUME pauses' = 0
      PROVE  OwnerInv'
  BY <1>3, <1>5 DEF TypeOK, LoopInv, PastInv, GuardInv, OwnerInv
<1>6. QED
  BY <1>1, <1>2, <1>4, <1>5

\* A holder gives its claim up before it touches the disk.
LEMMA ReleaseStep ==
  ASSUME IInv, NEW p \in Proc, Release(p)
  PROVE  IInv'
<1> USE DEF IInv, Release
<1>1. TypeOK'
  BY DEF TypeOK, LoopInv
<1>2. LoopInv' /\ PastInv'
  BY DEF TypeOK, LoopInv, PastInv
<1>3. ASSUME pauses' = 0
      PROVE  pauses = 0 /\ GuardInv /\ OwnerInv
  BY <1>3 DEF TypeOK
<1>4. ASSUME pauses' = 0
      PROVE  GuardInv'
  BY <1>3, <1>4 DEF TypeOK, PastInv, GuardInv
<1>5. ASSUME pauses' = 0
      PROVE  OwnerInv'
  BY <1>3, <1>5 DEF TypeOK, LoopInv, PastInv, GuardInv, OwnerInv
<1>6. QED
  BY <1>1, <1>2, <1>4, <1>5

\* The guard is taken from nobody or from the dead.
LEMMA LockStep ==
  ASSUME IInv, NEW p \in Proc, Lock(p)
  PROVE  IInv'
<1> USE DEF IInv, Lock
<1>1. TypeOK'
  BY DEF TypeOK, LoopInv
<1>2. LoopInv' /\ PastInv'
  BY DEF TypeOK, LoopInv, PastInv
<1>3. ASSUME pauses' = 0
      PROVE  pauses = 0 /\ GuardInv /\ OwnerInv
  BY <1>3 DEF TypeOK
<1>4. ASSUME pauses' = 0
      PROVE  GuardInv'
  BY <1>3, <1>4 DEF TypeOK, PastInv, GuardInv
<1>5. ASSUME pauses' = 0
      PROVE  OwnerInv'
  BY <1>3, <1>5 DEF TypeOK, LoopInv, PastInv, GuardInv, OwnerInv
<1>6. QED
  BY <1>1, <1>2, <1>4, <1>5

\* An operation gives up.
LEMMA LockFailsStep ==
  ASSUME IInv, NEW p \in Proc, LockFails(p)
  PROVE  IInv'
<1> USE DEF IInv, LockFails
<1>1. TypeOK'
  BY DEF TypeOK, LoopInv
<1>2. LoopInv' /\ PastInv'
  BY DEF TypeOK, LoopInv, PastInv
<1>3. ASSUME pauses' = 0
      PROVE  pauses = 0 /\ GuardInv /\ OwnerInv
  BY <1>3 DEF TypeOK
<1>4. ASSUME pauses' = 0
      PROVE  GuardInv'
  BY <1>3, <1>4 DEF TypeOK, PastInv, GuardInv
<1>5. ASSUME pauses' = 0
      PROVE  OwnerInv'
  BY <1>3, <1>5 DEF TypeOK, LoopInv, PastInv, GuardInv, OwnerInv
<1>6. QED
  BY <1>1, <1>2, <1>4, <1>5

\* Only the guard's owner is there to remove it.
LEMMA UnlockStep ==
  ASSUME IInv, NEW p \in Proc, Unlock(p)
  PROVE  IInv'
<1> USE DEF IInv, Unlock
<1>1. TypeOK'
  BY DEF TypeOK, LoopInv
<1>2. LoopInv' /\ PastInv'
  BY DEF TypeOK, LoopInv, PastInv
<1>3. ASSUME pauses' = 0
      PROVE  pauses = 0 /\ GuardInv /\ OwnerInv
  BY <1>3 DEF TypeOK
<1>4. ASSUME pauses' = 0
      PROVE  GuardInv'
  BY <1>3, <1>4 DEF TypeOK, PastInv, GuardInv
<1>5. ASSUME pauses' = 0
      PROVE  OwnerInv'
  BY <1>3, <1>5 DEF TypeOK, LoopInv, PastInv, GuardInv, OwnerInv
<1>6. QED
  BY <1>1, <1>2, <1>4, <1>5

\* The lease goes to a process when nobody has it.
LEMMA RenameStep ==
  ASSUME IInv, NEW p \in Proc, Rename(p)
  PROVE  IInv'
<1> USE DEF IInv, Rename, Retry
<1>1. TypeOK'
  <2>0. lease' \in {lease, Me(p)} /\ Me(p) \in Process
    BY DEF TypeOK
  <2>1. lease' \in Process \cup {Nobody}
    BY <2>0 DEF TypeOK
  <2>2. holds' \in [Proc -> BOOLEAN]
    BY DEF TypeOK
  <2>3. attempts[p] < 3
    BY DEF LoopInv
  <2>4. attempts' \in {attempts, [attempts EXCEPT ![p] = @ + 1]}
    OBVIOUS
  <2>5. attempts' \in [Proc -> 0..3]
    BY <2>3, <2>4 DEF TypeOK
  <2>6. pc' \in [Proc -> Section \cup {"idle", "lock"}]
    BY DEF TypeOK
  <2>7. QED
    BY <2>1, <2>2, <2>6, <2>5 DEF TypeOK
<1>2. LoopInv' /\ PastInv'
  BY DEF TypeOK, LoopInv, PastInv
<1>3. ASSUME pauses' = 0
      PROVE  pauses = 0 /\ GuardInv /\ OwnerInv
  BY <1>3 DEF TypeOK
<1>4. ASSUME pauses' = 0
      PROVE  GuardInv'
  BY <1>3, <1>4 DEF TypeOK, PastInv, GuardInv
<1>5. ASSUME pauses' = 0
      PROVE  OwnerInv'
  BY <1>3, <1>5 DEF TypeOK, LoopInv, PastInv, GuardInv, OwnerInv
<1>6. QED
  BY <1>1, <1>2, <1>4, <1>5

\* The owner is judged dead only if it is.
LEMMA ReadOwnerStep ==
  ASSUME IInv, NEW p \in Proc, ReadOwner(p)
  PROVE  IInv'
<1> USE DEF IInv, ReadOwner, Retry
<1>1. TypeOK'
  BY DEF TypeOK, LoopInv
<1>2. LoopInv' /\ PastInv'
  BY DEF TypeOK, LoopInv, PastInv
<1>3. ASSUME pauses' = 0
      PROVE  pauses = 0 /\ GuardInv /\ OwnerInv
  BY <1>3 DEF TypeOK
<1>4. ASSUME pauses' = 0
      PROVE  GuardInv'
  BY <1>3, <1>4 DEF TypeOK, PastInv, GuardInv
<1>5. ASSUME pauses' = 0
      PROVE  OwnerInv'
  BY <1>3, <1>5 DEF TypeOK, LoopInv, PastInv, GuardInv, OwnerInv
<1>6. QED
  BY <1>1, <1>2, <1>4, <1>5

\* What is renamed away belongs to nobody alive.
LEMMA ReclaimStep ==
  ASSUME IInv, NEW p \in Proc, Reclaim(p)
  PROVE  IInv'
<1> USE DEF IInv, Reclaim, Retry
<1>1. TypeOK'
  BY DEF TypeOK, LoopInv
<1>2. LoopInv' /\ PastInv'
  BY DEF TypeOK, LoopInv, PastInv
<1>3. ASSUME pauses' = 0
      PROVE  pauses = 0 /\ GuardInv /\ OwnerInv
  BY <1>3 DEF TypeOK
<1>4. ASSUME pauses' = 0
      PROVE  GuardInv'
  BY <1>3, <1>4 DEF TypeOK, PastInv, GuardInv
<1>5. ASSUME pauses' = 0
      PROVE  OwnerInv'
  BY <1>3, <1>5 DEF TypeOK, LoopInv, PastInv, GuardInv, OwnerInv
<1>6. QED
  BY <1>1, <1>2, <1>4, <1>5

\* A release touches its own lease only.
LEMMA CheckTokenStep ==
  ASSUME IInv, NEW p \in Proc, CheckToken(p)
  PROVE  IInv'
<1> USE DEF IInv, CheckToken
<1>1. TypeOK'
  BY DEF TypeOK, LoopInv
<1>2. LoopInv' /\ PastInv'
  BY DEF TypeOK, LoopInv, PastInv
<1>3. ASSUME pauses' = 0
      PROVE  pauses = 0 /\ GuardInv /\ OwnerInv
  BY <1>3 DEF TypeOK
<1>4. ASSUME pauses' = 0
      PROVE  GuardInv'
  BY <1>3, <1>4 DEF TypeOK, PastInv, GuardInv
<1>5. ASSUME pauses' = 0
      PROVE  OwnerInv'
  BY <1>3, <1>5 DEF TypeOK, LoopInv, PastInv, GuardInv, OwnerInv
<1>6. QED
  BY <1>1, <1>2, <1>4, <1>5

\* A crash ends a claim, not a record.
LEMMA CrashStep ==
  ASSUME IInv, NEW p \in Proc, Crash(p)
  PROVE  IInv'
<1> USE DEF IInv, Crash
<1>1. TypeOK'
  BY DEF TypeOK, LoopInv
<1>2. LoopInv' /\ PastInv'
  BY DEF TypeOK, LoopInv, PastInv
<1>3. ASSUME pauses' = 0
      PROVE  pauses = 0 /\ GuardInv /\ OwnerInv
  BY <1>3 DEF TypeOK
<1>4. ASSUME pauses' = 0
      PROVE  GuardInv'
  BY <1>3, <1>4 DEF TypeOK, PastInv, GuardInv
<1>5. ASSUME pauses' = 0
      PROVE  OwnerInv'
  BY <1>3, <1>5 DEF TypeOK, LoopInv, PastInv, GuardInv, OwnerInv
<1>6. QED
  BY <1>1, <1>2, <1>4, <1>5

\* A new process is not the old one.
LEMMA RebornStep ==
  ASSUME IInv, NEW p \in Proc, Reborn(p)
  PROVE  IInv'
<1> USE DEF IInv, Reborn
<1>1. TypeOK'
  BY DEF TypeOK, LoopInv
<1>2. LoopInv' /\ PastInv'
  BY DEF TypeOK, LoopInv, PastInv
<1>3. ASSUME pauses' = 0
      PROVE  pauses = 0 /\ GuardInv /\ OwnerInv
  BY <1>3 DEF TypeOK
<1>4. ASSUME pauses' = 0
      PROVE  GuardInv'
  BY <1>3, <1>4 DEF TypeOK, PastInv, GuardInv
<1>5. ASSUME pauses' = 0
      PROVE  OwnerInv'
  BY <1>3, <1>5 DEF TypeOK, LoopInv, PastInv, GuardInv, OwnerInv
<1>6. QED
  BY <1>1, <1>2, <1>4, <1>5

\* Only a dead holder's guard grows stale without a pause.
LEMMA GuardAgesStep ==
  ASSUME IInv, GuardAges
  PROVE  IInv'
<1> USE DEF IInv, GuardAges
<1>1. TypeOK'
  BY DEF TypeOK, LoopInv
<1>2. LoopInv' /\ PastInv'
  BY DEF TypeOK, LoopInv, PastInv
<1>3. ASSUME pauses' = 0
      PROVE  pauses = 0 /\ GuardInv /\ OwnerInv
  BY <1>3 DEF TypeOK
<1>4. ASSUME pauses' = 0
      PROVE  GuardInv'
  BY <1>3, <1>4 DEF TypeOK, PastInv, GuardInv
<1>5. ASSUME pauses' = 0
      PROVE  OwnerInv'
  BY <1>3, <1>5 DEF TypeOK, LoopInv, PastInv, GuardInv, OwnerInv
<1>6. QED
  BY <1>1, <1>2, <1>4, <1>5

---------------------------------------------------------------------------
\* Nothing is held, owned or guarded at first.
LEMMA InitIInv == Init => IInv
<1> SUFFICES ASSUME Init PROVE IInv
  OBVIOUS
<1>1. TypeOK
  <2>1. /\ alive \in [Proc -> BOOLEAN] /\ releasing \in [Proc -> BOOLEAN]
        /\ holds \in [Proc -> BOOLEAN]
    BY DEF Init
  <2>2. /\ life \in [Proc -> 1..MaxLife] /\ attempts \in [Proc -> 0..3]
        /\ pc \in [Proc -> Section \cup {"idle", "lock"}]
    BY DEF Init
  <2>3. lease \in Process \cup {Nobody} /\ guard \in Process \cup {Nobody}
    BY DEF Init
  <2>4. stale \in BOOLEAN
    BY DEF Init
  <2>5. pauses \in 0..MaxPauses
    BY DEF Init
  <2>6. QED
    BY <2>1, <2>2, <2>3, <2>4, <2>5 DEF TypeOK
<1>2. LoopInv /\ PastInv /\ GuardInv /\ OwnerInv
  BY DEF Init, LoopInv, PastInv, GuardInv, OwnerInv
<1>3. QED
  BY <1>1, <1>2 DEF IInv

\* Every step, and stuttering, preserves the invariant.
LEMMA NextIInv == IInv /\ [Next]_vars => IInv'
<1> SUFFICES ASSUME IInv, [Next]_vars PROVE IInv'
  OBVIOUS
<1>1. ASSUME NEW p \in Proc, Acquire(p) \/ Release(p) \/ Step(p) \/ Crash(p) \/ Reborn(p)
      PROVE  IInv'
  BY <1>1, AcquireStep, ReleaseStep, LockStep, LockFailsStep, UnlockStep, RenameStep,
     ReadOwnerStep, ReclaimStep, CheckTokenStep, CrashStep, RebornStep DEF Step
<1>2. CASE GuardAges
  BY <1>2, GuardAgesStep
<1>3. CASE UNCHANGED vars
  BY <1>3 DEF vars, IInv, TypeOK, LoopInv, PastInv, GuardInv, OwnerInv
<1>4. QED
  BY <1>1, <1>2, <1>3 DEF Next

\* The inductive invariant holds in every reachable state.
THEOREM LeaseInvariant == Spec => []IInv
<1>1. Init => IInv
  BY InitIInv
<1>2. IInv /\ [Next]_vars => IInv'
  BY NextIInv
<1>3. QED
  BY <1>1, <1>2, PTL DEF Spec

\* Every variable keeps its type.
THEOREM LeaseTypeOK == Spec => []TypeOK
<1>1. IInv => TypeOK
  BY DEF IInv
<1>2. QED
  BY <1>1, LeaseInvariant, PTL

\* Whoever may write the transcript is the process named on disk.
THEOREM HoldersAreOwners == Spec => []HolderOwnsLease
<1>1. IInv => HolderOwnsLease
  BY DEF IInv, OwnerInv, HolderOwnsLease
<1>2. QED
  BY <1>1, LeaseInvariant, PTL

\* So two processes never write it at once, unless a live guard holder paused.
THEOREM ExclusiveUnlessPaused == Spec => [](pauses = 0 => Exclusive)
<1>1. IInv => (pauses = 0 => Exclusive)
  BY DEF IInv, OwnerInv, Exclusive
<1>2. QED
  BY <1>1, LeaseInvariant, PTL
=============================================================================
