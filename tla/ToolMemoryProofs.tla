-------------------------- MODULE ToolMemoryProofs --------------------------
(***************************************************************************)
(* What is proved of ToolMemory for any number of threads, ids, texts and  *)
(* files and for any limits: the list, the blocks and the counters of the  *)
(* memory agree, the limits hold whenever tool_mu is free, and ToolMemory  *)
(* implements ReplayMap.                                                   *)
(***************************************************************************)
EXTENDS ToolMemory, SumTheorems, SequenceTheorems, FiniteSetTheorems, TLAPS

-----------------------------------------------------------------------------
(* Sequences.                                                              *)

LEMMA ConsFacts ==
    ASSUME NEW S, NEW s \in Seq(S), NEW e \in S
    PROVE  /\ <<e>> \o s \in Seq(S)
           /\ Len(<<e>> \o s) = Len(s) + 1
           /\ Range(<<e>> \o s) = Range(s) \cup {e}
           /\ IsInjective(s) /\ e \notin Range(s) => IsInjective(<<e>> \o s)
<1> DEFINE c == <<e>> \o s
<1>1. c \in Seq(S) /\ Len(c) = Len(s) + 1
  OBVIOUS
<1>2. DOMAIN c = 1 .. (Len(s) + 1) /\ DOMAIN s = 1 .. Len(s) /\ Len(s) \in Nat
  BY <1>1
<1>3. c[1] = e /\ \A k \in 1 .. Len(s) : c[k + 1] = s[k]
  OBVIOUS
<1>4. \A k \in DOMAIN c : k = 1 \/ (k - 1 \in DOMAIN s /\ c[k] = s[k - 1])
  BY <1>2, <1>3
<1> HIDE DEF c
<1>5. Range(c) = Range(s) \cup {e}
  <2>1. ASSUME NEW x \in Range(c) PROVE x \in Range(s) \cup {e}
    BY <1>3, <1>4 DEF Range
  <2>2. ASSUME NEW x \in Range(s) PROVE x \in Range(c)
    <3>1. PICK k \in DOMAIN s : x = s[k]
      BY DEF Range
    <3>2. k + 1 \in DOMAIN c /\ c[k + 1] = x
      BY <1>2, <1>3, <3>1
    <3> QED
      BY <3>2 DEF Range
  <2>3. e \in Range(c)
    BY <1>2, <1>3 DEF Range
  <2> QED
    BY <2>1, <2>2, <2>3
<1>6. ASSUME IsInjective(s), e \notin Range(s) PROVE IsInjective(c)
  <2>1. \A k \in DOMAIN s : s[k] # e
    BY <1>6 DEF Range
  <2>2. ASSUME NEW a \in DOMAIN c, NEW b \in DOMAIN c, c[a] = c[b] PROVE a = b
    BY <1>2, <1>3, <1>4, <1>6, <2>1, <2>2 DEF IsInjective
  <2> QED
    BY <2>2 DEF IsInjective
<1> QED
  BY <1>1, <1>5, <1>6 DEF c

LEMMA WithoutFacts ==
    ASSUME NEW S, NEW s \in Seq(S), IsInjective(s), NEW e \in Range(s)
    PROVE  /\ Without(s, e) \in Seq(S)
           /\ Len(Without(s, e)) = Len(s) - 1
           /\ Range(Without(s, e)) = Range(s) \ {e}
           /\ IsInjective(Without(s, e))
<1> DEFINE w == Without(s, e)
<1>0. DOMAIN s = 1 .. Len(s) /\ Len(s) \in Nat
  OBVIOUS
<1>1. \E k \in 1 .. Len(s) : s[k] = e
  BY <1>0 DEF Range
<1>2. PICK k \in 1 .. Len(s) :
        s[k] = e /\ w = [n \in 1 .. (Len(s) - 1) |-> IF n < k THEN s[n] ELSE s[n + 1]]
  BY <1>1 DEF Without
<1> HIDE DEF w
<1>3. \A m \in DOMAIN s : m # k => s[m] # e
  BY <1>0, <1>2 DEF IsInjective
<1>4. \A n \in 1 .. (Len(s) - 1) : w[n] \in S
  BY <1>0, <1>2
<1>5. w \in Seq(S) /\ Len(w) = Len(s) - 1 /\ DOMAIN w = 1 .. (Len(s) - 1)
  BY <1>0, <1>2, <1>4
<1>6. Range(w) = Range(s) \ {e}
  <2>1. ASSUME NEW x \in Range(w) PROVE x \in Range(s) \ {e}
    <3>1. PICK n \in 1 .. (Len(s) - 1) : x = w[n]
      BY <1>5 DEF Range
    <3>2. CASE n < k
      BY <1>0, <1>2, <1>3, <3>1, <3>2 DEF Range
    <3>3. CASE ~(n < k)
      <4>1. n + 1 \in DOMAIN s /\ n + 1 # k /\ x = s[n + 1]
        BY <1>0, <1>2, <3>1, <3>3
      <4> QED
        BY <1>3, <4>1 DEF Range
    <3> QED
      BY <3>2, <3>3
  <2>2. ASSUME NEW x \in Range(s), x # e PROVE x \in Range(w)
    <3>1. PICK m \in DOMAIN s : x = s[m]
      BY DEF Range
    <3>2. m # k
      BY <1>2, <2>2, <3>1
    <3>3. CASE m < k
      <4>1. m \in DOMAIN w /\ w[m] = x
        BY <1>0, <1>2, <1>5, <3>1, <3>3
      <4> QED
        BY <4>1 DEF Range
    <3>4. CASE ~(m < k)
      <4>1. m - 1 \in DOMAIN w /\ w[m - 1] = x
        BY <1>0, <1>2, <1>5, <3>1, <3>2, <3>4
      <4> QED
        BY <4>1 DEF Range
    <3> QED
      BY <3>3, <3>4
  <2> QED
    BY <2>1, <2>2
<1>7. IsInjective(w)
  <2>1. ASSUME NEW a \in DOMAIN w, NEW b \in DOMAIN w, w[a] = w[b] PROVE a = b
    <3> DEFINE at(n) == IF n < k THEN n ELSE n + 1
    <3>1. \A n \in DOMAIN w : at(n) \in DOMAIN s /\ w[n] = s[at(n)]
      BY <1>0, <1>2, <1>5
    <3>2. at(a) = at(b)
      BY <2>1, <3>1 DEF IsInjective
    <3> QED
      BY <1>0, <1>2, <1>5, <3>2
  <2> QED
    BY <2>1 DEF IsInjective
<1> QED
  BY <1>5, <1>6, <1>7 DEF w

LEMMA SeqMono ==
    ASSUME NEW S, NEW T, S \subseteq T, NEW s \in Seq(S)
    PROVE  s \in Seq(T)
<1>1. Len(s) \in Nat /\ s = [k \in 1 .. Len(s) |-> s[k]] /\ \A k \in 1 .. Len(s) : s[k] \in T
  OBVIOUS
<1> QED
  BY <1>1

(* A set of numbers that is not empty has a least element.                 *)
LEMMA Least ==
    ASSUME NEW T \in SUBSET Nat, T # {}
    PROVE  \E n \in T : \A k \in T : n <= k
<1>1. PICK n \in T : \A k \in T : ~(<<k, n>> \in OpToRel(<, Nat))
  BY NatLessThanWellFounded, WFMin
<1>2. \A k \in T : ~(k < n)
  BY <1>1 DEF OpToRel
<1> QED
  BY <1>2

(* What a sequence of sequences is flattened to has the elements of those. *)
LEMMA FlattenIn ==
    ASSUME NEW S, NEW ss \in Seq(Seq(S))
    PROVE  SeqExt!FlattenSeq(ss) \in Seq(S)
<1> DEFINE N == Len(ss)
           Body(F) == [i \in 1 .. N |-> IF i = 1 THEN ss[i] ELSE F[i - 1] \o ss[i]]
           flatten == CHOOSE F : F = Body(F)
<1>0. N \in Nat /\ \A i \in 1 .. N : ss[i] \in Seq(S)
  OBVIOUS
<1>1. CASE N = 0
  BY <1>1 DEF SeqExt!FlattenSeq
<1>2. CASE N # 0
  <2>1. SeqExt!FlattenSeq(ss) = flatten[N]
    BY <1>2 DEF SeqExt!FlattenSeq
  <2> DEFINE Solves(F, n) ==
               /\ F \in [1 .. n -> Seq(S)]
               /\ \A i \in 1 .. n : F[i] = IF i = 1 THEN ss[i] ELSE F[i - 1] \o ss[i]
             unsolved == {n \in 1 .. N : ~\E F : Solves(F, n)}
  <2>2. unsolved = {}
    <3> SUFFICES ASSUME unsolved # {} PROVE FALSE
      OBVIOUS
    <3>1. PICK n \in unsolved : \A k \in unsolved : n <= k
      <4>1. unsolved \in SUBSET Nat
        OBVIOUS
      <4> HIDE DEF unsolved
      <4> QED
        BY <4>1, Least
    <3>2. CASE n = 1
      <4> DEFINE G == [i \in 1 .. 1 |-> ss[1]]
      <4>1. Solves(G, 1)
        BY <1>0, <1>2
      <4> QED
        BY <3>2, <4>1
    <3>3. CASE n # 1
      <4>1. n - 1 \in 1 .. N /\ n \in 1 .. N /\ ~(n <= n - 1)
        BY <3>3
      <4>2. n - 1 \notin unsolved
        BY <3>1, <4>1
      <4>3. PICK F : Solves(F, n - 1)
        BY <4>1, <4>2
      <4> DEFINE G == [i \in 1 .. n |-> IF i = n THEN F[n - 1] \o ss[n] ELSE F[i]]
      <4>4. F[n - 1] \o ss[n] \in Seq(S)
        BY <1>0, <4>1, <4>3
      <4>5. \A i \in 1 .. (n - 1) : F[i] \in Seq(S) /\ F[i] = IF i = 1 THEN ss[i] ELSE F[i - 1] \o ss[i]
        BY <4>3
      <4>6. G \in [1 .. n -> Seq(S)]
        BY <4>1, <4>4, <4>5
      <4>7. ASSUME NEW i \in 1 .. n PROVE G[i] = IF i = 1 THEN ss[i] ELSE G[i - 1] \o ss[i]
        <5>1. CASE i = n
          <6>0. n \in 1 .. n /\ n - 1 \in 1 .. n /\ n - 1 # n
            BY <3>3, <4>1
          <6>1. G[n] = F[n - 1] \o ss[n] /\ G[n - 1] = F[n - 1]
            BY <6>0
          <6> HIDE DEF G
          <6> QED
            BY <3>3, <5>1, <6>1
        <5>2. CASE i # n
          <6>1. i \in 1 .. (n - 1) /\ G[i] = F[i] /\ (i # 1 => G[i - 1] = F[i - 1])
            BY <4>1, <5>2
          <6> QED
            BY <4>5, <6>1
        <5> QED
          BY <5>1, <5>2
      <4>8. Solves(G, n)
        BY <4>6, <4>7
      <4> QED
        BY <4>8
    <3> QED
      BY <3>2, <3>3
  <2>3. PICK H : Solves(H, N)
    <3>1. N \in 1 .. N
      BY <1>0, <1>2
    <3> HIDE DEF N, Solves
    <3> QED
      BY <2>2, <3>1
  <2>4. H = Body(H)
    BY <2>3
  <2>5. flatten = Body(flatten)
    BY <2>4
  <2> HIDE DEF flatten
  <2>6. \A i \in 1 .. N : flatten[i] = IF i = 1 THEN ss[i] ELSE flatten[i - 1] \o ss[i]
    BY <2>5
  <2> DEFINE odd == {i \in 1 .. N : flatten[i] \notin Seq(S)}
  <2>7. odd = {}
    <3> SUFFICES ASSUME odd # {} PROVE FALSE
      OBVIOUS
    <3>1. PICK n \in odd : \A k \in odd : n <= k
      <4>1. odd \in SUBSET Nat
        OBVIOUS
      <4> HIDE DEF odd
      <4> QED
        BY <4>1, Least
    <3>2. n # 1
      BY <1>0, <2>6
    <3>3. n - 1 \in 1 .. N /\ n \in 1 .. N /\ ~(n <= n - 1)
      BY <3>2
    <3>4. flatten[n - 1] \in Seq(S)
      BY <3>1, <3>3
    <3>5. flatten[n] = flatten[n - 1] \o ss[n]
      BY <2>6, <3>2, <3>3
    <3>6. flatten[n] \in Seq(S)
      BY <1>0, <3>3, <3>4, <3>5
    <3> QED
      BY <3>6
  <2> QED
    BY <1>0, <1>2, <2>1, <2>7
<1> QED
  BY <1>1, <1>2

-----------------------------------------------------------------------------
(* The memory.                                                             *)

Memories == [lru : Seq(Ids), entry : [Ids -> EntryRecords \cup {None}],
             block : [Strings -> BlockRecords \cup {None}], bytes : Nat, entries : Nat]

Held(m) == {i \in Ids : m.entry[i] # None}
Live(m) == {s \in Strings : m.block[s] # None}
Users(m, s) == {i \in Held(m) : m.entry[i].text = s}
Weight == [s \in Strings |-> BlockBytes[s[1]]]

ListOK(m) == IsInjective(m.lru) /\ Range(m.lru) = Held(m)

CountOK(m) ==
    /\ m.entries = Cardinality(Held(m))
    /\ m.bytes = EntryBytes * Cardinality(Held(m)) + SumFunctionOnSet(Weight, Live(m))

BlockOK(m) ==
    /\ \A i \in Held(m) : m.entry[i].text \in Live(m)
    /\ \A s \in Live(m) :
        /\ m.block[s].refs = Len(m.block[s].members) /\ m.block[s].refs > 0
        /\ IsInjective(m.block[s].members)
        /\ Range(m.block[s].members) = Users(m, s)

Sound(m) == m \in Memories /\ ListOK(m) /\ CountOK(m) /\ BlockOK(m)

LEMMA StringType == \A s \in Strings : BlockBytes[s[1]] \in Nat \ {0} /\ Weight[s] = BlockBytes[s[1]]
BY LimitAssumption DEF Strings, Weight

LEMMA HeldFinite ==
    ASSUME NEW m
    PROVE  IsFiniteSet(Held(m)) /\ Cardinality(Held(m)) \in Nat
<1>1. IsFiniteSet(Held(m))
  BY TextAssumption, FS_Subset DEF Held
<1> QED
  BY <1>1, FS_CardinalityType

(* There are no more blocks than entries.                                  *)
LEMMA LiveCounts ==
    ASSUME NEW m, BlockOK(m), m \in Memories
    PROVE  Counts(Live(m), Weight) /\ SumFunctionOnSet(Weight, Live(m)) \in Nat
<1> DEFINE f == [i \in Held(m) |-> m.entry[i].text]
<1>1. f \in Surjection(Held(m), Live(m))
  <2>1. f \in [Held(m) -> Live(m)]
    BY DEF BlockOK
  <2>2. ASSUME NEW s \in Live(m) PROVE \E i \in Held(m) : f[i] = s
    <3> DEFINE l == m.block[s].members
    <3>1. m.block[s] \in BlockRecords
      BY DEF Live, Memories
    <3>2. l \in Seq(Ids) /\ Len(l) > 0 /\ Range(l) = Users(m, s)
      BY <3>1 DEF BlockOK, BlockRecords
    <3>3. l[1] \in Users(m, s)
      BY <3>2 DEF Range
    <3> QED
      BY <3>3 DEF Users
  <2> QED
    BY <2>1, <2>2 DEF Surjection
<1>2. IsFiniteSet(Live(m))
  BY <1>1, HeldFinite, FS_Surjection
<1>3. Counts(Live(m), Weight)
  BY <1>2, StringType DEF Counts, Live
<1> QED
  BY <1>3, SumType

LEMMA EmptySound == Sound(Empty)
<1>1. Empty \in Memories
  BY DEF Empty, Memories
<1>2. Held(Empty) = {} /\ Live(Empty) = {}
  BY DEF Empty, Held, Live
<1>3. ListOK(Empty)
  BY <1>2 DEF ListOK, Empty, IsInjective, Range
<1>4. CountOK(Empty)
  <2>1. Cardinality(Held(Empty)) = 0
    BY <1>2, FS_EmptySet
  <2>2. SumFunctionOnSet(Weight, Live(Empty)) = 0
    BY <1>2, SumEmpty
  <2>3. Empty.entries = 0 /\ Empty.bytes = 0
    BY DEF Empty
  <2> QED
    BY <2>1, <2>2, <2>3, LimitAssumption DEF CountOK
<1>5. BlockOK(Empty)
  BY <1>2 DEF BlockOK
<1> QED
  BY <1>1, <1>3, <1>4, <1>5 DEF Sound

(* tool_memory_touch moves an entry and changes nothing else.              *)
LEMMA TouchSound ==
    ASSUME NEW m, Sound(m), NEW i \in Held(m)
    PROVE  /\ Sound(Touch(m, i))
           /\ Touch(m, i).entry = m.entry /\ Touch(m, i).bytes = m.bytes /\ Touch(m, i).entries = m.entries
<1> DEFINE r == Touch(m, i)
           l == <<i>> \o Without(m.lru, i)
<1>1. m \in Memories /\ m.lru \in Seq(Ids) /\ IsInjective(m.lru) /\ Range(m.lru) = Held(m) /\ i \in Ids
  BY DEF Sound, Memories, ListOK, Held
<1>2. l \in Seq(Ids) /\ IsInjective(l) /\ Range(l) = Held(m)
  <2> DEFINE w == Without(m.lru, i)
  <2>1. w \in Seq(Ids) /\ Range(w) = Held(m) \ {i} /\ IsInjective(w)
    BY <1>1, WithoutFacts
  <2> HIDE DEF w
  <2>2. /\ <<i>> \o w \in Seq(Ids) /\ Range(<<i>> \o w) = Range(w) \cup {i}
        /\ IsInjective(w) /\ i \notin Range(w) => IsInjective(<<i>> \o w)
    BY <1>1, <2>1, ConsFacts
  <2> QED
    BY <1>1, <2>1, <2>2 DEF w
<1>3. r = [m EXCEPT !.lru = l]
  BY DEF Touch
<1> HIDE DEF l, r
<1>4. /\ r \in Memories /\ r.lru = l /\ r.entry = m.entry /\ r.block = m.block
      /\ r.bytes = m.bytes /\ r.entries = m.entries
  BY <1>1, <1>2, <1>3 DEF Memories
<1>5. Held(r) = Held(m) /\ Live(r) = Live(m) /\ \A s : Users(r, s) = Users(m, s)
  BY <1>4 DEF Held, Live, Users
<1>6. ListOK(r)
  BY <1>2, <1>4, <1>5 DEF ListOK
<1>7. CountOK(r)
  BY <1>4, <1>5 DEF CountOK, Sound
<1>8. BlockOK(r)
  BY <1>4, <1>5 DEF BlockOK, Sound
<1> QED
  BY <1>4, <1>6, <1>7, <1>8 DEF Sound, r

(* What tool_memory_release_block_locked does to each field.               *)
LEMMA ReleaseFields ==
    ASSUME NEW m \in Memories, NEW s \in Strings, NEW b \in BlockRecords, m.block[s] = b, NEW r, r = ReleaseBlock(m, s)
    PROVE  /\ r.lru = m.lru /\ r.entry = m.entry /\ r.entries = m.entries
           /\ b.refs > 1 =>
                /\ r.block = [m.block EXCEPT ![s] = [refs |-> b.refs - 1, members |-> b.members]]
                /\ r.bytes = m.bytes
           /\ ~(b.refs > 1) =>
                /\ r.block = [m.block EXCEPT ![s] = None]
                /\ r.bytes = Minus(m.bytes, BlockBytes[s[1]])
           /\ r = [lru |-> r.lru, entry |-> r.entry, block |-> r.block, bytes |-> r.bytes, entries |-> r.entries]
<1>1. CASE b.refs > 1
  <2> DEFINE d == [b EXCEPT !.refs = @ - 1]
  <2>1. d = [refs |-> b.refs - 1, members |-> b.members]
    BY DEF BlockRecords
  <2>2. r = [m EXCEPT !.block[s].refs = @ - 1]
    BY <1>1 DEF ReleaseBlock
  <2>3. r.block = [m.block EXCEPT ![s].refs = @ - 1]
    BY <2>2 DEF Memories
  <2>4. m.block \in [Strings -> BlockRecords \cup {None}]
    BY DEF Memories
  <2>5. r.block = [m.block EXCEPT ![s] = d]
    BY <2>3, <2>4
  <2>6. r.lru = m.lru /\ r.entry = m.entry /\ r.entries = m.entries /\ r.bytes = m.bytes
    BY <2>2 DEF Memories
  <2>7. r = [lru |-> r.lru, entry |-> r.entry, block |-> r.block, bytes |-> r.bytes, entries |-> r.entries]
    BY <2>2 DEF Memories
  <2> HIDE DEF d
  <2> QED
    BY <1>1, <2>1, <2>5, <2>6, <2>7
<1>2. CASE ~(b.refs > 1)
  <2> DEFINE x == Minus(m.bytes, BlockBytes[s[1]])
  <2>2. r = [m EXCEPT !.block[s] = None, !.bytes = x]
    BY <1>2 DEF ReleaseBlock, Memories
  <2> HIDE DEF x
  <2>3. r.block = [m.block EXCEPT ![s] = None]
    BY <2>2 DEF Memories
  <2>4. r.lru = m.lru /\ r.entry = m.entry /\ r.entries = m.entries /\ r.bytes = x
    BY <2>2 DEF Memories
  <2>5. r = [lru |-> r.lru, entry |-> r.entry, block |-> r.block, bytes |-> r.bytes, entries |-> r.entries]
    BY <2>2 DEF Memories
  <2> QED
    BY <1>2, <2>3, <2>4, <2>5 DEF x
<1> QED
  BY <1>1, <1>2

(* What tool_memory_remove_entry_locked does to each field.                *)
LEMMA RemoveFields ==
    ASSUME NEW m, Sound(m), NEW i \in Held(m), NEW s, s = m.entry[i].text, NEW b, b = m.block[s],
           NEW r, r = RemoveEntry(m, i)
    PROVE  /\ i \in Ids /\ s \in Live(m) /\ s \in Strings /\ b \in BlockRecords
           /\ r \in Memories
           /\ r.lru = Without(m.lru, i)
           /\ r.entry = [m.entry EXCEPT ![i] = None]
           /\ r.entries = Minus(m.entries, 1)
           /\ b.refs > 1 =>
                /\ r.block = [m.block EXCEPT ![s] = [refs |-> b.refs - 1, members |-> Without(b.members, i)]]
                /\ r.bytes = Minus(m.bytes, EntryBytes)
           /\ ~(b.refs > 1) =>
                /\ r.block = [m.block EXCEPT ![s] = None]
                /\ r.bytes = Minus(Minus(m.bytes, EntryBytes), BlockBytes[s[1]])
<1>1. i \in Ids /\ s \in Live(m) /\ s \in Strings /\ m \in Memories
  BY DEF Sound, BlockOK, Held, Live
<1>2. b \in BlockRecords /\ i \in Range(b.members) /\ IsInjective(b.members) /\ b.refs = Len(b.members)
  BY <1>1 DEF Sound, BlockOK, Users, Live, Memories
<1> DEFINE lru == Without(m.lru, i)
           mbs == Without(b.members, i)
           bytes == Minus(m.bytes, EntryBytes)
           entries == Minus(m.entries, 1)
           n == [m EXCEPT !.lru = Without(@, i), !.entry[i] = None, !.block[s].members = Without(@, i),
                          !.bytes = Minus(@, EntryBytes), !.entries = Minus(@, 1)]
           c == [b EXCEPT !.members = mbs]
<1>3. lru \in Seq(Ids) /\ mbs \in Seq(Ids)
  <2>1. m.lru \in Seq(Ids) /\ i \in Range(m.lru) /\ IsInjective(m.lru) /\ b.members \in Seq(Ids)
    BY <1>1, <1>2 DEF Sound, ListOK, Memories, BlockRecords
  <2> QED
    BY <1>2, <2>1, WithoutFacts
<1>4. \A x, y \in Nat : Minus(x, y) \in Nat
  BY DEF Minus
<1>5. m.bytes \in Nat /\ m.entries \in Nat /\ EntryBytes \in Nat /\ BlockBytes[s[1]] \in Nat
  BY <1>1, StringType, LimitAssumption DEF Memories
<1>6. bytes \in Nat /\ entries \in Nat
  BY <1>4, <1>5
<1>7. c = [refs |-> b.refs, members |-> mbs] /\ c \in BlockRecords
  <2>1. ASSUME NEW x \in BlockRecords, NEW y \in Seq(Ids)
        PROVE  /\ [x EXCEPT !.members = y] = [refs |-> x.refs, members |-> y]
               /\ [x EXCEPT !.members = y] \in BlockRecords
    BY DEF BlockRecords
  <2>2. b \in BlockRecords
    BY <1>2
  <2>3. mbs \in Seq(Ids)
    BY <1>3
  <2> HIDE DEF mbs
  <2> QED
    BY <2>1, <2>2, <2>3
<1>8. n = [m EXCEPT !.lru = lru, !.entry[i] = None, !.block[s].members = mbs, !.bytes = bytes, !.entries = entries]
  BY <1>1 DEF Memories
<1>9. r = ReleaseBlock(n, s)
  BY DEF RemoveEntry
<1> HIDE DEF n, lru, mbs, bytes, entries
<1>10. m.block \in [Strings -> BlockRecords \cup {None}] /\ m.entry \in [Ids -> EntryRecords \cup {None}]
  BY <1>1 DEF Memories
<1>11. n.lru = lru /\ n.bytes = bytes /\ n.entries = entries
  BY <1>1, <1>8 DEF Memories
<1>12. n.entry = [m.entry EXCEPT ![i] = None]
  BY <1>1, <1>8 DEF Memories
<1>13. n.block = [m.block EXCEPT ![s] = c]
  <2>1. n.block = [m.block EXCEPT ![s].members = mbs]
    BY <1>1, <1>8 DEF Memories
  <2> QED
    BY <1>1, <1>10, <2>1
<1>14. n = [lru |-> n.lru, entry |-> n.entry, block |-> n.block, bytes |-> n.bytes, entries |-> n.entries]
  BY <1>1, <1>8 DEF Memories
<1> HIDE DEF c
<1>15. n.block \in [Strings -> BlockRecords \cup {None}] /\ n.block[s] = c /\ n.entry \in [Ids -> EntryRecords \cup {None}]
  BY <1>1, <1>7, <1>10, <1>12, <1>13
<1>16. n \in Memories
  BY <1>3, <1>6, <1>11, <1>14, <1>15 DEF Memories
<1>17. /\ r.lru = lru /\ r.entry = n.entry /\ r.entries = entries
       /\ b.refs > 1 =>
            /\ r.block = [n.block EXCEPT ![s] = [refs |-> b.refs - 1, members |-> mbs]]
            /\ r.bytes = bytes
       /\ ~(b.refs > 1) =>
            /\ r.block = [n.block EXCEPT ![s] = None]
            /\ r.bytes = Minus(bytes, BlockBytes[s[1]])
       /\ r = [lru |-> r.lru, entry |-> r.entry, block |-> r.block, bytes |-> r.bytes, entries |-> r.entries]
  <2>1. c.refs = b.refs /\ c.members = mbs
    BY <1>7
  <2> QED
    BY <1>1, <1>7, <1>9, <1>11, <1>15, <1>16, <2>1, ReleaseFields
<1>18. \A v : [n.block EXCEPT ![s] = v] = [m.block EXCEPT ![s] = v]
  BY <1>1, <1>10, <1>13
<1>19. r.block \in [Strings -> BlockRecords \cup {None}]
  <2> DEFINE d == [refs |-> b.refs - 1, members |-> mbs]
  <2>1. b.refs > 1 => d \in BlockRecords
    BY <1>2, <1>3 DEF BlockRecords
  <2> HIDE DEF d
  <2> QED
    BY <1>1, <1>15, <1>17, <2>1 DEF d
<1>20. r.bytes \in Nat
  BY <1>4, <1>5, <1>6, <1>17
<1>21. r \in Memories
  BY <1>3, <1>6, <1>15, <1>17, <1>19, <1>20 DEF Memories
<1> QED
  BY <1>1, <1>2, <1>12, <1>17, <1>18, <1>21 DEF lru, mbs, bytes, entries

(* tool_memory_remove_entry_locked keeps the list, the index, the blocks   *)
(* and the counters in step.                                               *)
LEMMA RemoveSound ==
    ASSUME NEW m, Sound(m), NEW i \in Held(m), NEW r, r = RemoveEntry(m, i)
    PROVE  Sound(r) /\ r.entry = [m.entry EXCEPT ![i] = None] /\ Held(r) = Held(m) \ {i}
<1> DEFINE s == m.entry[i].text
           b == m.block[s]
           mbs == Without(b.members, i)
           d == [refs |-> b.refs - 1, members |-> mbs]
<1>1. /\ i \in Ids /\ s \in Live(m) /\ s \in Strings /\ b \in BlockRecords
      /\ r \in Memories
      /\ r.lru = Without(m.lru, i)
      /\ r.entry = [m.entry EXCEPT ![i] = None]
      /\ r.entries = Minus(m.entries, 1)
      /\ b.refs > 1 => r.block = [m.block EXCEPT ![s] = d] /\ r.bytes = Minus(m.bytes, EntryBytes)
      /\ ~(b.refs > 1) => /\ r.block = [m.block EXCEPT ![s] = None]
                          /\ r.bytes = Minus(Minus(m.bytes, EntryBytes), BlockBytes[s[1]])
  BY RemoveFields
<1>2. m \in Memories /\ ListOK(m) /\ CountOK(m) /\ BlockOK(m)
  BY DEF Sound
<1>3. m.block \in [Strings -> BlockRecords \cup {None}] /\ m.entry \in [Ids -> EntryRecords \cup {None}]
  BY <1>2 DEF Memories
<1>4. /\ b.refs = Len(b.members) /\ b.refs > 0 /\ IsInjective(b.members) /\ b.members \in Seq(Ids)
      /\ Range(b.members) = Users(m, s) /\ i \in Users(m, s)
  BY <1>1, <1>2 DEF BlockOK, Users, BlockRecords
<1>5. mbs \in Seq(Ids) /\ Len(mbs) = b.refs - 1 /\ IsInjective(mbs) /\ Range(mbs) = Users(m, s) \ {i}
  <2>1. b.members \in Seq(Ids) /\ IsInjective(b.members) /\ i \in Range(b.members)
    BY <1>4
  <2>2. PICK q : q = b.members
    OBVIOUS
  <2>3. /\ Without(q, i) \in Seq(Ids) /\ Len(Without(q, i)) = Len(q) - 1
        /\ Range(Without(q, i)) = Range(q) \ {i} /\ IsInjective(Without(q, i))
    BY <2>1, <2>2, WithoutFacts
  <2> HIDE DEF b, s
  <2> QED
    BY <1>4, <2>2, <2>3
<1>6. d.refs = b.refs - 1 /\ d.members = mbs /\ (b.refs > 1 => d \in BlockRecords)
  <2>1. b \in BlockRecords /\ mbs \in Seq(Ids)
    BY <1>1, <1>5
  <2> HIDE DEF b, mbs
  <2>2. b.refs \in Nat
    BY <2>1 DEF BlockRecords
  <2> QED
    BY <2>1, <2>2 DEF BlockRecords
<1> HIDE DEF mbs, d, b, s
<1>7. Held(r) = Held(m) \ {i}
  BY <1>1, <1>3 DEF Held
<1>8. \A j \in Held(r) : r.entry[j] = m.entry[j]
  BY <1>1, <1>3, <1>7 DEF Held
<1>9. \A u : Users(r, u) = Users(m, u) \ {i}
  BY <1>7, <1>8 DEF Users
<1>10. Live(r) = IF b.refs > 1 THEN Live(m) ELSE Live(m) \ {s}
  <2>1. CASE b.refs > 1
    BY <1>1, <1>3, <1>6, <2>1, NoneAssumption DEF Live
  <2>2. CASE ~(b.refs > 1)
    BY <1>1, <1>3, <2>2 DEF Live
  <2> QED
    BY <2>1, <2>2
<1>11. \A u \in Live(r) : u # s => u \in Live(m) /\ r.block[u] = m.block[u]
  BY <1>1, <1>3, <1>10 DEF Live
<1>12. \A j \in Held(m) : m.entry[j].text = s <=> j \in Users(m, s)
  BY DEF Users
<1>13. ListOK(r)
  <2>1. m.lru \in Seq(Ids) /\ IsInjective(m.lru) /\ Range(m.lru) = Held(m)
    BY <1>2 DEF ListOK, Memories
  <2> QED
    BY <1>1, <1>7, <2>1, WithoutFacts DEF ListOK
<1>14. BlockOK(r)
  <2>1. ASSUME NEW u \in Live(r)
        PROVE  /\ r.block[u].refs = Len(r.block[u].members) /\ r.block[u].refs > 0
               /\ IsInjective(r.block[u].members)
               /\ Range(r.block[u].members) = Users(r, u)
    <3>1. CASE u = s
      <4>1. b.refs > 1 /\ r.block[u] = d
        BY <1>1, <1>3, <1>10, <2>1, <3>1
      <4>2. d.refs > 0 /\ d.refs = Len(mbs)
        BY <1>1, <1>4, <1>5, <1>6, <4>1 DEF BlockRecords
      <4> QED
        BY <1>5, <1>6, <1>9, <3>1, <4>1, <4>2
    <3>2. CASE u # s
      <4>1. i \notin Users(m, u)
        BY <3>2 DEF Users, s
      <4>2. Users(r, u) = Users(m, u)
        BY <1>9, <4>1
      <4> QED
        BY <1>2, <1>11, <3>2, <4>2 DEF BlockOK
    <3> QED
      BY <3>1, <3>2
  <2>2. ASSUME NEW j \in Held(r) PROVE r.entry[j].text \in Live(r)
    <3>1. j \in Held(m) /\ j # i /\ r.entry[j] = m.entry[j] /\ m.entry[j].text \in Live(m)
      BY <1>2, <1>7, <1>8 DEF BlockOK
    <3>2. ASSUME ~(b.refs > 1) PROVE m.entry[j].text # s
      <4>0. b.refs \in Nat /\ b.refs = 1
        <5>1. b.refs \in Nat
          BY <1>1 DEF BlockRecords
        <5>2. b.refs > 0
          BY <1>4
        <5> QED
          BY <3>2, <5>1, <5>2
      <4>1. Len(mbs) = 0
        BY <1>5, <4>0
      <4>2. Range(mbs) = {}
        BY <1>5, <4>1 DEF Range
      <4>3. j \notin Users(m, s)
        BY <1>5, <3>1, <4>2
      <4> QED
        BY <1>12, <3>1, <4>3
    <3> QED
      BY <1>10, <3>1, <3>2
  <2> QED
    BY <2>1, <2>2 DEF BlockOK
<1>15. CountOK(r)
  <2> DEFINE h == Cardinality(Held(r))
             w == SumFunctionOnSet(Weight, Live(r))
             v == BlockBytes[s[1]]
             e == EntryBytes
  <2>1. h \in Nat /\ Cardinality(Held(m)) = h + 1
    <3>1. IsFiniteSet(Held(m)) /\ Cardinality(Held(m)) \in Nat /\ h \in Nat
      BY HeldFinite
    <3>2. h = Cardinality(Held(m)) - 1
      BY <1>7, <3>1, FS_RemoveElement
    <3> QED
      BY <3>1, <3>2
  <2>2. w \in Nat
    BY <1>1, <1>14, LiveCounts
  <2>3. v \in Nat /\ e \in Nat
    BY <1>1, StringType, LimitAssumption
  <2>4. SumFunctionOnSet(Weight, Live(m)) = IF b.refs > 1 THEN w ELSE v + w
    <3>1. CASE ~(b.refs > 1)
      <4>1. Counts(Live(m), Weight)
        BY <1>2, LiveCounts
      <4>2. SumFunctionOnSet(Weight, Live(m)) = Weight[s] + SumFunctionOnSet(Weight, Live(m) \ {s})
        BY <1>1, <4>1, SumRemove
      <4> QED
        BY <1>1, <1>10, <3>1, <4>2, StringType
    <3> QED
      BY <1>10, <3>1
  <2>5. m.entries = h + 1 /\ m.bytes = e * (h + 1) + (IF b.refs > 1 THEN w ELSE v + w)
    BY <1>2, <2>1, <2>4 DEF CountOK
  <2>6. r.entries = Minus(h + 1, 1)
    BY <1>1, <2>5
  <2>7. r.bytes = IF b.refs > 1 THEN Minus(e * (h + 1) + w, e) ELSE Minus(Minus(e * (h + 1) + (v + w), e), v)
    BY <1>1, <2>5
  <2> HIDE DEF h, w, v, e
  <2>8. e * (h + 1) = e * h + e /\ e * h \in Nat
    BY <2>1, <2>3
  <2>9. \A x, y \in Nat : Minus(x + y, y) = x
    BY DEF Minus
  <2>10. Minus(h + 1, 1) = h
    BY <2>1, <2>9
  <2>11. Minus(e * (h + 1) + w, e) = e * h + w
    <3>1. e * (h + 1) + w = (e * h + w) + e /\ e * h + w \in Nat
      BY <2>2, <2>3, <2>8
    <3> QED
      BY <2>3, <2>9, <3>1
  <2>12. Minus(Minus(e * (h + 1) + (v + w), e), v) = e * h + w
    <3>1. /\ e * (h + 1) + (v + w) = ((e * h + w) + v) + e
          /\ e * h + w \in Nat /\ (e * h + w) + v \in Nat
      BY <2>2, <2>3, <2>8
    <3> QED
      BY <2>3, <2>9, <3>1
  <2>13. r.entries = h /\ r.bytes = e * h + w
    BY <2>6, <2>7, <2>10, <2>11, <2>12
  <2> QED
    BY <2>13 DEF CountOK, h, w, e
<1> QED
  BY <1>1, <1>7, <1>13, <1>14, <1>15 DEF Sound

(* What tool_memory_get_block_locked does to each field.                   *)
Got(m, s, g) ==
    /\ g \in Memories
    /\ g.lru = m.lru /\ g.entry = m.entry /\ g.entries = m.entries
    /\ m.block[s] # None => g.block = m.block /\ g.bytes = m.bytes
    /\ m.block[s] = None =>
         /\ g.block = [m.block EXCEPT ![s] = [refs |-> 0, members |-> <<>>]]
         /\ g.bytes = m.bytes + BlockBytes[s[1]]
    /\ g.block[s] \in BlockRecords

LEMMA GetFields ==
    ASSUME NEW m \in Memories, NEW s \in Strings
    PROVE  Got(m, s, GetBlock(m, s))
<1>g. PICK g : g = GetBlock(m, s)
  OBVIOUS
<1>1. CASE m.block[s] # None
  BY <1>g, <1>1 DEF Got, GetBlock, Memories
<1>2. CASE m.block[s] = None
  <2> DEFINE new == [refs |-> 0, members |-> <<>>]
             x == m.bytes + BlockBytes[s[1]]
  <2>1. new \in BlockRecords
    BY DEF BlockRecords
  <2>2. x \in Nat
    BY StringType DEF Memories
  <2>3. g = [m EXCEPT !.block[s] = new, !.bytes = x]
    BY <1>g, <1>2 DEF GetBlock, Memories
  <2> HIDE DEF new, x
  <2>4. g.lru = m.lru /\ g.entry = m.entry /\ g.entries = m.entries /\ g.bytes = x
    BY <2>3 DEF Memories
  <2>5. g.block = [m.block EXCEPT ![s] = new]
    BY <2>3 DEF Memories
  <2>6. g = [lru |-> g.lru, entry |-> g.entry, block |-> g.block, bytes |-> g.bytes, entries |-> g.entries]
    BY <2>3 DEF Memories
  <2>7. g.block \in [Strings -> BlockRecords \cup {None}] /\ g.block[s] = new
    BY <2>1, <2>5 DEF Memories
  <2>8. g \in Memories
    BY <2>2, <2>4, <2>6, <2>7 DEF Memories
  <2> QED
    BY <1>g, <1>2, <2>1, <2>4, <2>5, <2>7, <2>8 DEF Got, new, x
<1> QED
  BY <1>1, <1>2

(* What the rest of tool_memory_put_locked does to each field, given the   *)
(* block b of the text.                                                    *)
Added(m, i, s, src, g, b, r) ==
    /\ b \in BlockRecords /\ r \in Memories
    /\ r.lru = <<i>> \o m.lru
    /\ r.entry = [m.entry EXCEPT ![i] = [text |-> s, source |-> src]]
    /\ r.entries = m.entries + 1
    /\ r.block = [g.block EXCEPT ![s] = [refs |-> b.refs + 1, members |-> <<i>> \o b.members]]
    /\ r.bytes = g.bytes + EntryBytes

LEMMA AddFields ==
    ASSUME NEW m \in Memories, NEW i \in Ids, NEW s \in Strings, NEW src \in Sources,
           NEW p, p.id = i, p.text = s, p.source = src
    PROVE  Added(m, i, s, src, GetBlock(m, s), GetBlock(m, s).block[s], AddEntry(m, p))
<1>g. PICK g : g = GetBlock(m, s)
  OBVIOUS
<1>b. PICK b : b = g.block[s]
  OBVIOUS
<1>r. PICK r : r = AddEntry(m, p)
  OBVIOUS
<1>2. g \in Memories /\ b \in BlockRecords /\ g.lru = m.lru /\ g.entry = m.entry /\ g.entries = m.entries
  <2>1. Got(m, s, g)
    BY <1>g, GetFields
  <2> QED
    BY <1>b, <2>1 DEF Got
<1> DEFINE d == [refs |-> b.refs + 1, members |-> <<i>> \o b.members]
           e == [text |-> s, source |-> src]
           lru == <<i>> \o m.lru
           x == g.bytes + EntryBytes
           y == m.entries + 1
<1>3. e \in EntryRecords
  BY DEF EntryRecords
<1>4. lru \in Seq(Ids) /\ <<i>> \o b.members \in Seq(Ids)
  <2>1. m.lru \in Seq(Ids) /\ b.members \in Seq(Ids)
    BY <1>2 DEF Memories, BlockRecords
  <2> QED
    BY <2>1, ConsFacts
<1>5. x \in Nat /\ y \in Nat
  BY <1>2, LimitAssumption DEF Memories
<1>6. d \in BlockRecords
  BY <1>2, <1>4 DEF BlockRecords
<1>7. r = [g EXCEPT !.block[s] = [refs |-> @.refs + 1, members |-> <<i>> \o @.members], !.entry[i] = e,
                    !.lru = <<i>> \o @, !.entries = @ + 1, !.bytes = @ + EntryBytes]
  BY <1>g, <1>r DEF AddEntry
<1>8. r.lru = lru /\ r.entries = y /\ r.bytes = x
  BY <1>2, <1>7 DEF Memories
<1> HIDE DEF e, lru, x, y
<1>9. r.entry = [m.entry EXCEPT ![i] = e]
  BY <1>2, <1>7 DEF Memories
<1>10. r.block = [g.block EXCEPT ![s] = [refs |-> @.refs + 1, members |-> <<i>> \o @.members]]
  BY <1>2, <1>7 DEF Memories
<1>11. g.block \in [Strings -> BlockRecords \cup {None}] /\ m.entry \in [Ids -> EntryRecords \cup {None}]
  BY <1>2 DEF Memories
<1>12. r.block = [g.block EXCEPT ![s] = d]
  BY <1>b, <1>10, <1>11
<1> HIDE DEF d
<1>13. r = [lru |-> r.lru, entry |-> r.entry, block |-> r.block, bytes |-> r.bytes, entries |-> r.entries]
  BY <1>2, <1>7 DEF Memories
<1>14. r.block \in [Strings -> BlockRecords \cup {None}] /\ r.entry \in [Ids -> EntryRecords \cup {None}]
  BY <1>3, <1>6, <1>9, <1>11, <1>12
<1>15. r \in Memories
  BY <1>4, <1>5, <1>8, <1>13, <1>14 DEF Memories
<1>16. Added(m, i, s, src, g, b, r)
  BY <1>2, <1>8, <1>9, <1>12, <1>15 DEF Added, lru, y, e, d, x
<1> QED
  BY <1>g, <1>b, <1>r, <1>16

(* The rest of tool_memory_put_locked, for an id that is not in memory.    *)
LEMMA AddSound ==
    ASSUME NEW m, Sound(m), NEW p \in Puts, p.id \notin Held(m), NEW r, r = AddEntry(m, p)
    PROVE  Sound(r) /\ r.entry = [m.entry EXCEPT ![p.id] = [text |-> p.text, source |-> p.source]]
<1>0. m \in Memories /\ ListOK(m) /\ CountOK(m) /\ BlockOK(m)
  BY DEF Sound
<1>1. PICK i \in Ids, s \in Strings, src \in Sources : p.id = i /\ p.text = s /\ p.source = src
  BY DEF Puts
<1> DEFINE g == GetBlock(m, s)
           b == g.block[s]
           e == [text |-> s, source |-> src]
           mbs == <<i>> \o b.members
           d == [refs |-> b.refs + 1, members |-> mbs]
<1>2. /\ g.bytes = IF m.block[s] # None THEN m.bytes ELSE m.bytes + BlockBytes[s[1]]
      /\ m.block[s] # None => g.block = m.block
      /\ m.block[s] = None => g.block = [m.block EXCEPT ![s] = [refs |-> 0, members |-> <<>>]]
  <2>1. Got(m, s, g)
    BY <1>0, GetFields
  <2> HIDE DEF g
  <2> QED
    BY <2>1 DEF Got
<1>3. /\ b \in BlockRecords /\ r \in Memories
      /\ r.lru = <<i>> \o m.lru
      /\ r.entry = [m.entry EXCEPT ![i] = e]
      /\ r.entries = m.entries + 1
      /\ r.block = [g.block EXCEPT ![s] = d]
      /\ r.bytes = g.bytes + EntryBytes
  <2>1. Added(m, i, s, src, g, b, r)
    BY <1>0, <1>1, AddFields
  <2> HIDE DEF g, b
  <2> QED
    BY <2>1 DEF Added
<1>4. m.block \in [Strings -> BlockRecords \cup {None}] /\ m.entry \in [Ids -> EntryRecords \cup {None}]
  BY <1>0 DEF Memories
<1>5. e \in EntryRecords /\ e # None /\ e.text = s
  <2>1. e \in EntryRecords /\ e.text = s
    BY DEF EntryRecords
  <2> QED
    BY <2>1, NoneAssumption
<1>6. i \notin Held(m)
  BY <1>1
<1>7. Range(b.members) = Users(m, s) /\ IsInjective(b.members) /\ b.members \in Seq(Ids) /\ b.refs = Len(b.members)
  <2>1. b.members \in Seq(Ids)
    BY <1>3 DEF BlockRecords
  <2>2. CASE m.block[s] # None
    <3>1. s \in Live(m) /\ b = m.block[s]
      BY <1>2, <2>2 DEF Live
    <3> HIDE DEF b
    <3> QED
      BY <1>0, <2>1, <3>1 DEF BlockOK
  <2>3. CASE m.block[s] = None
    <3>1. b.members = <<>> /\ b.refs = 0
      BY <1>2, <1>4, <2>3
    <3>2. s \notin Live(m) /\ Users(m, s) = {}
      BY <1>0, <2>3 DEF Live, BlockOK, Users
    <3> HIDE DEF b
    <3> QED
      BY <3>1, <3>2 DEF Range, IsInjective
  <2> QED
    BY <2>2, <2>3
<1>8. mbs \in Seq(Ids) /\ Len(mbs) = b.refs + 1 /\ Range(mbs) = Users(m, s) \cup {i} /\ IsInjective(mbs)
  <2>1. i \notin Users(m, s)
    BY <1>6 DEF Users
  <2> HIDE DEF b, g
  <2> QED
    BY <1>7, <2>1, ConsFacts
<1>9. d \in BlockRecords /\ d # None /\ d.refs = b.refs + 1 /\ d.members = mbs /\ d.refs > 0
  <2>1. b.refs \in Nat
    BY <1>3 DEF BlockRecords
  <2> HIDE DEF b, g, mbs
  <2>2. d \in BlockRecords /\ d.refs = b.refs + 1 /\ d.members = mbs /\ d.refs > 0
    BY <1>8, <2>1 DEF BlockRecords
  <2> QED
    BY <2>2, NoneAssumption
<1>10. \A u \in Strings : r.block[u] = IF u = s THEN d ELSE m.block[u]
  <2> HIDE DEF d
  <2> QED
    BY <1>2, <1>3, <1>4
<1> HIDE DEF e, d, mbs, b, g
<1>11. \A j \in Ids : r.entry[j] = IF j = i THEN e ELSE m.entry[j]
  BY <1>3, <1>4
<1>12. Held(r) = Held(m) \cup {i}
  BY <1>5, <1>11 DEF Held
<1>13. \A u : Users(r, u) = IF u = s THEN Users(m, u) \cup {i} ELSE Users(m, u)
  <2>1. \A j \in Held(m) : j # i /\ j \in Ids
    BY <1>6 DEF Held
  <2> QED
    BY <1>5, <1>11, <1>12, <2>1 DEF Users
<1>14. Live(r) = Live(m) \cup {s}
  BY <1>9, <1>10 DEF Live
<1>15. ListOK(r)
  <2>1. m.lru \in Seq(Ids) /\ IsInjective(m.lru) /\ Range(m.lru) = Held(m)
    BY <1>0 DEF ListOK, Memories
  <2>2. /\ Range(<<i>> \o m.lru) = Range(m.lru) \cup {i}
        /\ IsInjective(m.lru) /\ i \notin Range(m.lru) => IsInjective(<<i>> \o m.lru)
    BY <2>1, ConsFacts
  <2>3. Range(r.lru) = Held(r) /\ IsInjective(r.lru)
    BY <1>3, <1>6, <1>12, <2>1, <2>2
  <2> QED
    BY <2>3 DEF ListOK
<1>16. BlockOK(r)
  <2>1. ASSUME NEW u \in Live(r)
        PROVE  /\ r.block[u].refs = Len(r.block[u].members) /\ r.block[u].refs > 0
               /\ IsInjective(r.block[u].members)
               /\ Range(r.block[u].members) = Users(r, u)
    <3>1. CASE u = s
      <4>1. r.block[u] = d
        BY <1>10, <3>1
      <4> QED
        BY <1>8, <1>9, <1>13, <3>1, <4>1
    <3>2. CASE u # s
      <4>1. u \in Live(m) /\ r.block[u] = m.block[u] /\ Users(r, u) = Users(m, u)
        BY <1>10, <1>13, <1>14, <3>2 DEF Live
      <4> QED
        BY <1>0, <4>1 DEF BlockOK
    <3> QED
      BY <3>1, <3>2
  <2>2. ASSUME NEW j \in Held(r) PROVE r.entry[j].text \in Live(r)
    BY <1>0, <1>5, <1>11, <1>12, <1>14 DEF BlockOK, Held
  <2> QED
    BY <2>1, <2>2 DEF BlockOK
<1>17. CountOK(r)
  <2> DEFINE h == Cardinality(Held(m))
             w == SumFunctionOnSet(Weight, Live(m))
             v == BlockBytes[s[1]]
             x == EntryBytes
  <2>1. h \in Nat /\ Cardinality(Held(r)) = h + 1
    <3>1. IsFiniteSet(Held(m)) /\ h \in Nat
      BY HeldFinite
    <3> QED
      BY <1>6, <1>12, <3>1, FS_AddElement
  <2>2. w \in Nat
    BY <1>0, LiveCounts
  <2>3. v \in Nat /\ x \in Nat
    BY StringType, LimitAssumption
  <2>4. SumFunctionOnSet(Weight, Live(r)) = IF m.block[s] # None THEN w ELSE v + w
    <3>1. CASE m.block[s] # None
      <4>1. Live(r) = Live(m)
        BY <1>14, <3>1 DEF Live
      <4> QED
        BY <3>1, <4>1
    <3>2. CASE m.block[s] = None
      <4>1. s \notin Live(m)
        BY <3>2 DEF Live
      <4>2. Counts(Live(m) \cup {s}, Weight)
        BY <1>3, <1>14, <1>16, LiveCounts
      <4>3. SumFunctionOnSet(Weight, Live(m) \cup {s}) = Weight[s] + w
        BY <4>1, <4>2, SumAdd
      <4> QED
        BY <1>14, <3>2, <4>3, StringType
    <3> QED
      BY <3>1, <3>2
  <2>5. m.entries = h /\ m.bytes = x * h + w
    BY <1>0 DEF CountOK
  <2>6. r.entries = h + 1 /\ r.bytes = (IF m.block[s] # None THEN x * h + w ELSE x * h + w + v) + x
    BY <1>2, <1>3, <2>5 DEF g
  <2> HIDE DEF h, w, v, x
  <2>7. x * (h + 1) = x * h + x /\ x * h \in Nat
    BY <2>1, <2>3
  <2>8. r.bytes = x * (h + 1) + (IF m.block[s] # None THEN w ELSE v + w)
    BY <2>2, <2>3, <2>6, <2>7
  <2> QED
    BY <2>1, <2>4, <2>6, <2>8 DEF CountOK, x
<1> QED
  BY <1>1, <1>3, <1>15, <1>16, <1>17 DEF Sound, e

(* tool_memory_put_locked before its prune: an entry of that id and text   *)
(* is in memory, every other entry is as it was, and the memory is sound.  *)
LEMMA PutSound ==
    ASSUME NEW m, Sound(m), NEW p \in Puts, NEW r, r = PutEntry(m, p)
    PROVE  /\ Sound(r)
           /\ p.id \in Held(r) /\ r.entry[p.id].text = p.text
           /\ \A j \in Ids : j # p.id => r.entry[j] = m.entry[j]
<1>0. m \in Memories /\ ListOK(m) /\ CountOK(m) /\ BlockOK(m)
  BY DEF Sound
<1>1. PICK i \in Ids, s \in Strings, src \in Sources : p.id = i /\ p.text = s /\ p.source = src
  BY DEF Puts
<1>2. m.entry \in [Ids -> EntryRecords \cup {None}]
  BY <1>0 DEF Memories
<1> DEFINE e == [text |-> s, source |-> src]
<1>3. e # None /\ e.text = s
  <2>1. e \in EntryRecords /\ e.text = s
    BY DEF EntryRecords
  <2> QED
    BY <2>1, NoneAssumption
<1> HIDE DEF e
<1>4. CASE m.entry[i] = None
  <2>1. r = AddEntry(m, p) /\ p.id \notin Held(m)
    BY <1>1, <1>4 DEF PutEntry, Held
  <2>2. Sound(r) /\ r.entry = [m.entry EXCEPT ![i] = e]
    BY <1>1, <2>1, AddSound DEF e
  <2> QED
    BY <1>1, <1>2, <1>3, <2>2 DEF Held
<1>5. CASE m.entry[i] # None /\ m.entry[i].text = s
  <2> DEFINE c == IF src = "ram" THEN "ram" ELSE m.entry[i].source
             n == [m EXCEPT !.entry[i].source = c]
             a == [m.entry[i] EXCEPT !.source = c]
  <2>1. r = Touch(n, i)
    BY <1>0, <1>1, <1>5 DEF PutEntry, Memories
  <2>2. a \in EntryRecords /\ a.text = s /\ a # None
    <3>1. m.entry[i] \in EntryRecords
      BY <1>2, <1>5
    <3>2. c \in Sources
      BY <3>1 DEF EntryRecords, Sources
    <3> HIDE DEF c
    <3>3. a \in EntryRecords /\ a.text = s
      BY <1>5, <3>1, <3>2 DEF EntryRecords
    <3> QED
      BY <3>3, NoneAssumption
  <2> HIDE DEF c
  <2>3. n.entry = [m.entry EXCEPT ![i] = a]
    <3>1. n.entry = [m.entry EXCEPT ![i].source = c]
      BY <1>0 DEF Memories
    <3> QED
      BY <1>2, <3>1
  <2>4. n.lru = m.lru /\ n.block = m.block /\ n.bytes = m.bytes /\ n.entries = m.entries
    BY <1>0 DEF Memories
  <2>5. n = [lru |-> n.lru, entry |-> n.entry, block |-> n.block, bytes |-> n.bytes, entries |-> n.entries]
    BY <1>0, SMTT(40) DEF Memories
  <2> HIDE DEF n, a
  <2>6. n.entry \in [Ids -> EntryRecords \cup {None}] /\ \A j \in Ids : n.entry[j] = IF j = i THEN a ELSE m.entry[j]
    BY <1>2, <2>2, <2>3
  <2>7. n \in Memories
    BY <1>0, <2>4, <2>5, <2>6 DEF Memories
  <2>8. Held(n) = Held(m) /\ Live(n) = Live(m) /\ \A u : Users(n, u) = Users(m, u)
    BY <1>5, <2>2, <2>4, <2>6 DEF Held, Live, Users
  <2>9. ListOK(n) /\ CountOK(n)
    BY <1>0, <2>4, <2>8 DEF ListOK, CountOK
  <2>10. BlockOK(n)
    <3>1. \A j \in Held(n) : n.entry[j].text \in Live(n)
      BY <1>0, <1>5, <2>2, <2>6, <2>8 DEF BlockOK, Held
    <3>2. \A u \in Live(n) :
            /\ n.block[u].refs = Len(n.block[u].members) /\ n.block[u].refs > 0
            /\ IsInjective(n.block[u].members)
            /\ Range(n.block[u].members) = Users(n, u)
      BY <1>0, <2>4, <2>8 DEF BlockOK
    <3> QED
      BY <3>1, <3>2 DEF BlockOK
  <2>11. Sound(n) /\ i \in Held(n)
    BY <1>5, <2>7, <2>8, <2>9, <2>10 DEF Sound, Held
  <2>12. Sound(r) /\ r.entry = n.entry
    BY <2>1, <2>11, TouchSound
  <2> QED
    BY <1>1, <2>2, <2>6, <2>12 DEF Held
<1>6. CASE m.entry[i] # None /\ m.entry[i].text # s
  <2> DEFINE n == RemoveEntry(m, i)
  <2>1. r = AddEntry(n, p) /\ i \in Held(m)
    BY <1>1, <1>6 DEF PutEntry, Held
  <2>2. Sound(n) /\ n.entry = [m.entry EXCEPT ![i] = None] /\ Held(n) = Held(m) \ {i}
    BY <2>1, RemoveSound
  <2> HIDE DEF n
  <2>3. Sound(r) /\ r.entry = [n.entry EXCEPT ![i] = e]
    <3>1. p.id \notin Held(n)
      BY <1>1, <2>2
    <3>2. Sound(r) /\ r.entry = [n.entry EXCEPT ![p.id] = [text |-> p.text, source |-> p.source]]
      BY <2>1, <2>2, <3>1, AddSound
    <3> QED
      BY <1>1, <3>2 DEF e
  <2> QED
    BY <1>1, <1>2, <1>3, <2>2, <2>3 DEF Held
<1> QED
  BY <1>4, <1>5, <1>6

-----------------------------------------------------------------------------
(* The inductive invariant.                                                *)

(* A text that may be replayed for an id: the one it was issued with or,   *)
(* where a file can be read in two reads, one that begins like it.         *)
Faithful(i, s) ==
    /\ issued[i] # None
    /\ IF tears THEN s[1] = issued[i][1] ELSE s = issued[i]

Pairs == {e \in [id : Ids, text : Strings] : Faithful(e.id, e.text)}
FaithfulPuts == {p \in Puts : Faithful(p.id, p.text)}

(* Wherever an entry travels, it stands for what its id was issued with:   *)
(* in memory, on its way to a put, in a file and in a reader's buffer.     *)
TextInv ==
    /\ \A i \in Held(mem) : Faithful(i, mem.entry[i].text)
    /\ \A t \in Threads : puts[t] \in Seq(FaithfulPuts)
    /\ \A f \in Files : disk[f] # None => disk[f].map \in Seq(Pairs)
    /\ \A c \in Clients : buf[c].map \in Seq(Pairs)

(* A reader in the middle of a file, a toucher and a worker refer to files *)
(* that are there.                                                         *)
FileInv ==
    /\ \A c \in Clients : buf[c].file # None =>
         tears /\ disk[buf[c].file] # None /\ buf[c].cut \in 1 .. Len(buf[c].map)
    /\ touch # None => disk[touch.file] # None
    /\ \A w \in Workers : pc[w] \in {"create", "truncate", "rewrite", "flag"} => file[w] \in Files

(* The memory is pruned or looked at under tool_mu, and it is over its     *)
(* limits only while it is pruned.                                         *)
LockInv ==
    /\ \A t \in Threads : pc[t] \in {"prune_ram", "prune_disk", "attach"} => mu = t
    /\ mem.entries > MaxEntries \/ mem.bytes > MaxBytes =>
         \E t \in Threads : mu = t /\ pc[t] \in {"prune_ram", "prune_disk"}

(* What tool_memory_attach_to_messages has found out of the ids that it    *)
(* has looked up.                                                          *)
LookInv ==
    \A c \in Clients :
        /\ pc[c] # "idle" => message[c] # {}
        /\ pc[c] # "attach" =>
             message[c] \subseteq Range(calls[c]) /\ matched[c] = None /\ exact[c] = TRUE
        /\ pc[c] = "attach" /\ exact[c] =>
             \A i \in message[c] \ Range(calls[c]) :
                i \in Held(mem) /\ mem.entry[i].text = matched[c]

IInv == TypeOK /\ Sound(mem) /\ TextInv /\ FileInv /\ LockInv /\ LookInv

-----------------------------------------------------------------------------
(* What is read from the memory and from files stays faithful.             *)

LEMMA TrailerFaithful ==
    ASSUME IInv, NEW f \in Files
    PROVE  Trailer(mem, f) \in Seq(Pairs)
<1>0. mem \in Memories /\ BlockOK(mem)
  BY DEF IInv, Sound
<1>1. ASSUME NEW s \in Strings PROVE Entries(mem, s) \in Seq(Pairs)
  <2>1. CASE mem.block[s] = None
    BY <2>1 DEF Entries
  <2>2. CASE mem.block[s] # None
    <3> DEFINE l == mem.block[s].members
    <3>1. mem.block[s] \in BlockRecords /\ s \in Live(mem)
      BY <1>0, <2>2 DEF Memories, Live
    <3>2. l \in Seq(Ids) /\ Range(l) = Users(mem, s)
      BY <1>0, <3>1 DEF BlockRecords, BlockOK
    <3>3. ASSUME NEW k \in 1 .. Len(l) PROVE [id |-> l[k], text |-> s] \in Pairs
      <4>1. l[k] \in Ids /\ l[k] \in Users(mem, s)
        BY <3>2 DEF Range
      <4>2. Faithful(l[k], s)
        BY <4>1 DEF IInv, TextInv, Users
      <4> HIDE DEF l
      <4> QED
        BY <4>1, <4>2 DEF Pairs
    <3>4. Entries(mem, s) = [k \in 1 .. Len(l) |-> [id |-> l[k], text |-> s]]
      BY <2>2 DEF Entries
    <3>5. Len(l) \in Nat
      BY <3>2
    <3> HIDE DEF l
    <3> QED
      BY <3>3, <3>4, <3>5
  <2> QED
    BY <2>1, <2>2
<1> DEFINE n == Len(Content[f])
           ss == [k \in 1 .. n |->
                    IF \E j \in 1 .. (k - 1) : Content[f][j] = Content[f][k] THEN <<>>
                    ELSE Entries(mem, Whole(Content[f][k]))]
<1>2. n \in Nat /\ \A k \in 1 .. n : Whole(Content[f][k]) \in Strings
  BY TextAssumption DEF Whole, Strings
<1>3. \A k \in 1 .. n : ss[k] \in Seq(Pairs)
  <2> HIDE DEF n
  <2> QED
    BY <1>1, <1>2
<1>4. ss \in Seq(Seq(Pairs))
  <2>1. ss = [k \in 1 .. n |-> ss[k]]
    OBVIOUS
  <2> HIDE DEF n, ss
  <2> QED
    BY <1>2, <1>3, <2>1
<1>5. Trailer(mem, f) = SeqExt!FlattenSeq(ss)
  BY DEF Trailer
<1> HIDE DEF ss
<1> QED
  BY <1>4, <1>5, FlattenIn

LEMMA PairsTyped ==
    /\ \A s \in Seq(Pairs) : s \in Seq([id : Ids, text : Strings])
    /\ \A s \in Seq(FaithfulPuts) : s \in Seq(Puts)
<1>1. Pairs \subseteq [id : Ids, text : Strings] /\ FaithfulPuts \subseteq Puts
  BY DEF Pairs, FaithfulPuts
<1> QED
  BY <1>1, SeqMono

LEMMA LoadableFaithful ==
    ASSUME NEW map \in Seq(Pairs)
    PROVE  Loadable(map) \in Seq(Pairs)
BY DEF Loadable

LEMMA PutsFaithful ==
    ASSUME NEW map \in Seq(Pairs), NEW wanted
    PROVE  PutsOf(map, wanted) \in Seq(FaithfulPuts)
<1> DEFINE n == Len(map)
           put(k) == [id |-> map[k].id, text |-> map[k].text, source |-> "disk"]
           ss == [k \in 1 .. n |-> IF map[k].id \notin wanted THEN <<>> ELSE <<put(k)>>]
<1>1. ASSUME NEW k \in 1 .. n PROVE put(k) \in FaithfulPuts
  <2>1. map[k] \in Pairs
    OBVIOUS
  <2>2. map[k].id \in Ids /\ map[k].text \in Strings /\ Faithful(map[k].id, map[k].text)
    BY <2>1 DEF Pairs
  <2> QED
    BY <2>2 DEF FaithfulPuts, Puts, Sources
<1>2. n \in Nat
  OBVIOUS
<1> HIDE DEF n, put
<1>3. \A k \in 1 .. n : ss[k] \in Seq(FaithfulPuts)
  BY <1>1
<1>4. ss \in Seq(Seq(FaithfulPuts))
  <2>1. ss = [k \in 1 .. n |-> ss[k]]
    OBVIOUS
  <2> HIDE DEF ss
  <2> QED
    BY <1>2, <1>3, <2>1
<1>5. PutsOf(map, wanted) = SeqExt!FlattenSeq(ss)
  BY DEF PutsOf, n, put
<1> HIDE DEF ss
<1> QED
  BY <1>4, <1>5, FlattenIn

(* A file that is read in two reads gives entries that begin like what     *)
(* their ids were issued with.                                             *)
LEMMA SecondReadFaithful ==
    ASSUME tears, NEW old \in Seq(Pairs), NEW new \in Seq(Pairs), NEW cut \in 1 .. Len(old)
    PROVE  SecondRead(old, new, cut) \in Seq(Pairs)
<1> DEFINE upto == IF Len(new) < Len(old) THEN Len(new) ELSE Len(old)
           n == IF upto < cut THEN cut - 1 ELSE upto
           rest(k) == IF k < cut THEN old[k]
                      ELSE IF k = cut THEN [old[k] EXCEPT !.text[2] = new[k].text[2]]
                      ELSE new[k]
<1>1. n \in Nat /\ \A k \in 1 .. n : k \in 1 .. Len(old) /\ (~(k < cut) => k \in 1 .. Len(new))
  OBVIOUS
<1>2. SecondRead(old, new, cut) = [k \in 1 .. n |-> rest(k)]
  BY DEF SecondRead
<1> HIDE DEF n
<1>3. ASSUME NEW k \in 1 .. n PROVE rest(k) \in Pairs
  <2>1. CASE k < cut
    BY <1>1, <2>1
  <2>2. CASE k = cut
    <3>1. old[k] \in Pairs /\ new[k] \in Pairs
      BY <1>1, <2>2
    <3>2. PICK i \in Ids, s \in Strings : old[k] = [id |-> i, text |-> s] /\ Faithful(i, s)
      BY <3>1 DEF Pairs
    <3>3. PICK c \in Texts : c = new[k].text[2]
      BY <3>1 DEF Pairs, Strings
    <3>4. PICK r : r = [s EXCEPT ![2] = c]
      OBVIOUS
    <3>5. r \in Strings /\ r[1] = s[1]
      BY <3>4 DEF Strings
    <3>6. rest(k) = [old[k] EXCEPT !.text = r]
      BY <1>1, <2>2, <3>2, <3>3, <3>4
    <3>7. rest(k) = [id |-> i, text |-> r]
      BY <3>2, <3>6
    <3>8. Faithful(i, r)
      BY <3>2, <3>5 DEF Faithful
    <3> HIDE DEF rest
    <3> QED
      BY <3>5, <3>7, <3>8 DEF Pairs
  <2>3. CASE k > cut
    BY <1>1, <2>3
  <2> QED
    BY <1>1, <2>1, <2>2, <2>3
<1> HIDE DEF rest
<1> QED
  BY <1>1, <1>2, <1>3

-----------------------------------------------------------------------------
(* What each action does to the memory.                                    *)

LEMMA PutEffect ==
    ASSUME IInv, NEW t \in Threads, Put(t)
    PROVE  /\ Sound(mem)'
           /\ \E p \in FaithfulPuts :
                /\ p = Head(puts[t])
                /\ p.id \in Held(mem)' /\ mem'.entry[p.id].text = p.text
                /\ \A j \in Ids : j # p.id => mem'.entry[j] = mem.entry[j]
           /\ Tail(puts[t]) \in Seq(FaithfulPuts)
<1>1. puts[t] \in Seq(FaithfulPuts) /\ puts[t] # <<>> /\ Sound(mem)
  BY DEF Put, IInv, TextInv
<1>2. Head(puts[t]) \in FaithfulPuts /\ Tail(puts[t]) \in Seq(FaithfulPuts)
  BY <1>1, HeadTailProperties
<1>3. PICK p \in FaithfulPuts : p = Head(puts[t])
  BY <1>2
<1>4. mem' = PutEntry(mem, p) /\ p \in Puts
  BY <1>3 DEF Put, FaithfulPuts
<1>5. /\ Sound(mem')
      /\ p.id \in Held(mem') /\ mem'.entry[p.id].text = p.text
      /\ \A j \in Ids : j # p.id => mem'.entry[j] = mem.entry[j]
  BY <1>1, <1>4, PutSound
<1> QED
  BY <1>2, <1>3, <1>5 DEF Sound, Held, Memories, ListOK, CountOK, BlockOK, Users, Live

LEMMA PruneEffect ==
    ASSUME IInv, NEW t \in Threads, Prune(t)
    PROVE  /\ Sound(mem)'
           /\ \E i \in Held(mem) : mem'.entry = [mem.entry EXCEPT ![i] = None]
<1>1. mem.lru \in Seq(Ids) /\ Range(mem.lru) = Held(mem) /\ mem.lru # <<>> /\ Sound(mem)
  BY DEF Prune, OverLimit, IInv, Sound, Memories, ListOK
<1>2. PICK i : i = mem.lru[Len(mem.lru)]
  OBVIOUS
<1>3. Len(mem.lru) \in DOMAIN mem.lru
  BY <1>1
<1>4. i \in Held(mem)
  BY <1>1, <1>2, <1>3 DEF Range
<1>5. mem' = RemoveEntry(mem, i)
  BY <1>2 DEF Prune
<1>6. Sound(mem') /\ mem'.entry = [mem.entry EXCEPT ![i] = None]
  BY <1>1, <1>4, <1>5, RemoveSound
<1> QED
  BY <1>4, <1>6 DEF Sound, Held, Memories, ListOK, CountOK, BlockOK, Users, Live

LEMMA LookupEffect ==
    ASSUME IInv, NEW c \in Clients, Lookup(c)
    PROVE  Sound(mem)' /\ mem'.entry = mem.entry /\ mem'.bytes = mem.bytes /\ mem'.entries = mem.entries
<1>1. PICK i : i = Head(calls[c])
  OBVIOUS
<1>2. Sound(mem) /\ calls[c] \in Seq(Ids) /\ calls[c] # <<>>
  BY DEF IInv, TypeOK, Lookup
<1>3. i \in Ids
  BY <1>1, <1>2, HeadTailProperties
<1>4. mem' = IF mem.entry[i] = None THEN mem ELSE Touch(mem, i)
  BY <1>1 DEF Lookup
<1>5. CASE mem.entry[i] = None
  <2>1. mem' = mem
    BY <1>4, <1>5
  <2> QED
    BY <1>2, <2>1 DEF Sound, Held, Memories, ListOK, CountOK, BlockOK, Users, Live
<1>6. CASE mem.entry[i] # None
  <2>1. i \in Held(mem) /\ mem' = Touch(mem, i)
    BY <1>3, <1>4, <1>6 DEF Held
  <2>2. Sound(mem') /\ mem'.entry = mem.entry /\ mem'.bytes = mem.bytes /\ mem'.entries = mem.entries
    BY <1>2, <2>1, TouchSound
  <2> QED
    BY <2>2 DEF Sound, Held, Memories, ListOK, CountOK, BlockOK, Users, Live
<1> QED
  BY <1>5, <1>6

-----------------------------------------------------------------------------
(* Every step keeps the invariant, part by part.                           *)

LEMMA SoundStep ==
    ASSUME IInv, [Next]_vars
    PROVE  Sound(mem)'
<1>0. ASSUME UNCHANGED mem PROVE Sound(mem)'
  BY <1>0 DEF IInv, Sound, Held, Memories, ListOK, CountOK, BlockOK, Users, Live
<1>1. CASE \E t \in Threads : Put(t)
  BY <1>1, PutEffect
<1>2. CASE \E t \in Threads : Prune(t)
  BY <1>2, PruneEffect
<1>3. CASE \E c \in Clients : Lookup(c)
  BY <1>3, LookupEffect
<1>4. CASE Restart
  <2>1. mem' = Empty
    BY <1>4 DEF Restart
  <2>2. Sound(mem')
    BY <2>1, EmptySound
  <2> QED
    BY <2>2 DEF Sound, Held, Memories, ListOK, CountOK, BlockOK, Users, Live
<1>5. CASE \E t \in Threads : PutLock(t) \/ PutDone(t)
  BY <1>0, <1>5 DEF PutLock, PutDone
<1>6. CASE \E w \in Workers :
             \/ \E ids \in CallLists, t \in Texts : Remember(w, ids, t)
             \/ \E f \in Files : StoreStart(w, f) \/ LoadCheckpoint(w, f)
             \/ Create(w) \/ Truncate(w) \/ Rewrite(w) \/ WriteFlag(w)
  BY <1>0, <1>6 DEF Remember, StoreStart, LoadCheckpoint, Create, Truncate, Rewrite, WriteFlag
<1>7. CASE \E c \in Clients :
             \/ \E ids \in CallLists : Parse(c, ids)
             \/ \E f \in Files : ReadFile(c, f)
             \/ ReadRest(c) \/ AttachLock(c) \/ AttachDone(c)
  BY <1>0, <1>7 DEF Parse, ReadFile, ReadRest, AttachLock, AttachDone
<1>8. CASE (\E f \in Files : RemoveFile(f) \/ TouchRead(f)) \/ TouchWrite \/ UNCHANGED vars
  BY <1>0, <1>8 DEF RemoveFile, TouchRead, TouchWrite, vars
<1> QED
  BY <1>1, <1>2, <1>3, <1>4, <1>5, <1>6, <1>7, <1>8 DEF Next

(* tool_mu.                                                                *)
LEMMA LockStep ==
    ASSUME IInv, [Next]_vars, Sound(mem)'
    PROVE  LockInv'
<1> DEFINE over == mem.entries > MaxEntries \/ mem.bytes > MaxBytes
<1>0. /\ pc \in [Threads -> {"idle", "put", "prune_ram", "prune_disk", "create", "truncate",
                             "rewrite", "flag", "scan", "read", "attach"}]
      /\ mem.entries \in Nat /\ mem.bytes \in Nat /\ MaxEntries \in Nat /\ MaxBytes \in Nat
      /\ None \notin Threads
      /\ Workers \subseteq Threads /\ Clients \subseteq Threads
  BY ThreadAssumption, LimitAssumption DEF IInv, TypeOK, Threads
<1>1. /\ \A t \in Threads : pc[t] \in {"prune_ram", "prune_disk", "attach"} => mu = t
      /\ over => \E t \in Threads : mu = t /\ pc[t] \in {"prune_ram", "prune_disk"}
  BY DEF IInv, LockInv
<1>2. ASSUME NEW t \in Threads, PutLock(t) PROVE LockInv'
  BY <1>0, <1>1, <1>2 DEF PutLock, Lock, LockInv, threadVars
<1>3. ASSUME NEW t \in Threads, Put(t) PROVE LockInv'
  <2>1. mu = t /\ mu' = mu /\ pc' = [pc EXCEPT ![t] = pc'[t]] /\ pc'[t] \in {"prune_ram", "prune_disk"}
    BY <1>0, <1>3 DEF Put, Goto
  <2> QED
    BY <1>0, <1>1, <2>1 DEF LockInv
<1>4. ASSUME NEW t \in Threads, Prune(t) PROVE LockInv'
  BY <1>0, <1>1, <1>4 DEF Prune, LockInv, threadVars
<1>5. ASSUME NEW t \in Threads, PutDone(t) PROVE LockInv'
  <2>1. mu = t /\ UNCHANGED mem /\ ~OverLimit(mem) /\ mu' \in {t, None}
    BY <1>1, <1>5 DEF PutDone
  <2>2. pc' = [pc EXCEPT ![t] = pc'[t]] /\ pc'[t] \in {"put", "idle", "scan"}
    <3>1. puts[t] # <<>> \/ (puts[t] = <<>> /\ t \in Workers) \/ (puts[t] = <<>> /\ t \in Clients)
      BY DEF Threads
    <3>2. PICK step : /\ pc' = [pc EXCEPT ![t] = step]
                      /\ step = CASE puts[t] # <<>> -> "put"
                                  [] puts[t] = <<>> /\ t \in Workers -> "idle"
                                  [] puts[t] = <<>> /\ t \in Clients -> "scan"
      BY <1>5 DEF PutDone, Goto
    <3>3. step \in {"put", "idle", "scan"}
      BY <3>1, <3>2
    <3> QED
      BY <1>0, <3>2, <3>3
  <2>3. ~over
    <3>1. CASE mem.lru # <<>>
      BY <2>1, <3>1 DEF OverLimit
    <3>2. CASE mem.lru = <<>>
      <4>1. mem \in Memories /\ ListOK(mem) /\ CountOK(mem) /\ BlockOK(mem)
        BY DEF IInv, Sound
      <4>2. Held(mem) = {}
        BY <3>2, <4>1 DEF ListOK, Range
      <4>3. Live(mem) = {}
        <5>1. ASSUME NEW s \in Live(mem) PROVE FALSE
          <6> DEFINE l == mem.block[s].members
          <6>1. mem.block[s] \in BlockRecords
            BY <4>1 DEF Memories, Live
          <6>2. l \in Seq(Ids) /\ Len(l) > 0 /\ Range(l) = Users(mem, s)
            BY <4>1, <6>1 DEF BlockOK, BlockRecords
          <6>3. l[1] \in Users(mem, s)
            BY <6>2 DEF Range
          <6> QED
            BY <4>2, <6>3 DEF Users
        <5> QED
          BY <5>1
      <4>4. mem.entries = 0 /\ mem.bytes = EntryBytes * 0 + 0
        BY <4>1, <4>2, <4>3, FS_EmptySet, SumEmpty DEF CountOK
      <4> QED
        BY <4>4, LimitAssumption
    <3> QED
      BY <3>1, <3>2
  <2> QED
    BY <1>0, <1>1, <2>1, <2>2, <2>3 DEF LockInv
<1>6. ASSUME NEW w \in Workers, UNCHANGED <<mem, mu>>,
             pc[w] \in {"idle", "create", "truncate", "rewrite", "flag"}, NEW step, Goto(w, step),
             step \in {"idle", "put", "create", "truncate", "rewrite", "flag"}
      PROVE  LockInv'
  BY <1>0, <1>1, <1>6 DEF LockInv, Goto
<1>7. ASSUME NEW w \in Workers, NEW ids, NEW t, Remember(w, ids, t) PROVE LockInv'
  BY <1>0, <1>1, <1>7 DEF Remember, Lock, Goto, LockInv
<1>8. ASSUME NEW w \in Workers, NEW f \in Files, StoreStart(w, f) \/ LoadCheckpoint(w, f) PROVE LockInv'
  BY <1>6, <1>8 DEF StoreStart, LoadCheckpoint
<1>9. ASSUME NEW w \in Workers, Create(w) \/ Truncate(w) \/ Rewrite(w) \/ WriteFlag(w) PROVE LockInv'
  BY <1>6, <1>9 DEF Create, Truncate, Rewrite, WriteFlag, StoreReturn
<1>10. ASSUME NEW c \in Clients, UNCHANGED <<mem, mu>>,
              pc[c] \in {"idle", "scan", "read"}, NEW step, Goto(c, step),
              step \in {"idle", "put", "scan", "read"}
       PROVE  LockInv'
  BY <1>0, <1>1, <1>10 DEF LockInv, Goto
<1>11. ASSUME NEW c \in Clients, NEW ids, Parse(c, ids) PROVE LockInv'
  BY <1>10, <1>11 DEF Parse
<1>12. ASSUME NEW c \in Clients, NEW f \in Files, ReadFile(c, f) PROVE LockInv'
  BY <1>10, <1>12 DEF ReadFile
<1>13. ASSUME NEW c \in Clients, ReadRest(c) PROVE LockInv'
  BY <1>10, <1>13 DEF ReadRest
<1>14. ASSUME NEW c \in Clients, AttachLock(c) PROVE LockInv'
  BY <1>0, <1>1, <1>14 DEF AttachLock, Lock, Goto, LockInv
<1>15. ASSUME NEW c \in Clients, Lookup(c) PROVE LockInv'
  <2>1. mem'.bytes = mem.bytes /\ mem'.entries = mem.entries
    BY <1>15, LookupEffect
  <2> QED
    BY <1>0, <1>1, <1>15, <2>1 DEF Lookup, LockInv, threadVars
<1>16. ASSUME NEW c \in Clients, AttachDone(c) PROVE LockInv'
  BY <1>0, <1>1, <1>16 DEF AttachDone, Goto, LockInv
<1>17. CASE (\E f \in Files : RemoveFile(f) \/ TouchRead(f)) \/ TouchWrite \/ UNCHANGED vars
  BY <1>1, <1>17 DEF RemoveFile, TouchRead, TouchWrite, vars, threadVars, LockInv
<1>18. CASE Restart
  <2>1. mem'.entries = 0 /\ mem'.bytes = 0 /\ pc' = [t \in Threads |-> "idle"]
    BY <1>18 DEF Restart, Empty
  <2> QED
    BY <1>0, <2>1 DEF LockInv
<1> QED
  BY <1>2, <1>3, <1>4, <1>5, <1>7, <1>8, <1>9, <1>11, <1>12, <1>13, <1>14, <1>15, <1>16, <1>17, <1>18 DEF Next

(* What tool_memory_attach_to_messages has found out.                      *)
LEMMA LookStep ==
    ASSUME IInv, [Next]_vars
    PROVE  LookInv'
<1> DEFINE Look(c) ==
             /\ pc[c] # "idle" => message[c] # {}
             /\ pc[c] # "attach" =>
                  message[c] \subseteq Range(calls[c]) /\ matched[c] = None /\ exact[c] = TRUE
             /\ pc[c] = "attach" /\ exact[c] =>
                  \A i \in message[c] \ Range(calls[c]) :
                     i \in Held(mem) /\ mem.entry[i].text = matched[c]
<1>0. /\ pc \in [Threads -> {"idle", "put", "prune_ram", "prune_disk", "create", "truncate",
                             "rewrite", "flag", "scan", "read", "attach"}]
      /\ calls \in [Clients -> Seq(Ids)] /\ message \in [Clients -> SUBSET Ids]
      /\ matched \in [Clients -> Strings \cup {None}] /\ exact \in [Clients -> BOOLEAN]
      /\ None \notin Threads /\ Workers \cap Clients = {}
      /\ Workers \subseteq Threads /\ Clients \subseteq Threads
  BY ThreadAssumption DEF IInv, TypeOK, Threads
<1>1. \A c \in Clients : Look(c)
  BY DEF IInv, LookInv
<1>2. \A t \in Threads : pc[t] \in {"prune_ram", "prune_disk", "attach"} => mu = t
  BY DEF IInv, LockInv
<1>3. ASSUME \A c \in Clients : Look(c)' PROVE LookInv'
  BY <1>3 DEF LookInv
<1>4. ASSUME NEW c \in Clients, pc'[c] = pc[c], message'[c] = message[c], calls'[c] = calls[c],
             matched'[c] = matched[c], exact'[c] = exact[c], pc[c] # "attach" \/ UNCHANGED mem
      PROVE  Look(c)'
  BY <1>1, <1>4 DEF Held
(* A thread that runs beside c.                                            *)
<1>5. ASSUME NEW t \in Threads, NEW step, Goto(t, step), UNCHANGED <<message, calls, matched, exact>>,
             \A c \in Clients : c # t /\ pc[c] = "attach" => UNCHANGED mem,
             t \in Clients => Look(t)'
      PROVE  LookInv'
  <2>1. ASSUME NEW c \in Clients PROVE Look(c)'
    <3>1. CASE c = t
      BY <1>5, <3>1
    <3>2. CASE c # t
      <4>1. pc'[c] = pc[c]
        BY <1>0, <1>5, <3>2 DEF Goto
      <4>2. pc[c] # "attach" \/ UNCHANGED mem
        BY <1>5, <3>2
      <4> HIDE DEF Look
      <4> QED
        BY <1>4, <1>5, <4>1, <4>2
    <3> QED
      BY <3>1, <3>2
  <2> QED
    BY <1>3, <2>1
<1>6. ASSUME UNCHANGED <<pc, message, calls, matched, exact>>,
             \A c \in Clients : pc[c] = "attach" => UNCHANGED mem
      PROVE  LookInv'
  <2>1. ASSUME NEW c \in Clients PROVE Look(c)'
    <3> HIDE DEF Look
    <3> QED
      BY <1>4, <1>6
  <2> QED
    BY <1>3, <2>1
(* A client before the lookup goes on to a step before it.                 *)
<1>7. ASSUME NEW t \in Threads, NEW step, Goto(t, step), pc[t] \notin {"idle", "attach"}, step # "attach",
             UNCHANGED <<message, calls, matched, exact>>, t \in Clients
      PROVE  Look(t)'
  <2>1. pc'[t] = step
    BY <1>0, <1>7 DEF Goto
  <2> QED
    BY <1>1, <1>7, <2>1
<1>8. ASSUME NEW t \in Threads, PutLock(t) PROVE LookInv'
  BY <1>6, <1>8 DEF PutLock, threadVars, lookVars
<1>9. ASSUME NEW t \in Threads, Put(t) PROVE LookInv'
  <2>1. mu = t /\ pc[t] = "put" /\ UNCHANGED <<message, calls, matched, exact>>
    BY <1>9 DEF Put, lookVars
  <2>2. PICK step : Goto(t, step) /\ step # "attach"
    BY <1>9 DEF Put
  <2>3. t \in Clients => Look(t)'
    <3> HIDE DEF Look
    <3> QED
      BY <1>7, <2>1, <2>2
  <2>4. \A c \in Clients : c # t => pc[c] # "attach"
    BY <1>0, <1>2, <2>1
  <2> HIDE DEF Look
  <2> QED
    BY <1>5, <2>1, <2>2, <2>3, <2>4
<1>10. ASSUME NEW t \in Threads, Prune(t) PROVE LookInv'
  <2>1. mu = t /\ pc[t] # "attach" /\ UNCHANGED <<pc, message, calls, matched, exact>>
    BY <1>2, <1>10 DEF Prune, lookVars, threadVars
  <2>2. \A c \in Clients : pc[c] # "attach"
    BY <1>0, <1>2, <2>1
  <2> QED
    BY <1>6, <2>1, <2>2
<1>11. ASSUME NEW t \in Threads, PutDone(t) PROVE LookInv'
  <2>1. pc[t] \notin {"idle", "attach"} /\ UNCHANGED <<mem, message, calls, matched, exact>>
    BY <1>11 DEF PutDone, lookVars
  <2>2. PICK step : /\ Goto(t, step)
                    /\ step = CASE puts[t] # <<>> -> "put"
                                [] puts[t] = <<>> /\ t \in Workers -> "idle"
                                [] puts[t] = <<>> /\ t \in Clients -> "scan"
    BY <1>11 DEF PutDone
  <2>3. t \in Clients => step # "attach"
    BY <1>0, <2>2
  <2>4. t \in Clients => Look(t)'
    <3> HIDE DEF Look
    <3> QED
      BY <1>7, <2>1, <2>2, <2>3
  <2> HIDE DEF Look
  <2> QED
    BY <1>5, <2>1, <2>2, <2>4
<1>12. ASSUME NEW w \in Workers, NEW step, Goto(w, step), UNCHANGED <<mem, message, calls, matched, exact>>
       PROVE  LookInv'
  <2>1. w \in Threads /\ w \notin Clients
    BY <1>0
  <2> HIDE DEF Look
  <2> QED
    BY <1>5, <1>12, <2>1
<1>13. ASSUME NEW w \in Workers, NEW ids, NEW t, Remember(w, ids, t) PROVE LookInv'
  BY <1>12, <1>13 DEF Remember, lookVars
<1>14. ASSUME NEW w \in Workers, NEW f \in Files, StoreStart(w, f) \/ LoadCheckpoint(w, f) PROVE LookInv'
  BY <1>12, <1>14 DEF StoreStart, LoadCheckpoint, lookVars
<1>15. ASSUME NEW w \in Workers, Create(w) \/ Truncate(w) \/ Rewrite(w) \/ WriteFlag(w) PROVE LookInv'
  BY <1>12, <1>15 DEF Create, Truncate, Rewrite, WriteFlag, StoreReturn, lookVars

(* The steps of a client.                                                  *)
<1>16. ASSUME NEW c \in Clients, NEW ids \in CallLists, Parse(c, ids) PROVE LookInv'
  <2>1. /\ pc[c] = "idle" /\ UNCHANGED <<mem, matched, exact>>
        /\ Goto(c, "scan") /\ Len(ids) \in 1 .. MaxCalls
        /\ calls' = [calls EXCEPT ![c] = ids]
        /\ message' = [message EXCEPT ![c] = {ids[k] : k \in 1 .. Len(ids)}]
    BY <1>16 DEF Parse
  <2>2. ids \in Seq(Ids)
    BY DEF CallLists
  <2>3. Range(ids) = {ids[k] : k \in 1 .. Len(ids)} /\ 1 \in 1 .. Len(ids)
    BY <2>1, <2>2, LimitAssumption DEF Range
  <2>4. ASSUME NEW d \in Clients PROVE Look(d)'
    <3>1. CASE d = c
      <4>1. pc'[c] = "scan" /\ calls'[c] = ids /\ message'[c] = Range(ids) /\ message'[c] # {}
        BY <1>0, <2>1, <2>3 DEF Goto
      <4>2. matched[c] = None /\ exact[c] = TRUE
        BY <1>1, <2>1
      <4> QED
        BY <2>1, <3>1, <4>1, <4>2
    <3>2. CASE d # c
      <4>1. pc'[d] = pc[d] /\ message'[d] = message[d] /\ calls'[d] = calls[d]
        BY <1>0, <2>1, <3>2 DEF Goto
      <4> HIDE DEF Look
      <4> QED
        BY <1>4, <2>1, <4>1
    <3> QED
      BY <3>1, <3>2
  <2> QED
    BY <1>3, <2>4
<1>17. ASSUME NEW c \in Clients, NEW step, Goto(c, step), pc[c] \notin {"idle", "attach"}, step # "attach",
              UNCHANGED <<mem, message, calls, matched, exact>>
       PROVE  LookInv'
  <2>1. c \in Threads
    BY <1>0
  <2>2. Look(c)'
    <3> HIDE DEF Look
    <3> QED
      BY <1>7, <1>17, <2>1
  <2> HIDE DEF Look
  <2> QED
    BY <1>5, <1>17, <2>1, <2>2
<1>18. ASSUME NEW c \in Clients, NEW f \in Files, ReadFile(c, f) PROVE LookInv'
  BY <1>17, <1>18 DEF ReadFile
<1>19. ASSUME NEW c \in Clients, ReadRest(c) PROVE LookInv'
  BY <1>17, <1>19 DEF ReadRest
<1>20. ASSUME NEW c \in Clients, AttachLock(c) PROVE LookInv'
  <2>1. pc[c] = "scan" /\ Goto(c, "attach") /\ UNCHANGED <<mem, message, calls, matched, exact>> /\ c \in Threads
    BY <1>0, <1>20 DEF AttachLock, lookVars
  <2>2. Look(c)'
    <3>1. pc'[c] = "attach"
      BY <1>0, <2>1 DEF Goto
    <3> QED
      BY <1>1, <2>1, <3>1
  <2> HIDE DEF Look
  <2> QED
    BY <1>5, <2>1, <2>2
<1>21. ASSUME NEW c \in Clients, Lookup(c) PROVE LookInv'
  <2>1. PICK i : i = Head(calls[c])
    OBVIOUS
  <2>2. PICK found : found = mem.entry[i]
    OBVIOUS
  <2>3. /\ pc[c] = "attach" /\ calls[c] # <<>> /\ UNCHANGED <<pc, message>>
        /\ calls' = [calls EXCEPT ![c] = Tail(@)]
        /\ exact' = [exact EXCEPT ![c] = @ /\ found # None /\ matched[c] \in {None, found.text}]
        /\ matched' = [matched EXCEPT ![c] = IF @ = None /\ found # None THEN found.text ELSE @]
    BY <1>21, <2>1, <2>2 DEF Lookup, threadVars
  <2>4. mem'.entry = mem.entry
    BY <1>21, LookupEffect
  <2>5. Held(mem)' = Held(mem)
    BY <2>4 DEF Held
  <2>6. calls[c] \in Seq(Ids) /\ calls[c] # <<>>
    BY <1>0, <2>3
  <2>7. Range(calls[c]) = {i} \cup Range(Tail(calls[c])) /\ i \in Ids
    <3> DEFINE s == calls[c]
    <3>1. s \in Seq(Ids) /\ Len(s) \in Nat /\ Len(s) # 0 /\ DOMAIN s = 1 .. Len(s)
      BY <2>6
    <3>2. Len(Tail(s)) = Len(s) - 1 /\ DOMAIN Tail(s) = 1 .. (Len(s) - 1)
      BY <2>6, <3>1
    <3>3. \A k \in 1 .. (Len(s) - 1) : Tail(s)[k] = s[k + 1]
      BY <2>6, <3>1
    <3>4. i = s[1]
      BY <2>1, <2>6
    <3> HIDE DEF s
    <3>5. ASSUME NEW x \in Range(s) PROVE x \in {i} \cup Range(Tail(s))
      <4>1. PICK k \in 1 .. Len(s) : x = s[k]
        BY <3>1 DEF Range
      <4>2. CASE k = 1
        BY <3>4, <4>1, <4>2
      <4>3. CASE k # 1
        <5>1. k - 1 \in 1 .. (Len(s) - 1) /\ Tail(s)[k - 1] = x
          BY <3>1, <3>3, <4>1, <4>3
        <5> QED
          BY <3>2, <5>1 DEF Range
      <4> QED
        BY <4>2, <4>3
    <3>6. ASSUME NEW x \in Range(Tail(s)) PROVE x \in Range(s)
      <4>1. PICK k \in 1 .. (Len(s) - 1) : x = Tail(s)[k]
        BY <3>2 DEF Range
      <4>2. k + 1 \in 1 .. Len(s) /\ s[k + 1] = x
        BY <3>1, <3>3, <4>1
      <4> QED
        BY <3>1, <4>2 DEF Range
    <3>7. i \in Range(s) /\ i \in Ids
      BY <3>1, <3>4 DEF Range
    <3> QED
      BY <3>5, <3>6, <3>7 DEF s
  <2>8. ASSUME NEW d \in Clients PROVE Look(d)'
    <3>1. CASE d = c
      <4>1. calls'[c] = Tail(calls[c]) /\ message'[c] = message[c] /\ pc'[c] = "attach"
        BY <1>0, <2>3
      <4>2. message[c] # {}
        BY <1>1, <2>3
      <4>3. exact'[c] = (exact[c] /\ found # None /\ matched[c] \in {None, found.text})
        BY <1>0, <2>3, Zenon
      <4>4. matched'[c] = IF matched[c] = None /\ found # None THEN found.text ELSE matched[c]
        BY <1>0, <2>3
      <4>5. ASSUME exact'[c], NEW j \in message'[c] \ Range(calls'[c])
            PROVE  j \in Held(mem)' /\ mem'.entry[j].text = matched'[c]
        <5>1. exact[c] /\ found # None /\ (matched[c] = None \/ matched[c] = found.text)
          BY <4>3, <4>5
        <5>2. matched'[c] = found.text
          BY <4>4, <5>1
        <5>3. CASE j = i
          <6>1. i \in Held(mem) /\ mem.entry[i].text = found.text
            BY <2>2, <2>7, <5>1 DEF Held
          <6> QED
            BY <2>4, <2>5, <5>2, <5>3, <6>1
        <5>4. CASE j # i
          <6>1. j \in message[c] \ Range(calls[c])
            BY <2>7, <4>1, <4>5, <5>4
          <6>2. j \in Held(mem) /\ mem.entry[j].text = matched[c]
            BY <1>1, <2>3, <5>1, <6>1
          <6>3. mem.entry[j].text # None
            <7>1. j \in Ids /\ mem.entry[j] # None /\ mem.entry \in [Ids -> EntryRecords \cup {None}]
              BY <6>2 DEF Held, IInv, TypeOK
            <7>2. mem.entry[j].text \in Strings
              BY <7>1 DEF EntryRecords
            <7> QED
              BY <7>2, TextAssumption DEF Strings
          <6> QED
            BY <2>4, <2>5, <5>1, <5>2, <6>2, <6>3
        <5> QED
          BY <5>3, <5>4
      <4> QED
        BY <3>1, <4>1, <4>2, <4>5
    <3>2. CASE d # c
      <4>1. pc[d] # "attach"
        BY <1>0, <1>2, <2>3, <3>2
      <4>2. /\ pc'[d] = pc[d] /\ message'[d] = message[d] /\ calls'[d] = calls[d]
            /\ matched'[d] = matched[d] /\ exact'[d] = exact[d]
        BY <1>0, <2>3, <3>2
      <4> HIDE DEF Look
      <4> QED
        BY <1>4, <4>1, <4>2
    <3> QED
      BY <3>1, <3>2
  <2> QED
    BY <1>3, <2>8
<1>22. ASSUME NEW c \in Clients, AttachDone(c) PROVE LookInv'
  <2>1. /\ UNCHANGED <<mem, calls>> /\ Goto(c, "idle")
        /\ message' = [message EXCEPT ![c] = {}]
        /\ matched' = [matched EXCEPT ![c] = None]
        /\ exact' = [exact EXCEPT ![c] = TRUE]
    BY <1>22 DEF AttachDone
  <2>2. ASSUME NEW d \in Clients PROVE Look(d)'
    <3>1. CASE d = c
      <4>1. pc'[c] = "idle" /\ message'[c] = {} /\ matched'[c] = None /\ exact'[c] = TRUE
        BY <1>0, <2>1 DEF Goto
      <4> QED
        BY <3>1, <4>1
    <3>2. CASE d # c
      <4>1. /\ pc'[d] = pc[d] /\ message'[d] = message[d] /\ calls'[d] = calls[d]
            /\ matched'[d] = matched[d] /\ exact'[d] = exact[d]
        BY <1>0, <2>1, <3>2 DEF Goto
      <4> HIDE DEF Look
      <4> QED
        BY <1>4, <2>1, <4>1
    <3> QED
      BY <3>1, <3>2
  <2> QED
    BY <1>3, <2>2
<1>23. CASE (\E f \in Files : RemoveFile(f) \/ TouchRead(f)) \/ TouchWrite \/ UNCHANGED vars
  BY <1>6, <1>23 DEF RemoveFile, TouchRead, TouchWrite, vars, threadVars, lookVars
<1>24. CASE Restart
  <2>1. /\ pc' = [t \in Threads |-> "idle"]
        /\ message' = [c \in Clients |-> {}]
        /\ matched' = [c \in Clients |-> None]
        /\ exact' = [c \in Clients |-> TRUE]
    BY <1>24 DEF Restart
  <2>2. ASSUME NEW d \in Clients PROVE Look(d)'
    BY <1>0, <2>1
  <2> QED
    BY <1>3, <2>2
<1> HIDE DEF Look
<1> QED
  BY <1>8, <1>9, <1>10, <1>11, <1>13, <1>14, <1>15, <1>16, <1>18, <1>19, <1>20, <1>21, <1>22, <1>23, <1>24 DEF Next

(* What a writer of the files does to them: a file it finds stays, and its *)
(* trailer names faithful texts.                                           *)
LEMMA DiskEffect ==
    ASSUME IInv,
           \/ \E w \in Workers : Create(w) \/ Truncate(w) \/ Rewrite(w) \/ WriteFlag(w)
           \/ TouchWrite
    PROVE  /\ disk' \in [Files -> FileRecords \cup {None}]
           /\ \A f \in Files : disk[f] # None => disk'[f] # None
           /\ \A f \in Files : disk'[f] # None => disk'[f].map \in Seq(Pairs)
<1> DEFINE Wanted(d) == /\ d \in [Files -> FileRecords \cup {None}]
                        /\ \A f \in Files : disk[f] # None => d[f] # None
                        /\ \A f \in Files : d[f] # None => d[f].map \in Seq(Pairs)
<1>1. /\ disk \in [Files -> FileRecords \cup {None}]
      /\ \A f \in Files : disk[f] # None => disk[f].map \in Seq(Pairs)
  BY DEF IInv, TypeOK, TextInv
<1>2. Wanted(disk)
  BY <1>1
<1>3. ASSUME NEW s \in Seq(Pairs) PROVE s \in Seq([id : Ids, text : Strings])
  BY PairsTyped
<1>4. ASSUME NEW f \in Files, NEW r \in FileRecords, r.map \in Seq(Pairs) PROVE Wanted([disk EXCEPT ![f] = r])
  <2>1. r # None
    BY NoneAssumption
  <2> QED
    BY <1>1, <1>4, <2>1
<1> HIDE DEF Wanted
<1>5. ASSUME NEW f \in Files, disk[f] # None, NEW s \in Seq(Pairs) PROVE Wanted([disk EXCEPT ![f].map = s])
  <2>1. disk[f] \in FileRecords
    BY <1>1, <1>5
  <2>2. PICK r : r = [disk[f] EXCEPT !.map = s]
    OBVIOUS
  <2>3. r \in FileRecords /\ r.map = s
    BY <1>3, <2>1, <2>2 DEF FileRecords
  <2>4. [disk EXCEPT ![f].map = s] = [disk EXCEPT ![f] = r]
    BY <1>1, <2>2
  <2>5. Wanted([disk EXCEPT ![f] = r])
    BY <1>4, <2>3
  <2> QED
    BY <2>4, <2>5
<1>6. ASSUME NEW f \in Files, disk[f] # None, NEW b \in BOOLEAN PROVE Wanted([disk EXCEPT ![f].flag = b])
  <2>1. disk[f] \in FileRecords /\ disk[f].map \in Seq(Pairs)
    BY <1>1, <1>6
  <2>2. PICK r : r = [disk[f] EXCEPT !.flag = b]
    OBVIOUS
  <2>3. r \in FileRecords /\ r.map = disk[f].map
    BY <2>1, <2>2 DEF FileRecords
  <2>4. [disk EXCEPT ![f].flag = b] = [disk EXCEPT ![f] = r]
    BY <1>1, <2>2
  <2>5. Wanted([disk EXCEPT ![f] = r])
    BY <1>4, <2>1, <2>3
  <2> QED
    BY <2>4, <2>5
<1>7. ASSUME NEW w \in Workers, pc[w] \in {"create", "truncate", "rewrite", "flag"} PROVE file[w] \in Files
  BY <1>7 DEF IInv, FileInv
<1>8. ASSUME NEW w \in Workers, Create(w) PROVE Wanted(disk')
  <2>1. file[w] \in Files /\ est[w] \in BOOLEAN
    BY <1>7, <1>8 DEF Create, IInv, TypeOK
  <2>2. PICK s \in Seq(Pairs) : s = Trailer(mem, file[w])
    BY <2>1, TrailerFaithful
  <2>3. PICK r : r = [flag |-> est[w], map |-> s]
    OBVIOUS
  <2>4. r \in FileRecords /\ r.map \in Seq(Pairs)
    BY <1>3, <2>1, <2>3 DEF FileRecords
  <2>5. disk' = [disk EXCEPT ![file[w]] = r] \/ disk' = disk
    BY <1>8, <2>2, <2>3 DEF Create
  <2>6. Wanted([disk EXCEPT ![file[w]] = r])
    BY <1>4, <2>1, <2>4
  <2> QED
    BY <1>2, <2>5, <2>6
<1>9. ASSUME NEW w \in Workers, Truncate(w) PROVE Wanted(disk')
  <2>1. file[w] \in Files
    BY <1>7, <1>9 DEF Truncate
  <2>2. <<>> \in Seq(Pairs)
    OBVIOUS
  <2>3. disk[file[w]] # None => Wanted([disk EXCEPT ![file[w]].map = <<>>])
    BY <1>5, <2>1, <2>2
  <2> QED
    BY <1>2, <1>9, <2>3 DEF Truncate
<1>10. ASSUME NEW w \in Workers, Rewrite(w) PROVE Wanted(disk')
  <2>1. file[w] \in Files
    BY <1>7, <1>10 DEF Rewrite
  <2>2. PICK s \in Seq(Pairs) : s = Trailer(mem, file[w])
    BY <2>1, TrailerFaithful
  <2>3. disk[file[w]] # None => Wanted([disk EXCEPT ![file[w]].map = s])
    BY <1>5, <2>1
  <2> QED
    BY <1>2, <1>10, <2>2, <2>3 DEF Rewrite
<1>11. ASSUME NEW w \in Workers, WriteFlag(w) PROVE Wanted(disk')
  <2>1. file[w] \in Files
    BY <1>7, <1>11 DEF WriteFlag
  <2>2. disk[file[w]] # None => Wanted([disk EXCEPT ![file[w]].flag = TRUE])
    BY <1>6, <2>1
  <2> QED
    BY <1>2, <1>11, <2>2 DEF WriteFlag
<1>12. ASSUME TouchWrite PROVE Wanted(disk')
  <2>1. touch \in TouchRecords /\ disk[touch.file] # None
    BY <1>12 DEF TouchWrite, IInv, TypeOK, FileInv
  <2>2. touch.file \in Files /\ touch.flag \in BOOLEAN
    BY <2>1 DEF TouchRecords
  <2>3. Wanted([disk EXCEPT ![touch.file].flag = touch.flag])
    BY <1>6, <2>1, <2>2
  <2> QED
    BY <1>12, <2>3 DEF TouchWrite
<1>13. Wanted(disk')
  BY <1>8, <1>9, <1>10, <1>11, <1>12
<1> QED
  BY <1>13 DEF Wanted

(* A file that is removed under its readers: their streams have the rest.  *)
LEMMA RemoveEffect ==
    ASSUME IInv, NEW f \in Files, RemoveFile(f)
    PROVE  /\ disk' \in [Files -> FileRecords \cup {None}]
           /\ \A g \in Files : disk'[g] # None => disk[g] # None /\ disk'[g] = disk[g]
           /\ \A g \in Files : g # f => disk'[g] = disk[g]
           /\ \A c \in Clients :
                \/ buf'[c] = buf[c] /\ buf[c].file # f
                \/ buf'[c].file = None /\ buf'[c].cut = 0 /\ buf'[c].map \in Seq(Pairs)
           /\ buf' \in [Clients -> [file : Files \cup {None}, map : Seq([id : Ids, text : Strings]), cut : Nat]]
<1>1. /\ disk \in [Files -> FileRecords \cup {None}] /\ disk[f] # None
      /\ buf \in [Clients -> [file : Files \cup {None}, map : Seq([id : Ids, text : Strings]), cut : Nat]]
      /\ \A g \in Files : disk[g] # None => disk[g].map \in Seq(Pairs)
      /\ \A c \in Clients : buf[c].map \in Seq(Pairs)
      /\ \A c \in Clients : buf[c].file # None =>
           tears /\ disk[buf[c].file] # None /\ buf[c].cut \in 1 .. Len(buf[c].map)
  BY DEF IInv, TypeOK, TextInv, FileInv, RemoveFile
<1>2. disk' = [disk EXCEPT ![f] = None]
  BY DEF RemoveFile
<1>3. ASSUME NEW c \in Clients
      PROVE  /\ \/ buf'[c] = buf[c] /\ buf[c].file # f
                \/ buf'[c].file = None /\ buf'[c].cut = 0 /\ buf'[c].map \in Seq(Pairs)
             /\ buf'[c] \in [file : Files \cup {None}, map : Seq([id : Ids, text : Strings]), cut : Nat]
  <2>1. PICK r : r = SecondRead(buf[c].map, disk[f].map, buf[c].cut)
    OBVIOUS
  <2>2. buf'[c] = IF buf[c].file # f THEN buf[c] ELSE [file |-> None, cut |-> 0, map |-> r]
    BY <2>1 DEF RemoveFile
  <2>3. CASE buf[c].file # f
    BY <1>1, <2>2, <2>3
  <2>4. CASE buf[c].file = f
    <3>1. f # None
      BY TextAssumption
    <3>2. tears /\ buf[c].cut \in 1 .. Len(buf[c].map) /\ buf[c].map \in Seq(Pairs) /\ disk[f].map \in Seq(Pairs)
      BY <1>1, <2>4, <3>1
    <3>3. r \in Seq(Pairs)
      BY <2>1, <3>2, SecondReadFaithful
    <3>4. r \in Seq([id : Ids, text : Strings])
      BY <3>3, PairsTyped
    <3> QED
      BY <2>2, <2>4, <3>3, <3>4
  <2> QED
    BY <2>3, <2>4
<1>4. buf' = [c \in Clients |-> buf'[c]]
  BY DEF RemoveFile
<1>5. buf' \in [Clients -> [file : Files \cup {None}, map : Seq([id : Ids, text : Strings]), cut : Nat]]
  BY <1>3, <1>4
<1> QED
  BY <1>1, <1>2, <1>3, <1>5

(* What a reader of the files gets.                                        *)
LEMMA ReadEffect ==
    ASSUME IInv, NEW c \in Clients, NEW f \in Files, ReadFile(c, f)
    PROVE  /\ \E step \in {"scan", "put", "read"} : Goto(c, step)
           /\ \/ /\ UNCHANGED buf
                 /\ \E s \in Seq(FaithfulPuts) : puts' = [puts EXCEPT ![c] = s]
              \/ /\ UNCHANGED puts
                 /\ tears /\ disk[f] # None
                 /\ \E map \in Seq(Pairs), k \in Nat :
                      k \in 1 .. Len(map) /\ buf' = [buf EXCEPT ![c] = [file |-> f, map |-> map, cut |-> k]]
<1>1. PICK map : map = IF disk[f] # None /\ disk[f].flag THEN Loadable(disk[f].map) ELSE <<>>
  OBVIOUS
<1>2. map \in Seq(Pairs)
  <2>1. disk[f] # None => disk[f].map \in Seq(Pairs)
    BY DEF IInv, TextInv
  <2>2. disk[f] # None => Loadable(disk[f].map) \in Seq(Pairs)
    BY <2>1, LoadableFaithful
  <2> QED
    BY <1>1, <2>2
<1>3. PutsOf(map, message[c]) \in Seq(FaithfulPuts)
  BY <1>2, PutsFaithful
<1>4. PICK s \in Seq(FaithfulPuts) : s = PutsOf(map, message[c])
  BY <1>3
<1>5. \/ /\ puts' = [puts EXCEPT ![c] = s]
         /\ Goto(c, IF s = <<>> THEN "scan" ELSE "put")
         /\ UNCHANGED buf
      \/ /\ tears
         /\ \E k \in 1 .. Len(map) : buf' = [buf EXCEPT ![c] = [file |-> f, map |-> map, cut |-> k]]
         /\ Goto(c, "read")
         /\ UNCHANGED puts
  BY <1>1, <1>4 DEF ReadFile
<1>6. CASE /\ puts' = [puts EXCEPT ![c] = s]
           /\ Goto(c, IF s = <<>> THEN "scan" ELSE "put")
           /\ UNCHANGED buf
  BY <1>6
<1>7. CASE /\ tears
           /\ \E k \in 1 .. Len(map) : buf' = [buf EXCEPT ![c] = [file |-> f, map |-> map, cut |-> k]]
           /\ Goto(c, "read")
           /\ UNCHANGED puts
  <2>1. PICK k \in 1 .. Len(map) : buf' = [buf EXCEPT ![c] = [file |-> f, map |-> map, cut |-> k]]
    BY <1>7
  <2>2. map # <<>> /\ k \in Nat
    BY <1>2, <2>1
  <2>3. disk[f] # None
    BY <1>1, <2>2
  <2> QED
    BY <1>2, <1>7, <2>1, <2>2, <2>3
<1> QED
  BY <1>5, <1>6, <1>7

LEMMA RestEffect ==
    ASSUME IInv, NEW c \in Clients, ReadRest(c)
    PROVE  /\ \E step \in {"scan", "put"} : Goto(c, step)
           /\ \E s \in Seq(FaithfulPuts) : puts' = [puts EXCEPT ![c] = s]
           /\ buf' = [buf EXCEPT ![c] = NoBuf]
<1>1. PICK map : map = IF buf[c].file = None THEN buf[c].map
                       ELSE SecondRead(buf[c].map, disk[buf[c].file].map, buf[c].cut)
  OBVIOUS
<1>2. map \in Seq(Pairs)
  <2>1. buf[c].map \in Seq(Pairs)
    BY DEF IInv, TextInv
  <2>2. CASE buf[c].file = None
    BY <1>1, <2>1, <2>2
  <2>3. CASE buf[c].file # None
    <3>1. buf[c].file \in Files
      BY <2>3 DEF IInv, TypeOK
    <3>2. tears /\ disk[buf[c].file].map \in Seq(Pairs) /\ buf[c].cut \in 1 .. Len(buf[c].map)
      BY <2>3, <3>1 DEF IInv, TextInv, FileInv
    <3> QED
      BY <1>1, <2>1, <2>3, <3>2, SecondReadFaithful
  <2> QED
    BY <2>2, <2>3
<1>3. PutsOf(map, message[c]) \in Seq(FaithfulPuts)
  BY <1>2, PutsFaithful
<1>4. PICK s \in Seq(FaithfulPuts) : s = PutsOf(map, message[c])
  BY <1>3
<1>5. puts' = [puts EXCEPT ![c] = s] /\ Goto(c, IF s = <<>> THEN "scan" ELSE "put")
  BY <1>1, <1>4 DEF ReadRest
<1> QED
  BY <1>5 DEF ReadRest

LEMMA LoadEffect ==
    ASSUME IInv, NEW w \in Workers, NEW f \in Files, LoadCheckpoint(w, f)
    PROVE  \E s \in Seq(FaithfulPuts) : puts' = [puts EXCEPT ![w] = s]
<1>1. disk[f].map \in Seq(Pairs)
  BY DEF LoadCheckpoint, IInv, TextInv
<1>2. PutsOf(Loadable(disk[f].map), Ids) \in Seq(FaithfulPuts)
  BY <1>1, LoadableFaithful, PutsFaithful
<1> QED
  BY <1>2 DEF LoadCheckpoint

(* A file that somebody has in hand is there.                              *)
LEMMA FileStep ==
    ASSUME IInv, [Next]_vars
    PROVE  FileInv'
<1> DEFINE Storing == {"create", "truncate", "rewrite", "flag"}
           Read(c) == buf[c].file # None =>
                        tears /\ disk[buf[c].file] # None /\ buf[c].cut \in 1 .. Len(buf[c].map)
           Touched == touch # None => disk[touch.file] # None
           Stored(w) == pc[w] \in Storing => file[w] \in Files
<1>0. /\ pc \in [Threads -> {"idle", "put", "prune_ram", "prune_disk", "create", "truncate",
                             "rewrite", "flag", "scan", "read", "attach"}]
      /\ buf \in [Clients -> [file : Files \cup {None}, map : Seq([id : Ids, text : Strings]), cut : Nat]]
      /\ file \in [Workers -> Files \cup {None}]
      /\ touch \in TouchRecords \cup {None}
      /\ disk \in [Files -> FileRecords \cup {None}]
      /\ Workers \cap Clients = {} /\ Workers \subseteq Threads /\ Clients \subseteq Threads
  BY ThreadAssumption DEF IInv, TypeOK, Threads
<1>1. (\A c \in Clients : Read(c)) /\ Touched /\ (\A w \in Workers : Stored(w))
  BY DEF IInv, FileInv
<1>2. ASSUME \A c \in Clients : Read(c)', Touched', \A w \in Workers : Stored(w)' PROVE FileInv'
  BY <1>2 DEF FileInv
<1>3. \A c \in Clients : buf[c].file # None => buf[c].file \in Files
  BY <1>0
<1>4. touch # None => touch.file \in Files
  BY <1>0 DEF TouchRecords
<1>5. ASSUME UNCHANGED <<buf, tears>>, \A f \in Files : disk[f] # None => disk'[f] # None
      PROVE  \A c \in Clients : Read(c)'
  BY <1>1, <1>3, <1>5
<1>6. ASSUME UNCHANGED touch, \A f \in Files : disk[f] # None => disk'[f] # None
      PROVE  Touched'
  BY <1>1, <1>4, <1>6
<1>7. ASSUME UNCHANGED diskVars, UNCHANGED buf PROVE (\A c \in Clients : Read(c)') /\ Touched'
  BY <1>1, <1>7 DEF diskVars
<1>8. ASSUME UNCHANGED file, NEW t \in Threads, NEW step, Goto(t, step), step \notin Storing
      PROVE  \A w \in Workers : Stored(w)'
  BY <1>0, <1>1, <1>8 DEF Goto
<1>9. ASSUME UNCHANGED <<file, pc>> PROVE \A w \in Workers : Stored(w)'
  BY <1>1, <1>9
<1>10. ASSUME NEW w \in Workers, StoreReturn(w) PROVE \A v \in Workers : Stored(v)'
  BY <1>0, <1>1, <1>10 DEF StoreReturn, Goto
<1>11. ASSUME NEW w \in Workers, pc[w] \in Storing, NEW step \in Storing, Goto(w, step), UNCHANGED file
       PROVE  \A v \in Workers : Stored(v)'
  BY <1>0, <1>1, <1>11 DEF Goto
<1> HIDE DEF Read, Touched, Stored
<1>12. ASSUME NEW t \in Threads, PutLock(t) \/ Put(t) \/ Prune(t) PROVE FileInv'
  <2>1. UNCHANGED <<buf, file>> /\ UNCHANGED diskVars
    BY <1>12 DEF PutLock, Put, Prune, lookVars, storeVars
  <2>2. UNCHANGED pc \/ \E step : Goto(t, step) /\ step \notin Storing
    BY <1>12 DEF PutLock, Put, Prune, threadVars
  <2>3. \A w \in Workers : Stored(w)'
    BY <1>8, <1>9, <2>1, <2>2
  <2> QED
    BY <1>2, <1>7, <2>1, <2>3
<1>13. ASSUME NEW t \in Threads, PutDone(t) PROVE FileInv'
  <2>1. UNCHANGED <<buf, file>> /\ UNCHANGED diskVars
    BY <1>13 DEF PutDone, lookVars, storeVars
  <2>2. PICK step : /\ Goto(t, step)
                    /\ step = CASE puts[t] # <<>> -> "put"
                                [] puts[t] = <<>> /\ t \in Workers -> "idle"
                                [] puts[t] = <<>> /\ t \in Clients -> "scan"
    BY <1>13 DEF PutDone
  <2>3. puts[t] # <<>> \/ (puts[t] = <<>> /\ t \in Workers) \/ (puts[t] = <<>> /\ t \in Clients)
    BY DEF Threads
  <2>4. step \notin Storing
    BY <2>2, <2>3
  <2>5. \A w \in Workers : Stored(w)'
    BY <1>8, <2>1, <2>2, <2>4
  <2> QED
    BY <1>2, <1>7, <2>1, <2>5
<1>14. ASSUME NEW w \in Workers, (\E ids, t : Remember(w, ids, t)) \/ (\E f \in Files : LoadCheckpoint(w, f))
       PROVE  FileInv'
  <2>1. UNCHANGED <<buf, file>> /\ UNCHANGED diskVars /\ Goto(w, "put") /\ w \in Threads
    BY <1>0, <1>14 DEF Remember, LoadCheckpoint, lookVars, storeVars
  <2>2. \A v \in Workers : Stored(v)'
    BY <1>8, <2>1
  <2> QED
    BY <1>2, <1>7, <2>1, <2>2
<1>15. ASSUME NEW w \in Workers, NEW f \in Files, StoreStart(w, f) PROVE FileInv'
  <2>1. UNCHANGED buf /\ UNCHANGED diskVars /\ file' = [file EXCEPT ![w] = f] /\ \E step : Goto(w, step)
    BY <1>15 DEF StoreStart, lookVars
  <2>2. \A v \in Workers : Stored(v)'
    BY <1>0, <1>1, <2>1 DEF Stored, Goto
  <2> QED
    BY <1>2, <1>7, <2>1, <2>2
<1>16. ASSUME NEW w \in Workers, Create(w) \/ Truncate(w) \/ Rewrite(w) \/ WriteFlag(w) PROVE FileInv'
  <2>1. UNCHANGED <<buf, tears, touch>>
    BY <1>16 DEF Create, Truncate, Rewrite, WriteFlag, lookVars
  <2>2. \A f \in Files : disk[f] # None => disk'[f] # None
    BY <1>16, DiskEffect
  <2>3. StoreReturn(w) \/ (pc[w] \in Storing /\ UNCHANGED file /\ \E step \in Storing : Goto(w, step))
    BY <1>16 DEF Create, Truncate, Rewrite, WriteFlag, storeVars
  <2>4. \A v \in Workers : Stored(v)'
    BY <1>10, <1>11, <2>3
  <2> QED
    BY <1>2, <1>5, <1>6, <2>1, <2>2, <2>4
<1>17. ASSUME NEW c \in Clients, (\E ids : Parse(c, ids)) \/ AttachLock(c) \/ AttachDone(c) PROVE FileInv'
  <2>1. UNCHANGED <<buf, file>> /\ UNCHANGED diskVars /\ c \in Threads
    BY <1>0, <1>17 DEF Parse, AttachLock, AttachDone, lookVars, storeVars
  <2>2. Goto(c, "scan") \/ Goto(c, "attach") \/ Goto(c, "idle")
    BY <1>17 DEF Parse, AttachLock, AttachDone
  <2>3. \A v \in Workers : Stored(v)'
    BY <1>8, <2>1, <2>2
  <2> QED
    BY <1>2, <1>7, <2>1, <2>3
<1>18. ASSUME NEW c \in Clients, NEW f \in Files, ReadFile(c, f) PROVE FileInv'
  <2>1. UNCHANGED <<file, tears, disk, touch>> /\ c \in Threads
    BY <1>0, <1>18 DEF ReadFile, storeVars, diskVars
  <2>2. \A v \in Workers : Stored(v)'
    <3>1. \E step \in {"scan", "put", "read"} : Goto(c, step)
      BY <1>18, ReadEffect
    <3> QED
      BY <1>8, <2>1, <3>1
  <2>3. \A d \in Clients : Read(d)'
    <3>1. CASE UNCHANGED buf
      BY <1>5, <2>1, <3>1
    <3>2. CASE ~UNCHANGED buf
      <4>1. PICK map \in Seq(Pairs), k \in Nat :
              /\ tears /\ disk[f] # None /\ k \in 1 .. Len(map)
              /\ buf' = [buf EXCEPT ![c] = [file |-> f, map |-> map, cut |-> k]]
        BY <1>18, <3>2, ReadEffect
      <4> QED
        BY <1>0, <1>1, <2>1, <4>1 DEF Read
    <3> QED
      BY <3>1, <3>2
  <2>4. Touched'
    BY <1>6, <2>1
  <2> QED
    BY <1>2, <2>2, <2>3, <2>4
<1>19. ASSUME NEW c \in Clients, ReadRest(c) PROVE FileInv'
  <2>1. UNCHANGED <<file, tears, disk, touch>> /\ c \in Threads
    BY <1>0, <1>19 DEF ReadRest, storeVars, diskVars
  <2>2. (\E step \in {"scan", "put"} : Goto(c, step)) /\ buf' = [buf EXCEPT ![c] = NoBuf]
    BY <1>19, RestEffect
  <2>3. \A v \in Workers : Stored(v)'
    BY <1>8, <2>1, <2>2
  <2>4. \A d \in Clients : Read(d)'
    BY <1>0, <1>1, <2>1, <2>2 DEF Read, NoBuf
  <2>5. Touched'
    BY <1>6, <2>1
  <2> QED
    BY <1>2, <2>3, <2>4, <2>5
<1>20. ASSUME NEW c \in Clients, Lookup(c) PROVE FileInv'
  BY <1>2, <1>7, <1>9, <1>20 DEF Lookup, threadVars, storeVars
<1>21. ASSUME NEW f \in Files, RemoveFile(f) PROVE FileInv'
  <2>1. UNCHANGED <<pc, file, tears>> /\ touch' = IF touch # None /\ touch.file = f THEN None ELSE touch
    BY <1>21 DEF RemoveFile, threadVars, storeVars
  <2>2. /\ \A g \in Files : g # f => disk'[g] = disk[g]
        /\ \A c \in Clients : buf'[c].file = None \/ (buf'[c] = buf[c] /\ buf[c].file # f)
    BY <1>21, RemoveEffect
  <2>3. \A c \in Clients : Read(c)'
    BY <1>1, <1>3, <2>1, <2>2 DEF Read
  <2>4. Touched'
    BY <1>1, <1>4, <2>1, <2>2 DEF Touched
  <2> QED
    BY <1>2, <1>9, <2>1, <2>3, <2>4
<1>22. ASSUME NEW f \in Files, TouchRead(f) PROVE FileInv'
  <2>1. UNCHANGED <<pc, file, tears, buf, disk>> /\ touch' = [file |-> f, flag |-> disk[f].flag] /\ disk[f] # None
    BY <1>22 DEF TouchRead, threadVars, storeVars, lookVars
  <2>2. Touched'
    BY <2>1 DEF Touched
  <2> QED
    BY <1>2, <1>5, <1>9, <2>1, <2>2
<1>23. CASE TouchWrite
  <2>1. UNCHANGED <<pc, file, tears, buf>> /\ touch' = None
    BY <1>23 DEF TouchWrite, threadVars, storeVars, lookVars
  <2>2. \A f \in Files : disk[f] # None => disk'[f] # None
    BY <1>23, DiskEffect
  <2>3. Touched'
    BY <2>1 DEF Touched
  <2> QED
    BY <1>2, <1>5, <1>9, <2>1, <2>2, <2>3
<1>24. CASE Restart
  <2>1. /\ UNCHANGED <<tears, disk, touch>> /\ buf' = [c \in Clients |-> NoBuf]
        /\ pc' = [t \in Threads |-> "idle"]
    BY <1>24 DEF Restart, diskVars
  <2>2. Touched'
    BY <1>6, <2>1
  <2>3. \A c \in Clients : Read(c)'
    BY <2>1 DEF Read, NoBuf
  <2>4. \A w \in Workers : Stored(w)'
    BY <1>0, <2>1 DEF Stored
  <2> QED
    BY <1>2, <2>2, <2>3, <2>4
<1>25. CASE UNCHANGED vars
  BY <1>2, <1>7, <1>9, <1>25 DEF vars, threadVars, lookVars, storeVars
<1> QED
  BY <1>12, <1>13, <1>14, <1>15, <1>16, <1>17, <1>18, <1>19, <1>20, <1>21, <1>22, <1>23, <1>24, <1>25 DEF Next

(* Wherever an entry goes, its text stays faithful.                        *)
LEMMA TextStep ==
    ASSUME IInv, [Next]_vars
    PROVE  TextInv'
<1> DEFINE InMemory == \A i \in Held(mem) : Faithful(i, mem.entry[i].text)
           OnTheWay == \A t \in Threads : puts[t] \in Seq(FaithfulPuts)
           OnDisk == \A f \in Files : disk[f] # None => disk[f].map \in Seq(Pairs)
           InHand == \A c \in Clients : buf[c].map \in Seq(Pairs)
<1>0. /\ puts \in [Threads -> Seq(Puts)]
      /\ buf \in [Clients -> [file : Files \cup {None}, map : Seq([id : Ids, text : Strings]), cut : Nat]]
      /\ disk \in [Files -> FileRecords \cup {None}]
      /\ mem.entry \in [Ids -> EntryRecords \cup {None}]
      /\ issued \in [Ids -> Strings \cup {None}]
      /\ Workers \subseteq Threads /\ Clients \subseteq Threads
  BY DEF IInv, TypeOK, Threads
<1>1. InMemory /\ OnTheWay /\ OnDisk /\ InHand
  BY DEF IInv, TextInv
<1>2. ASSUME InMemory', OnTheWay', OnDisk', InHand' PROVE TextInv'
  BY <1>2 DEF TextInv
<1>3. CASE \E w \in Workers, ids \in CallLists, t \in Texts : Remember(w, ids, t)
  <2>1. PICK w \in Workers, ids \in CallLists, t \in Texts : Remember(w, ids, t)
    BY <1>3
  <2>2. ids \in Seq(Ids) /\ Len(ids) \in Nat
    BY DEF CallLists
  <2>3. PICK n \in Nat : n = Len(ids)
    BY <2>2
  <2>4. PICK x : x = Whole(t)
    OBVIOUS
  <2>5. x \in Strings /\ x # None
    BY <2>4, TextAssumption DEF Whole, Strings
  <2>6. /\ \A k \in 1 .. n : ids[k] \in Ids /\ issued[ids[k]] = None
        /\ issued' = [i \in Ids |-> IF \E k \in 1 .. n : ids[k] = i THEN x ELSE issued[i]]
        /\ puts' = [puts EXCEPT ![w] = [k \in 1 .. n |-> [id |-> ids[k], text |-> x, source |-> "ram"]]]
        /\ UNCHANGED <<mem, disk, buf, tears>>
    BY <2>1, <2>2, <2>3, <2>4 DEF Remember, lookVars, diskVars
  <2>7. ASSUME NEW i \in Ids, NEW s, Faithful(i, s) PROVE Faithful(i, s)'
    <3>1. issued'[i] = issued[i]
      BY <2>6, <2>7 DEF Faithful
    <3> QED
      BY <2>6, <2>7, <3>1 DEF Faithful
  <2>8. Pairs \subseteq Pairs' /\ FaithfulPuts \subseteq FaithfulPuts'
    BY <2>7 DEF Pairs, FaithfulPuts, Puts
  <2>9. (\A s \in Seq(Pairs) : s \in Seq(Pairs')) /\ (\A s \in Seq(FaithfulPuts) : s \in Seq(FaithfulPuts'))
    BY <2>8, SeqMono
  <2>10. InMemory'
    <3>1. ASSUME NEW i \in Held(mem) PROVE Faithful(i, mem.entry[i].text)'
      <4>1. i \in Ids /\ Faithful(i, mem.entry[i].text)
        BY <1>1 DEF Held
      <4>2. issued'[i] = issued[i]
        BY <2>6, <4>1 DEF Faithful
      <4> QED
        BY <2>6, <4>1, <4>2 DEF Faithful
    <3>2. Held(mem)' = Held(mem)
      BY <2>6 DEF Held
    <3> QED
      BY <3>1, <3>2
  <2>11. OnTheWay'
    <3>1. ASSUME NEW k \in 1 .. n PROVE [id |-> ids[k], text |-> x, source |-> "ram"] \in FaithfulPuts'
      <4>1. ids[k] \in Ids /\ issued'[ids[k]] = x
        BY <2>6
      <4>2. PICK p : p = [id |-> ids[k], text |-> x, source |-> "ram"]
        OBVIOUS
      <4>3. p \in Puts /\ p.id = ids[k] /\ p.text = x
        BY <2>5, <4>1, <4>2 DEF Puts, Sources
      <4>4. Faithful(p.id, p.text)'
        BY <2>5, <4>1, <4>3 DEF Faithful
      <4>5. p \in FaithfulPuts'
        BY <4>3, <4>4 DEF FaithfulPuts
      <4> QED
        BY <4>2, <4>5
    <3>2. PICK q : q = [k \in 1 .. n |-> [id |-> ids[k], text |-> x, source |-> "ram"]]
      OBVIOUS
    <3>3. q \in Seq(FaithfulPuts')
      BY <3>1, <3>2
    <3>4. ASSUME NEW v \in Threads PROVE puts'[v] \in Seq(FaithfulPuts')
      <4>1. CASE v = w
        BY <1>0, <2>6, <3>2, <3>3, <4>1
      <4>2. CASE v # w
        <5>1. puts'[v] = puts[v] /\ puts[v] \in Seq(FaithfulPuts)
          BY <1>0, <1>1, <2>6, <4>2
        <5> QED
          BY <2>9, <5>1
      <4> QED
        BY <4>1, <4>2
    <3> QED
      BY <3>4
  <2>12. OnDisk' /\ InHand'
    BY <1>1, <2>6, <2>9
  <2> HIDE DEF InMemory, OnTheWay, OnDisk, InHand
  <2> QED
    BY <1>2, <2>10, <2>11, <2>12
<1>4. ASSUME UNCHANGED <<issued, tears>>
      PROVE  /\ Pairs' = Pairs /\ FaithfulPuts' = FaithfulPuts
             /\ \A i \in Ids : \A s : Faithful(i, s) => Faithful(i, s)'
  <2>1. ASSUME NEW i, NEW s PROVE Faithful(i, s)' <=> Faithful(i, s)
    BY <1>4 DEF Faithful
  <2> QED
    BY <2>1 DEF Pairs, FaithfulPuts
<1>5. ASSUME UNCHANGED <<issued, tears>>,
             \A i \in Ids : mem'.entry[i] # None => mem'.entry[i] = mem.entry[i]
      PROVE  InMemory'
  <2>1. ASSUME NEW i \in Held(mem)' PROVE Faithful(i, mem.entry[i].text)'
    <3>1. i \in Held(mem) /\ mem'.entry[i] = mem.entry[i] /\ i \in Ids
      BY <1>5 DEF Held
    <3>2. Faithful(i, mem.entry[i].text)
      BY <1>1, <3>1
    <3> QED
      BY <1>5, <3>1, <3>2 DEF Faithful
  <2> QED
    BY <2>1
<1>6. ASSUME UNCHANGED <<issued, tears, puts>> PROVE OnTheWay'
  BY <1>1, <1>4, <1>6
<1>7. ASSUME UNCHANGED <<issued, tears>>, NEW t \in Threads, NEW s \in Seq(FaithfulPuts), puts' = [puts EXCEPT ![t] = s]
      PROVE  OnTheWay'
  BY <1>0, <1>1, <1>4, <1>7
<1>8. ASSUME UNCHANGED <<issued, tears>>, \A f \in Files : disk'[f] # None => disk'[f].map \in Seq(Pairs)
      PROVE  OnDisk'
  BY <1>4, <1>8
<1>9. ASSUME UNCHANGED <<issued, tears, disk>> PROVE OnDisk'
  BY <1>1, <1>4, <1>9
<1>10. ASSUME UNCHANGED <<issued, tears, buf>> PROVE InHand'
  BY <1>1, <1>4, <1>10
<1>11. ASSUME UNCHANGED <<issued, tears>>, NEW c \in Clients, NEW b, b.map \in Seq(Pairs), buf' = [buf EXCEPT ![c] = b]
       PROVE  InHand'
  BY <1>0, <1>1, <1>4, <1>11
<1>12. ASSUME UNCHANGED <<issued, tears>>, UNCHANGED mem PROVE InMemory'
  <2> HIDE DEF InMemory
  <2> QED
    BY <1>5, <1>12
<1> HIDE DEF InMemory, OnTheWay, OnDisk, InHand
<1>13. ASSUME NEW t \in Threads, PutLock(t) \/ PutDone(t) PROVE TextInv'
  BY <1>2, <1>6, <1>9, <1>10, <1>12, <1>13 DEF PutLock, PutDone, threadVars, lookVars, diskVars
<1>14. ASSUME NEW t \in Threads, Put(t) PROVE TextInv'
  <2>1. UNCHANGED <<issued, tears, disk, buf>> /\ puts' = [puts EXCEPT ![t] = Tail(puts[t])]
    BY <1>14 DEF Put, lookVars, diskVars
  <2>2. PICK p \in FaithfulPuts :
          /\ mem'.entry[p.id].text = p.text
          /\ \A j \in Ids : j # p.id => mem'.entry[j] = mem.entry[j]
    BY <1>14, PutEffect
  <2>3. Tail(puts[t]) \in Seq(FaithfulPuts)
    BY <1>14, PutEffect
  <2>4. InMemory'
    <3>1. ASSUME NEW i \in Held(mem)' PROVE Faithful(i, mem.entry[i].text)'
      <4>1. i \in Ids /\ mem'.entry[i] # None
        BY DEF Held
      <4>2. CASE i = p.id
        BY <2>1, <2>2, <4>2 DEF Faithful, FaithfulPuts
      <4>3. CASE i # p.id
        <5>1. i \in Held(mem) /\ mem'.entry[i] = mem.entry[i]
          BY <2>2, <4>1, <4>3 DEF Held
        <5>2. Faithful(i, mem.entry[i].text)
          BY <1>1, <5>1 DEF InMemory
        <5> QED
          BY <2>1, <5>1, <5>2 DEF Faithful
      <4> QED
        BY <4>2, <4>3
    <3> QED
      BY <3>1 DEF InMemory
  <2>5. OnTheWay'
    BY <1>7, <2>1, <2>3
  <2> QED
    BY <1>2, <1>9, <1>10, <2>1, <2>4, <2>5
<1>15. ASSUME NEW t \in Threads, Prune(t) PROVE TextInv'
  <2>1. UNCHANGED <<issued, tears, disk, buf, puts>>
    BY <1>15 DEF Prune, lookVars, diskVars, threadVars
  <2>2. PICK i : mem'.entry = [mem.entry EXCEPT ![i] = None]
    BY <1>15, PruneEffect
  <2>3. \A j \in Ids : mem'.entry[j] # None => mem'.entry[j] = mem.entry[j]
    BY <1>0, <2>2
  <2> QED
    BY <1>2, <1>5, <1>6, <1>9, <1>10, <2>1, <2>3
<1>16. ASSUME NEW w \in Workers, NEW f \in Files, StoreStart(w, f) PROVE TextInv'
  BY <1>2, <1>6, <1>9, <1>10, <1>12, <1>16 DEF StoreStart, lookVars, diskVars
<1>17. ASSUME NEW w \in Workers, NEW f \in Files, LoadCheckpoint(w, f) PROVE TextInv'
  <2>1. UNCHANGED <<issued, tears, mem, disk, buf>> /\ w \in Threads
    BY <1>0, <1>17 DEF LoadCheckpoint, lookVars, diskVars
  <2>2. OnTheWay'
    <3>1. PICK s \in Seq(FaithfulPuts) : puts' = [puts EXCEPT ![w] = s]
      BY <1>17, LoadEffect
    <3> QED
      BY <1>7, <2>1, <3>1
  <2> QED
    BY <1>2, <1>9, <1>10, <1>12, <2>1, <2>2
<1>18. ASSUME NEW w \in Workers, Create(w) \/ Truncate(w) \/ Rewrite(w) \/ WriteFlag(w) PROVE TextInv'
  <2>1. UNCHANGED <<issued, tears, mem, puts, buf>>
    BY <1>18 DEF Create, Truncate, Rewrite, WriteFlag, lookVars
  <2>2. \A f \in Files : disk'[f] # None => disk'[f].map \in Seq(Pairs)
    BY <1>18, DiskEffect
  <2> QED
    BY <1>2, <1>6, <1>8, <1>10, <1>12, <2>1, <2>2
<1>19. ASSUME NEW c \in Clients, (\E ids : Parse(c, ids)) \/ AttachLock(c) \/ AttachDone(c) PROVE TextInv'
  <2>1. UNCHANGED <<issued, tears, mem, puts, buf, disk>>
    BY <1>19 DEF Parse, AttachLock, AttachDone, lookVars, diskVars
  <2> QED
    BY <1>2, <1>6, <1>9, <1>10, <1>12, <2>1
<1>20. ASSUME NEW c \in Clients, NEW f \in Files, ReadFile(c, f) PROVE TextInv'
  <2>1. UNCHANGED <<issued, tears, mem, disk>> /\ c \in Threads
    BY <1>0, <1>20 DEF ReadFile, diskVars
  <2>2. CASE UNCHANGED buf /\ \E s \in Seq(FaithfulPuts) : puts' = [puts EXCEPT ![c] = s]
    BY <1>2, <1>7, <1>9, <1>10, <1>12, <2>1, <2>2
  <2>3. CASE UNCHANGED puts /\ \E map \in Seq(Pairs), k \in Nat :
                                 buf' = [buf EXCEPT ![c] = [file |-> f, map |-> map, cut |-> k]]
    <3>1. PICK map \in Seq(Pairs), k \in Nat : buf' = [buf EXCEPT ![c] = [file |-> f, map |-> map, cut |-> k]]
      BY <2>3
    <3>2. PICK b : b = [file |-> f, map |-> map, cut |-> k]
      OBVIOUS
    <3>3. b.map \in Seq(Pairs) /\ buf' = [buf EXCEPT ![c] = b]
      BY <3>1, <3>2
    <3>4. InHand'
      BY <1>11, <2>1, <3>3
    <3> QED
      BY <1>2, <1>6, <1>9, <1>12, <2>1, <2>3, <3>4
  <2> QED
    BY <1>20, <2>2, <2>3, ReadEffect
<1>21. ASSUME NEW c \in Clients, ReadRest(c) PROVE TextInv'
  <2>1. UNCHANGED <<issued, tears, mem, disk>> /\ c \in Threads
    BY <1>0, <1>21 DEF ReadRest, diskVars
  <2>2. (\E s \in Seq(FaithfulPuts) : puts' = [puts EXCEPT ![c] = s]) /\ buf' = [buf EXCEPT ![c] = NoBuf]
    BY <1>21, RestEffect
  <2>3. NoBuf.map \in Seq(Pairs)
    BY DEF NoBuf
  <2>4. InHand'
    BY <1>11, <2>1, <2>2, <2>3
  <2>5. OnTheWay'
    BY <1>7, <2>1, <2>2
  <2> QED
    BY <1>2, <1>9, <1>12, <2>1, <2>4, <2>5
<1>22. ASSUME NEW c \in Clients, Lookup(c) PROVE TextInv'
  <2>1. UNCHANGED <<issued, tears, puts, buf, disk>>
    BY <1>22 DEF Lookup, diskVars, threadVars
  <2>2. mem'.entry = mem.entry
    BY <1>22, LookupEffect
  <2> QED
    BY <1>2, <1>5, <1>6, <1>9, <1>10, <2>1, <2>2
<1>23. ASSUME NEW f \in Files, RemoveFile(f) PROVE TextInv'
  <2>1. UNCHANGED <<issued, tears, mem, puts>>
    BY <1>23 DEF RemoveFile, threadVars
  <2>2. \A g \in Files : disk'[g] # None => disk'[g].map \in Seq(Pairs)
    BY <1>1, <1>23, RemoveEffect DEF OnDisk
  <2>3. \A c \in Clients : buf'[c].map \in Seq(Pairs)
    BY <1>1, <1>23, RemoveEffect DEF InHand
  <2>4. InHand'
    BY <1>4, <2>1, <2>3 DEF InHand
  <2> QED
    BY <1>2, <1>6, <1>8, <1>12, <2>1, <2>2, <2>4
<1>24. ASSUME NEW f \in Files, TouchRead(f) PROVE TextInv'
  BY <1>2, <1>6, <1>9, <1>10, <1>12, <1>24 DEF TouchRead, threadVars, lookVars
<1>25. CASE TouchWrite
  <2>1. UNCHANGED <<issued, tears, mem, puts, buf>>
    BY <1>25 DEF TouchWrite, threadVars, lookVars
  <2>2. \A f \in Files : disk'[f] # None => disk'[f].map \in Seq(Pairs)
    BY <1>25, DiskEffect
  <2> QED
    BY <1>2, <1>6, <1>8, <1>10, <1>12, <2>1, <2>2
<1>26. CASE Restart
  <2>1. /\ UNCHANGED <<issued, tears, disk>>
        /\ mem' = Empty /\ puts' = [t \in Threads |-> <<>>] /\ buf' = [c \in Clients |-> NoBuf]
    BY <1>26 DEF Restart, diskVars
  <2>2. \A i \in Ids : mem'.entry[i] = None
    BY <2>1 DEF Empty
  <2>3. InMemory'
    BY <1>5, <2>1, <2>2
  <2>4. OnTheWay'
    BY <2>1 DEF OnTheWay
  <2>5. InHand'
    <3>1. \A c \in Clients : buf'[c].map = <<>>
      BY <2>1 DEF NoBuf
    <3>2. <<>> \in Seq(Pairs)
      OBVIOUS
    <3> QED
      BY <1>4, <2>1, <3>1, <3>2 DEF InHand
  <2> QED
    BY <1>2, <1>9, <2>1, <2>3, <2>4, <2>5
<1>27. CASE UNCHANGED vars
  BY <1>2, <1>6, <1>9, <1>10, <1>12, <1>27 DEF vars, threadVars, lookVars, diskVars
<1> QED
  BY <1>3, <1>13, <1>14, <1>15, <1>16, <1>17, <1>18, <1>19, <1>20, <1>21, <1>22, <1>23, <1>24, <1>25, <1>26, <1>27 DEF Next

(* The types.                                                              *)
LEMMA TypeStep ==
    ASSUME IInv, [Next]_vars, Sound(mem)'
    PROVE  TypeOK'
<1> DEFINE Steps == {"idle", "put", "prune_ram", "prune_disk", "create", "truncate",
                     "rewrite", "flag", "scan", "read", "attach"}
           Bufs == [file : Files \cup {None}, map : Seq([id : Ids, text : Strings]), cut : Nat]
           TM == /\ mem.entry \in [Ids -> EntryRecords \cup {None}]
                 /\ mem.block \in [Strings -> BlockRecords \cup {None}]
                 /\ mem.lru \in Seq(Ids) /\ mem.bytes \in Nat /\ mem.entries \in Nat
           TT == mu \in Threads \cup {None} /\ pc \in [Threads -> Steps] /\ puts \in [Threads -> Seq(Puts)]
           TL == /\ calls \in [Clients -> Seq(Ids)] /\ message \in [Clients -> SUBSET Ids]
                 /\ matched \in [Clients -> Strings \cup {None}] /\ exact \in [Clients -> BOOLEAN]
                 /\ scan \in [Clients -> SUBSET Files]
           TB == buf \in [Clients -> Bufs]
           TA == answer \in [ids : SUBSET Ids, text : Strings \cup {None}]
           TS == file \in [Workers -> Files \cup {None}] /\ est \in [Workers -> BOOLEAN]
           TD == tears \in BOOLEAN /\ disk \in [Files -> FileRecords \cup {None}] /\ touch \in TouchRecords \cup {None}
           TI == issued \in [Ids -> Strings \cup {None}]
<1>0. TM /\ TT /\ TL /\ TB /\ TA /\ TS /\ TD /\ TI
  BY DEF IInv, TypeOK
<1>1. TM'
  BY DEF Sound, Memories
<1>2. ASSUME TT', TL', TB', TA', TS', TD', TI' PROVE TypeOK'
  BY <1>1, <1>2 DEF TypeOK
<1>3. Workers \subseteq Threads /\ Clients \subseteq Threads
  BY DEF Threads
<1>4. ASSUME UNCHANGED threadVars, UNCHANGED mu PROVE TT'
  BY <1>0, <1>4 DEF threadVars
<1>5. /\ UNCHANGED lookVars => TL' /\ TB' /\ TA'
      /\ UNCHANGED storeVars => TS'
      /\ UNCHANGED diskVars => TD'
      /\ UNCHANGED issued => TI'
      /\ UNCHANGED <<calls, message, matched, exact, scan>> => TL'
      /\ UNCHANGED buf => TB'
      /\ UNCHANGED answer => TA'
  BY <1>0 DEF lookVars, storeVars, diskVars
<1>6. ASSUME NEW t \in Threads, NEW step \in Steps, Goto(t, step), mu' \in Threads \cup {None},
             UNCHANGED puts \/ \E s \in Seq(FaithfulPuts) : puts' = [puts EXCEPT ![t] = s]
      PROVE  TT'
  <2>1. pc' \in [Threads -> Steps]
    BY <1>0, <1>6 DEF Goto
  <2>2. puts' \in [Threads -> Seq(Puts)]
    <3>1. CASE UNCHANGED puts
      BY <1>0, <3>1
    <3>2. CASE \E s \in Seq(FaithfulPuts) : puts' = [puts EXCEPT ![t] = s]
      <4>1. PICK s \in Seq(Puts) : puts' = [puts EXCEPT ![t] = s]
        BY <3>2, PairsTyped
      <4> QED
        BY <1>0, <4>1
    <3> QED
      BY <1>6, <3>1, <3>2
  <2> QED
    BY <1>6, <2>1, <2>2
<1>7. ASSUME NEW w \in Workers, StoreReturn(w) PROVE TS'
  BY <1>0, <1>7 DEF StoreReturn
<1>8. ASSUME NEW c \in Clients, NEW b \in Bufs, buf' = [buf EXCEPT ![c] = b] PROVE TB'
  <2> HIDE DEF Bufs
  <2> QED
    BY <1>0, <1>8
<1>9. mu \in Threads \cup {None}
  BY <1>0
<1>10. ASSUME UNCHANGED <<tears, touch>>, disk' \in [Files -> FileRecords \cup {None}] PROVE TD'
  BY <1>0, <1>10
<1> HIDE DEF TM, TT, TL, TB, TA, TS, TD, TI
<1>11. ASSUME NEW t \in Threads, PutLock(t) PROVE TypeOK'
  <2>1. TT'
    BY <1>0, <1>11 DEF PutLock, Lock, threadVars, TT
  <2> QED
    BY <1>2, <1>5, <1>11, <2>1 DEF PutLock
<1>12. ASSUME NEW t \in Threads, Put(t) PROVE TypeOK'
  <2>1. PICK step \in Steps : Goto(t, step)
    BY <1>12 DEF Put
  <2>2. Tail(puts[t]) \in Seq(FaithfulPuts) /\ puts' = [puts EXCEPT ![t] = Tail(puts[t])] /\ mu' = mu
    BY <1>12, PutEffect DEF Put
  <2>3. TT'
    <3> HIDE DEF Steps
    <3> QED
      BY <1>6, <1>9, <2>1, <2>2
  <2> QED
    BY <1>2, <1>5, <1>12, <2>3 DEF Put
<1>13. ASSUME NEW t \in Threads, Prune(t) PROVE TypeOK'
  BY <1>2, <1>4, <1>5, <1>13 DEF Prune
<1>14. ASSUME NEW t \in Threads, PutDone(t) PROVE TypeOK'
  <2>1. PICK step : /\ Goto(t, step)
                    /\ step = CASE puts[t] # <<>> -> "put"
                                [] puts[t] = <<>> /\ t \in Workers -> "idle"
                                [] puts[t] = <<>> /\ t \in Clients -> "scan"
    BY <1>14 DEF PutDone
  <2>2. puts[t] # <<>> \/ (puts[t] = <<>> /\ t \in Workers) \/ (puts[t] = <<>> /\ t \in Clients)
    BY DEF Threads
  <2>3. step \in Steps
    BY <2>1, <2>2
  <2>4. mu' \in Threads \cup {None} /\ UNCHANGED puts
    BY <1>14 DEF PutDone
  <2>5. TT'
    <3> HIDE DEF Steps
    <3> QED
      BY <1>6, <2>1, <2>3, <2>4
  <2> QED
    BY <1>2, <1>5, <1>14, <2>5 DEF PutDone
<1>15. ASSUME NEW w \in Workers, NEW ids \in CallLists, NEW t \in Texts, Remember(w, ids, t) PROVE TypeOK'
  <2>1. ids \in Seq(Ids) /\ Whole(t) \in Strings
    BY DEF CallLists, Whole, Strings
  <2>2. TI'
    <3>1. PICK x \in Strings : x = Whole(t)
      BY <2>1
    <3>2. issued' = [i \in Ids |-> IF \E k \in 1 .. Len(ids) : ids[k] = i THEN x ELSE issued[i]]
      BY <1>15, <3>1 DEF Remember
    <3> QED
      BY <1>0, <3>2 DEF TI
  <2>3. TT'
    <3>1. PICK x \in Strings : x = Whole(t)
      BY <2>1
    <3>2. PICK q : q = [k \in 1 .. Len(ids) |-> [id |-> ids[k], text |-> x, source |-> "ram"]]
      OBVIOUS
    <3>3. \A k \in 1 .. Len(ids) : [id |-> ids[k], text |-> x, source |-> "ram"] \in Puts
      BY <2>1 DEF Puts, Sources
    <3>4. q \in Seq(Puts)
      BY <2>1, <3>2, <3>3
    <3>5. puts' = [puts EXCEPT ![w] = q] /\ pc' = [pc EXCEPT ![w] = "put"] /\ mu' = w
      BY <1>15, <3>1, <3>2 DEF Remember, Lock, Goto
    <3> QED
      BY <1>0, <1>3, <3>4, <3>5 DEF TT
  <2> QED
    BY <1>2, <1>5, <1>15, <2>2, <2>3 DEF Remember
<1>16. ASSUME NEW w \in Workers, NEW f \in Files, StoreStart(w, f) PROVE TypeOK'
  <2>1. PICK step \in Steps : Goto(w, step)
    BY <1>16 DEF StoreStart
  <2>2. TT'
    <3> HIDE DEF Steps
    <3> QED
      BY <1>3, <1>6, <1>9, <1>16, <2>1 DEF StoreStart
  <2>3. TS'
    BY <1>0, <1>16 DEF StoreStart, TS
  <2> QED
    BY <1>2, <1>5, <1>16, <2>2, <2>3 DEF StoreStart
<1>17. ASSUME NEW w \in Workers, NEW f \in Files, LoadCheckpoint(w, f) PROVE TypeOK'
  <2>1. Goto(w, "put") /\ "put" \in Steps /\ w \in Threads /\ mu' \in Threads \cup {None}
    BY <1>3, <1>9, <1>17 DEF LoadCheckpoint
  <2>2. \E s \in Seq(FaithfulPuts) : puts' = [puts EXCEPT ![w] = s]
    BY <1>17, LoadEffect
  <2>3. TT'
    <3> HIDE DEF Steps
    <3> QED
      BY <1>6, <2>1, <2>2
  <2> QED
    BY <1>2, <1>5, <1>17, <2>3 DEF LoadCheckpoint
<1>18. ASSUME NEW w \in Workers, Create(w) \/ Truncate(w) \/ Rewrite(w) \/ WriteFlag(w) PROVE TypeOK'
  <2>1. PICK step \in Steps : Goto(w, step)
    BY <1>18 DEF Create, Truncate, Rewrite, WriteFlag, StoreReturn
  <2>2. UNCHANGED <<puts, mu, tears, touch, issued>> /\ UNCHANGED lookVars
    BY <1>18 DEF Create, Truncate, Rewrite, WriteFlag
  <2>3. TT'
    <3> HIDE DEF Steps
    <3> QED
      BY <1>3, <1>6, <1>9, <2>1, <2>2
  <2>4. StoreReturn(w) \/ UNCHANGED storeVars
    BY <1>18 DEF Create, Truncate, Rewrite, WriteFlag
  <2>5. disk' \in [Files -> FileRecords \cup {None}]
    BY <1>18, DiskEffect
  <2> QED
    BY <1>2, <1>5, <1>7, <1>10, <2>2, <2>3, <2>4, <2>5
<1>19. ASSUME NEW c \in Clients, NEW ids \in CallLists, Parse(c, ids) PROVE TypeOK'
  <2>1. ids \in Seq(Ids)
    BY DEF CallLists
  <2>2. PICK m \in SUBSET Ids : m = {ids[k] : k \in 1 .. Len(ids)}
    <3>1. \A k \in 1 .. Len(ids) : ids[k] \in Ids
      BY <2>1
    <3>2. {ids[k] : k \in 1 .. Len(ids)} \subseteq Ids
      BY <3>1
    <3> QED
      BY <3>2
  <2>3. /\ calls' = [calls EXCEPT ![c] = ids] /\ message' = [message EXCEPT ![c] = m]
        /\ scan' = [scan EXCEPT ![c] = Files] /\ UNCHANGED <<matched, exact>>
    BY <1>19, <2>2 DEF Parse
  <2>4. TL'
    BY <1>0, <2>1, <2>3 DEF TL
  <2>5. Goto(c, "scan") /\ "scan" \in Steps /\ c \in Threads /\ UNCHANGED <<mu, puts>>
    BY <1>3, <1>19 DEF Parse
  <2>6. TT'
    <3> HIDE DEF Steps
    <3> QED
      BY <1>6, <1>9, <2>5
  <2> QED
    BY <1>2, <1>5, <1>19, <2>4, <2>6 DEF Parse
<1>20. ASSUME NEW c \in Clients, NEW f \in Files, ReadFile(c, f) PROVE TypeOK'
  <2>1. PICK step \in Steps : Goto(c, step)
    BY <1>20, ReadEffect
  <2>2. TT'
    <3> HIDE DEF Steps
    <3>1. UNCHANGED mu /\ c \in Threads
      BY <1>3, <1>20 DEF ReadFile
    <3>2. UNCHANGED puts \/ \E s \in Seq(FaithfulPuts) : puts' = [puts EXCEPT ![c] = s]
      BY <1>20, ReadEffect
    <3> QED
      BY <1>6, <1>9, <2>1, <3>1, <3>2
  <2>3. TB'
    <3>1. CASE UNCHANGED buf
      BY <1>5, <3>1
    <3>2. CASE ~UNCHANGED buf
      <4>1. PICK map \in Seq(Pairs), k \in Nat : buf' = [buf EXCEPT ![c] = [file |-> f, map |-> map, cut |-> k]]
        BY <1>20, <3>2, ReadEffect
      <4>2. PICK b : b = [file |-> f, map |-> map, cut |-> k]
        OBVIOUS
      <4>3. b \in Bufs
        BY <4>2, PairsTyped
      <4> HIDE DEF Bufs
      <4> QED
        BY <1>8, <4>1, <4>2, <4>3
    <3> QED
      BY <3>1, <3>2
  <2>4. TL'
    <3>1. scan' = [scan EXCEPT ![c] = @ \ {f}] /\ UNCHANGED <<calls, message, matched, exact>>
      BY <1>20 DEF ReadFile
    <3> QED
      BY <1>0, <3>1 DEF TL
  <2> QED
    BY <1>2, <1>5, <1>20, <2>2, <2>3, <2>4 DEF ReadFile
<1>21. ASSUME NEW c \in Clients, ReadRest(c) PROVE TypeOK'
  <2>1. PICK step \in Steps : Goto(c, step)
    BY <1>21, RestEffect
  <2>2. (\E s \in Seq(FaithfulPuts) : puts' = [puts EXCEPT ![c] = s]) /\ buf' = [buf EXCEPT ![c] = NoBuf]
    BY <1>21, RestEffect
  <2>3. UNCHANGED mu /\ c \in Threads
    BY <1>3, <1>21 DEF ReadRest
  <2>4. TT'
    <3> HIDE DEF Steps
    <3> QED
      BY <1>6, <1>9, <2>1, <2>2, <2>3
  <2>5. NoBuf \in Bufs
    BY DEF NoBuf
  <2>6. TB'
    <3> HIDE DEF Bufs
    <3> QED
      BY <1>8, <2>2, <2>5
  <2> QED
    BY <1>2, <1>5, <1>21, <2>4, <2>6 DEF ReadRest
<1>22. ASSUME NEW c \in Clients, AttachLock(c) PROVE TypeOK'
  <2>1. Goto(c, "attach") /\ "attach" \in Steps /\ c \in Threads /\ mu' = c /\ UNCHANGED puts
    BY <1>3, <1>22 DEF AttachLock, Lock
  <2>2. TT'
    <3> HIDE DEF Steps
    <3> QED
      BY <1>6, <2>1
  <2> QED
    BY <1>2, <1>5, <1>22, <2>2 DEF AttachLock
<1>23. ASSUME NEW c \in Clients, Lookup(c) PROVE TypeOK'
  <2>1. PICK i : i = Head(calls[c])
    OBVIOUS
  <2>2. PICK found : found = mem.entry[i]
    OBVIOUS
  <2>3. calls[c] \in Seq(Ids) /\ calls[c] # <<>>
    BY <1>0, <1>23 DEF Lookup, TL
  <2>4. i \in Ids /\ Tail(calls[c]) \in Seq(Ids)
    BY <2>1, <2>3, HeadTailProperties
  <2>5. found # None => found.text \in Strings
    <3>1. found # None => found \in EntryRecords
      BY <1>0, <2>2, <2>4 DEF TM
    <3> QED
      BY <3>1 DEF EntryRecords
  <2>7. PICK x : x = IF matched[c] = None /\ found # None THEN found.text ELSE matched[c]
    OBVIOUS
  <2>8. x \in Strings \cup {None}
    BY <1>0, <2>5, <2>7 DEF TL
  <2>9. exact' \in [Clients -> BOOLEAN]
    <3>1. exact' = [exact EXCEPT ![c] = exact[c] /\ found # None /\ matched[c] \in {None, found.text}]
      BY <1>23, <2>1, <2>2 DEF Lookup
    <3>2. (exact[c] /\ found # None /\ matched[c] \in {None, found.text}) \in BOOLEAN
      OBVIOUS
    <3>3. exact \in [Clients -> BOOLEAN]
      BY <1>0 DEF TL
    <3> QED
      BY <3>1, <3>2, <3>3, Zenon
  <2>10. matched' = [matched EXCEPT ![c] = x] /\ calls' = [calls EXCEPT ![c] = Tail(calls[c])]
    BY <1>23, <2>1, <2>2, <2>7 DEF Lookup
  <2>11. UNCHANGED <<message, scan>>
    BY <1>23 DEF Lookup
  <2>12. TL'
    BY <1>0, <2>4, <2>8, <2>9, <2>10, <2>11 DEF TL
  <2> QED
    BY <1>2, <1>4, <1>5, <1>23, <2>12 DEF Lookup
<1>24. ASSUME NEW c \in Clients, AttachDone(c) PROVE TypeOK'
  <2>1. Goto(c, "idle") /\ "idle" \in Steps /\ c \in Threads /\ mu' = None /\ UNCHANGED puts
    BY <1>3, <1>24 DEF AttachDone
  <2>2. TT'
    <3> HIDE DEF Steps
    <3> QED
      BY <1>6, <2>1
  <2>3. TL'
    <3>1. /\ message' = [message EXCEPT ![c] = {}]
          /\ matched' = [matched EXCEPT ![c] = None]
          /\ exact' = [exact EXCEPT ![c] = TRUE]
          /\ UNCHANGED <<calls, scan>>
      BY <1>24 DEF AttachDone
    <3> QED
      BY <1>0, <3>1 DEF TL
  <2>4. TA'
    <3>1. PICK x : x = IF exact[c] THEN matched[c] ELSE None
      OBVIOUS
    <3>2. x \in Strings \cup {None} /\ message[c] \in SUBSET Ids
      BY <1>0, <3>1 DEF TL
    <3>3. answer' = [ids |-> message[c], text |-> x]
      BY <1>24, <3>1 DEF AttachDone
    <3> QED
      BY <3>2, <3>3 DEF TA
  <2> QED
    BY <1>2, <1>5, <1>24, <2>2, <2>3, <2>4 DEF AttachDone
<1>25. ASSUME NEW f \in Files, RemoveFile(f) PROVE TypeOK'
  <2>1. TB'
    BY <1>25, RemoveEffect DEF TB
  <2>2. TD'
    <3>1. disk' \in [Files -> FileRecords \cup {None}]
      BY <1>25, RemoveEffect
    <3>2. UNCHANGED tears /\ touch' \in {touch, None}
      BY <1>25 DEF RemoveFile
    <3> QED
      BY <1>0, <3>1, <3>2 DEF TD
  <2> QED
    BY <1>2, <1>4, <1>5, <1>25, <2>1, <2>2 DEF RemoveFile
<1>26. ASSUME NEW f \in Files, TouchRead(f) PROVE TypeOK'
  <2>1. disk[f] \in FileRecords /\ touch' = [file |-> f, flag |-> disk[f].flag] /\ UNCHANGED <<tears, disk>>
    BY <1>0, <1>26 DEF TouchRead, TD
  <2>2. touch' \in TouchRecords
    BY <2>1 DEF TouchRecords, FileRecords
  <2>3. TD'
    BY <1>0, <2>1, <2>2 DEF TD
  <2> QED
    BY <1>2, <1>4, <1>5, <1>26, <2>3 DEF TouchRead
<1>27. CASE TouchWrite
  <2>1. disk' \in [Files -> FileRecords \cup {None}]
    BY <1>27, DiskEffect
  <2>2. TD'
    BY <1>0, <1>27, <2>1 DEF TouchWrite, TD
  <2> QED
    BY <1>2, <1>4, <1>5, <1>27, <2>2 DEF TouchWrite
<1>28. CASE Restart
  <2>1. TT'
    BY <1>28 DEF Restart, TT
  <2>2. TL'
    BY <1>28 DEF Restart, TL
  <2>3. TB'
    <3>1. NoBuf \in Bufs
      BY DEF NoBuf
    <3> HIDE DEF Bufs
    <3> QED
      BY <1>28, <3>1 DEF Restart, TB
  <2>4. TS'
    BY <1>28 DEF Restart, TS
  <2> QED
    BY <1>2, <1>5, <1>28, <2>1, <2>2, <2>3, <2>4 DEF Restart
<1>29. CASE UNCHANGED vars
  BY <1>2, <1>4, <1>5, <1>29 DEF vars
<1> QED
  BY <1>11, <1>12, <1>13, <1>14, <1>15, <1>16, <1>17, <1>18, <1>19, <1>20, <1>21, <1>22, <1>23, <1>24,
     <1>25, <1>26, <1>27, <1>28, <1>29 DEF Next

-----------------------------------------------------------------------------
(* The theorems.                                                           *)

LEMMA InitIInv == Init => IInv
<1> SUFFICES ASSUME Init PROVE IInv
  OBVIOUS
<1>1. mem = Empty /\ Sound(mem)
  BY EmptySound DEF Init
<1>2. Held(mem) = {} /\ mem.entries = 0 /\ mem.bytes = 0
  BY <1>1 DEF Held, Empty
<1>3. TypeOK
  <2>1. /\ mem.entry \in [Ids -> EntryRecords \cup {None}]
        /\ mem.block \in [Strings -> BlockRecords \cup {None}]
        /\ mem.lru \in Seq(Ids) /\ mem.bytes \in Nat /\ mem.entries \in Nat
    BY <1>1 DEF Sound, Memories
  <2>2. /\ mu \in Threads \cup {None}
        /\ pc \in [Threads -> {"idle", "put", "prune_ram", "prune_disk", "create", "truncate",
                               "rewrite", "flag", "scan", "read", "attach"}]
        /\ puts \in [Threads -> Seq(Puts)]
    BY DEF Init
  <2>3. /\ calls \in [Clients -> Seq(Ids)] /\ message \in [Clients -> SUBSET Ids]
        /\ matched \in [Clients -> Strings \cup {None}] /\ exact \in [Clients -> BOOLEAN]
        /\ scan \in [Clients -> SUBSET Files]
    BY DEF Init
  <2>4. buf \in [Clients -> [file : Files \cup {None}, map : Seq([id : Ids, text : Strings]), cut : Nat]]
    BY DEF Init, NoBuf
  <2>5. /\ file \in [Workers -> Files \cup {None}] /\ est \in [Workers -> BOOLEAN]
        /\ disk \in [Files -> FileRecords \cup {None}]
        /\ touch \in TouchRecords \cup {None}
        /\ issued \in [Ids -> Strings \cup {None}]
    BY DEF Init
  <2>6. tears \in BOOLEAN
    BY LimitAssumption DEF Init
  <2>7. answer \in [ids : SUBSET Ids, text : Strings \cup {None}]
    BY DEF Init
  <2> QED
    BY <2>1, <2>2, <2>3, <2>4, <2>5, <2>6, <2>7 DEF TypeOK
<1>4. TextInv
  <2>1. \A t \in Threads : puts[t] \in Seq(FaithfulPuts)
    BY DEF Init
  <2>2. \A f \in Files : disk[f] = None
    BY DEF Init
  <2>3. \A c \in Clients : buf[c].map \in Seq(Pairs)
    <3>1. \A c \in Clients : buf[c].map = <<>>
      BY DEF Init, NoBuf
    <3>2. <<>> \in Seq(Pairs)
      OBVIOUS
    <3> QED
      BY <3>1, <3>2
  <2> QED
    BY <1>2, <2>1, <2>2, <2>3 DEF TextInv
<1>5. FileInv
  BY DEF Init, FileInv, NoBuf, Threads
<1>6. LockInv
  <2>1. \A t \in Threads : pc[t] = "idle"
    BY DEF Init
  <2> QED
    BY <1>2, <2>1, LimitAssumption DEF LockInv
<1>7. LookInv
  <2>1. \A c \in Clients : pc[c] = "idle" /\ message[c] = {} /\ matched[c] = None /\ exact[c] = TRUE
    BY DEF Init, Threads
  <2> QED
    BY <2>1 DEF LookInv
<1> QED
  BY <1>1, <1>3, <1>4, <1>5, <1>6, <1>7 DEF IInv

(* Every state of the tool memory satisfies the inductive invariant.       *)
THEOREM Invariance == Spec => []IInv
<1>1. IInv /\ [Next]_vars => IInv'
  <2> SUFFICES ASSUME IInv, [Next]_vars PROVE IInv'
    OBVIOUS
  <2>1. Sound(mem)'
    BY SoundStep
  <2>2. TypeOK' /\ TextInv' /\ FileInv' /\ LockInv' /\ LookInv'
    BY <2>1, TypeStep, TextStep, FileStep, LockStep, LookStep
  <2> QED
    BY <2>1, <2>2 DEF IInv
<1> QED
  BY <1>1, InitIInv, PTL DEF Spec

(* The list and the index name the same entries, each once, and the        *)
(* counters that tool_memory_put_locked and tool_memory_remove_entry_locked *)
(* keep up to date count exactly the entries and the blocks there are.     *)
THEOREM Accounting == Spec => []AccountingExact
<1>1. IInv => AccountingExact
  <2> SUFFICES ASSUME IInv PROVE AccountingExact
    OBVIOUS
  <2>1. ListOK(mem) /\ CountOK(mem)
    BY DEF IInv, Sound
  <2>2. Held(mem) = Present /\ Live(mem) = Blocks
    BY DEF Held, Present, Live, Blocks
  <2> QED
    BY <2>1, <2>2 DEF ListOK, CountOK, AccountingExact, Weight
<1> QED
  BY <1>1, Invariance, PTL

(* tool_memory_release_block_locked frees a block exactly when the last    *)
(* entry of its text goes, and the list of a block names its entries.      *)
THEOREM BlocksLive == Spec => []BlocksCounted
<1>1. IInv => BlocksCounted
  <2> SUFFICES ASSUME IInv PROVE BlocksCounted
    OBVIOUS
  <2>1. BlockOK(mem)
    BY DEF IInv, Sound
  <2>2. Held(mem) = Present /\ Live(mem) = Blocks /\ \A s : Users(mem, s) = {i \in Present : mem.entry[i].text = s}
    BY DEF Held, Present, Live, Blocks, Users
  <2> QED
    BY <2>1, <2>2 DEF BlockOK, BlocksCounted
<1> QED
  BY <1>1, Invariance, PTL

(* tool_memory_prune_locked ends within both limits, and nobody gets       *)
(* tool_mu before it has.                                                  *)
THEOREM Limits == Spec => []WithinLimits
<1>1. IInv => WithinLimits
  <2> SUFFICES ASSUME IInv, mu = None PROVE mem.entries <= MaxEntries /\ mem.bytes <= MaxBytes
    BY DEF WithinLimits
  <2>1. ~(mem.entries > MaxEntries \/ mem.bytes > MaxBytes)
    BY ThreadAssumption DEF IInv, LockInv, Threads
  <2> QED
    BY <2>1, LimitAssumption DEF IInv, TypeOK
<1> QED
  BY <1>1, Invariance, PTL

-----------------------------------------------------------------------------
(* The refinement: lists, blocks, limits, files, tears and restarts add    *)
(* nothing a client can see to what ReplayMap promises.                    *)

LEMMA KnownSame ==
    ASSUME mem'.entry = mem.entry
    PROVE  Known' = Known
BY DEF Known

LEMMA RefineInit == Init => Promise!Init
<1> SUFFICES ASSUME Init PROVE Promise!Init
  OBVIOUS
<1>1. \A i \in Ids : mem.entry[i] = None
  BY DEF Init, Empty
<1>2. Known = [i \in Ids |-> None]
  BY <1>1 DEF Known
<1> QED
  BY <1>2, LimitAssumption DEF Init, Promise!Init

LEMMA RefineStep ==
    ASSUME IInv, [Next]_vars
    PROVE  Promise!Next \/ UNCHANGED <<issued, tears, Known, answer>>
<1>0. /\ mem.entry \in [Ids -> EntryRecords \cup {None}]
      /\ matched \in [Clients -> Strings \cup {None}] /\ message \in [Clients -> SUBSET Ids]
      /\ \A i \in Ids : Known[i] = IF mem.entry[i] = None THEN None ELSE mem.entry[i].text
      /\ Known = [i \in Ids |-> Known[i]]
      /\ Known' = [i \in Ids |-> IF mem'.entry[i] = None THEN None ELSE mem'.entry[i].text]
  BY DEF IInv, TypeOK, Known
<1>1. ASSUME UNCHANGED <<mem, issued, tears, answer>> PROVE UNCHANGED <<issued, tears, Known, answer>>
  BY <1>1 DEF Known
<1>2. ASSUME NEW t \in Threads, Put(t) PROVE Promise!Next
  <2>1. UNCHANGED <<issued, tears, answer>>
    BY <1>2 DEF Put, lookVars, diskVars
  <2>2. PICK p \in FaithfulPuts :
          /\ p.id \in Held(mem)' /\ mem'.entry[p.id].text = p.text
          /\ \A j \in Ids : j # p.id => mem'.entry[j] = mem.entry[j]
    BY <1>2, PutEffect
  <2>3. p.id \in Ids /\ p.text \in Strings /\ Faithful(p.id, p.text)
    BY DEF FaithfulPuts, Puts
  <2>4. Known' = [Known EXCEPT ![p.id] = p.text]
    <3>1. mem'.entry[p.id] # None
      BY <2>2 DEF Held
    <3> QED
      BY <1>0, <2>2, <2>3, <3>1
  <2>5. Promise!Know(p.id, p.text)
    BY <2>1, <2>3, <2>4 DEF Promise!Know, Faithful
  <2> QED
    BY <2>3, <2>5 DEF Promise!Next
<1>3. ASSUME NEW t \in Threads, Prune(t) PROVE Promise!Next
  <2>1. UNCHANGED <<issued, tears, answer>>
    BY <1>3 DEF Prune, lookVars, diskVars
  <2>2. PICK i \in Held(mem) : mem'.entry = [mem.entry EXCEPT ![i] = None]
    BY <1>3, PruneEffect
  <2>3. i \in Ids
    BY DEF Held
  <2>4. Known' = [j \in Ids |-> IF j \in {i} THEN None ELSE Known[j]]
    BY <1>0, <2>2, <2>3
  <2>5. Promise!Forget({i}) /\ {i} \in SUBSET Ids
    BY <2>1, <2>3, <2>4 DEF Promise!Forget
  <2> QED
    BY <2>5 DEF Promise!Next
<1>4. ASSUME NEW w \in Workers, NEW ids \in CallLists, NEW t \in Texts, Remember(w, ids, t) PROVE Promise!Next
  <2>1. ids \in Seq(Ids) /\ Whole(t) \in Strings
    BY DEF CallLists, Whole, Strings
  <2>2. PICK new \in SUBSET Ids : new = {i \in Ids : \E k \in 1 .. Len(ids) : ids[k] = i}
    OBVIOUS
  <2>3. UNCHANGED <<tears, Known, answer>>
    BY <1>4 DEF Remember, lookVars, diskVars, Known
  <2>4. \A i \in new : issued[i] = None
    BY <1>4, <2>2 DEF Remember
  <2>5. PICK x \in Strings : x = Whole(t)
    BY <2>1
  <2>6. issued' = [i \in Ids |-> IF i \in new THEN x ELSE issued[i]]
    BY <1>4, <2>2, <2>5 DEF Remember
  <2>7. Promise!Issue(new, x)
    BY <2>3, <2>4, <2>6 DEF Promise!Issue
  <2> QED
    BY <2>7 DEF Promise!Next
<1>5. ASSUME NEW c \in Clients, Lookup(c) PROVE UNCHANGED <<issued, tears, Known, answer>>
  BY <1>5, LookupEffect, KnownSame DEF Lookup, diskVars
<1>6. ASSUME NEW c \in Clients, AttachDone(c) PROVE Promise!Next
  <2>1. UNCHANGED <<issued, tears, Known>> /\ pc[c] = "attach" /\ calls[c] = <<>>
    BY <1>6 DEF AttachDone, diskVars, Known
  <2>2. PICK x : x = IF exact[c] THEN matched[c] ELSE None
    OBVIOUS
  <2>3. x \in Strings \cup {None} /\ message[c] \in SUBSET Ids /\ message[c] # {}
    BY <1>0, <2>1, <2>2 DEF IInv, LookInv
  <2>4. ASSUME x # None, NEW i \in message[c] PROVE Known[i] = x
    <3>1. exact[c] /\ x = matched[c]
      BY <2>2, <2>4
    <3>2. Range(calls[c]) = {}
      BY <2>1 DEF Range
    <3>3. i \in Held(mem) /\ mem.entry[i].text = matched[c]
      BY <2>1, <3>1, <3>2 DEF IInv, LookInv
    <3> QED
      BY <1>0, <3>1, <3>3 DEF Held
  <2>5. answer' = [ids |-> message[c], text |-> x]
    BY <1>6, <2>2 DEF AttachDone
  <2>6. Promise!Answer(message[c], x)
    BY <2>1, <2>3, <2>4, <2>5 DEF Promise!Answer
  <2> QED
    BY <2>3, <2>6 DEF Promise!Next
<1>7. CASE Restart
  <2>1. UNCHANGED <<issued, tears, answer>> /\ \A i \in Ids : mem'.entry[i] = None
    BY <1>7 DEF Restart, Empty, diskVars
  <2>2. Known' = [j \in Ids |-> IF j \in Ids THEN None ELSE Known[j]]
    BY <1>0, <2>1
  <2>3. Promise!Forget(Ids)
    BY <2>1, <2>2 DEF Promise!Forget
  <2> QED
    BY <2>3 DEF Promise!Next
<1>8. ASSUME NEW t \in Threads, PutLock(t) \/ PutDone(t) PROVE UNCHANGED <<issued, tears, Known, answer>>
  BY <1>1, <1>8 DEF PutLock, PutDone, lookVars, diskVars
<1>9. ASSUME NEW w \in Workers,
             \/ \E f \in Files : StoreStart(w, f) \/ LoadCheckpoint(w, f)
             \/ Create(w) \/ Truncate(w) \/ Rewrite(w) \/ WriteFlag(w)
      PROVE  UNCHANGED <<issued, tears, Known, answer>>
  BY <1>1, <1>9 DEF StoreStart, LoadCheckpoint, Create, Truncate, Rewrite, WriteFlag, lookVars, diskVars
<1>10. ASSUME NEW c \in Clients,
              (\E ids : Parse(c, ids)) \/ (\E f \in Files : ReadFile(c, f)) \/ ReadRest(c) \/ AttachLock(c)
       PROVE  UNCHANGED <<issued, tears, Known, answer>>
  <2>1. UNCHANGED <<mem, issued, tears, answer>>
    BY <1>10 DEF Parse, ReadFile, ReadRest, AttachLock, lookVars, diskVars
  <2> QED
    BY <1>1, <2>1
<1>11. CASE (\E f \in Files : RemoveFile(f) \/ TouchRead(f)) \/ TouchWrite \/ UNCHANGED vars
  <2>1. UNCHANGED <<mem, issued, tears, answer>>
    BY <1>11 DEF RemoveFile, TouchRead, TouchWrite, vars, lookVars, diskVars
  <2> QED
    BY <1>1, <2>1
<1> QED
  BY <1>2, <1>3, <1>4, <1>5, <1>6, <1>7, <1>8, <1>9, <1>10, <1>11 DEF Next

(* ToolMemory implements ReplayMap: an id is replayed only as what it was  *)
(* issued with, through every eviction, store, load, removal and restart,  *)
(* and a history is answered with a text only if every id it names stood   *)
(* for that text when it was answered.                                     *)
THEOREM Refinement == Spec => PromiseKept
<1>1. IInv /\ [Next]_vars => [Promise!Next]_Promise!vars
  BY RefineStep DEF Promise!vars
<1> QED
  BY <1>1, RefineInit, Invariance, PTL DEF Spec, PromiseKept, Promise!Spec

-----------------------------------------------------------------------------
(* Where every file is read in one read, a history is answered with the    *)
(* text that was sampled with every id it names.  The run ToolMemoryTorn   *)
(* refutes the same formula without its hypothesis.                        *)
WholeReplay == ~tears => ReplayExact

LEMMA ReplayStep ==
    ASSUME IInv, WholeReplay, [Next]_vars
    PROVE  WholeReplay'
<1>0. Promise!Next \/ UNCHANGED <<issued, tears, Known, answer>>
  BY RefineStep
<1>1. CASE UNCHANGED <<issued, tears, Known, answer>>
  BY <1>1 DEF WholeReplay, ReplayExact
<1>2. ASSUME NEW ids \in SUBSET Ids, NEW text \in Strings, Promise!Issue(ids, text) PROVE WholeReplay'
  <2>1. /\ UNCHANGED <<tears, answer>>
        /\ \A i \in ids : issued[i] = None
        /\ issued' = [i \in Ids |-> IF i \in ids THEN text ELSE issued[i]]
    BY <1>2 DEF Promise!Issue
  <2>2. answer.ids \subseteq Ids
    BY DEF IInv, TypeOK
  <2> QED
    BY <2>1, <2>2 DEF WholeReplay, ReplayExact
<1>3. ASSUME NEW i \in Ids, NEW text \in Strings, Promise!Know(i, text) PROVE WholeReplay'
  BY <1>3 DEF Promise!Know, WholeReplay, ReplayExact
<1>4. ASSUME NEW ids \in SUBSET Ids, Promise!Forget(ids) PROVE WholeReplay'
  BY <1>4 DEF Promise!Forget, WholeReplay, ReplayExact
<1>5. ASSUME NEW ids \in SUBSET Ids, NEW text \in Strings \cup {None}, Promise!Answer(ids, text) PROVE WholeReplay'
  <2>1. /\ UNCHANGED <<tears, issued>>
        /\ text # None => \A i \in ids : Known[i] = text
        /\ answer' = [ids |-> ids, text |-> text]
    BY <1>5 DEF Promise!Answer
  <2>2. ASSUME ~tears, NEW i \in Ids, Known[i] # None PROVE issued[i] = Known[i]
    <3>1. i \in Held(mem) /\ Known[i] = mem.entry[i].text
      BY <2>2 DEF Known, Held
    <3>2. Faithful(i, mem.entry[i].text)
      BY <3>1 DEF IInv, TextInv
    <3> QED
      BY <2>2, <3>1, <3>2 DEF Faithful
  <2> QED
    BY <2>1, <2>2 DEF WholeReplay, ReplayExact
<1> QED
  BY <1>0, <1>1, <1>2, <1>3, <1>4, <1>5 DEF Promise!Next

(* tool_memory_attach_to_messages attaches to a message exactly the bytes  *)
(* that were sampled with its ids, unless kv_tool_map_load_from_pos read a *)
(* file while it was rewritten.                                            *)
THEOREM ReplaysAreVerbatim == Spec => []WholeReplay
<1>1. Init => WholeReplay
  BY DEF Init, WholeReplay, ReplayExact
<1>2. IInv /\ WholeReplay /\ [Next]_vars => WholeReplay'
  BY ReplayStep
<1> QED
  BY <1>1, <1>2, Invariance, PTL DEF Spec
=============================================================================
