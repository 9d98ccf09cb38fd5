----------------------- MODULE LiveContinuationProofs -----------------------
(***************************************************************************)
(* Proofs about LiveContinuation.                                          *)
(***************************************************************************)
EXTENDS LiveContinuation, FiniteSetTheorems, NaturalsInduction, WellFoundedInduction, TLAPS

-----------------------------------------------------------------------------
(* The inductive invariant.                                                *)

(* A history that starts as a rendered one does.                           *)
Starts(h) == h \in Histories /\ h # <<>> /\ Head(h) \notin Hidden \cup {Head(Suffix)}

LiveSources == {"responses-visible", "responses-tool-output", "anthropic-tool-output", "thinking-visible"}
Apis == {"none", "responses", "anthropic", "openai"}

BindingRecords ==
    [visible : Histories \cup {None}, calls : Histories \cup {None}, len : 0..Ctx]
RequestRecords ==
    [api : Apis, text : Histories, ids : Histories \cup {None}, full : BOOLEAN]

SessionTypes ==
    /\ tokens \in Histories /\ Len(tokens) <= Ctx /\ valid \in BOOLEAN
    /\ valid => Starts(tokens)

DiskInv ==
    /\ disk = [k \in DOMAIN disk |-> disk[k]]
    /\ IsFiniteSet(DOMAIN disk) /\ Cardinality(DOMAIN disk) <= MaxFiles
    /\ \A k \in DOMAIN disk :
        /\ k \in Histories /\ k # <<>>
        /\ Starts(disk[k]) /\ Len(disk[k]) <= Ctx
        /\ Head(k) # Head(Suffix) => Visible(k) = Visible(disk[k])

JobTypes ==
    /\ pc \in {"idle", "choose", "sync", "decode", "publish", "rewrite"}
    /\ source \in Sources /\ prompt \in Histories /\ out \in Histories
    /\ req \in RequestRecords

(* A request with its history asks for that history; one without has only  *)
(* the outputs of its calls.                                               *)
ReqInv ==
    pc # "idle" =>
        /\ Len(req.text) < Ctx
        /\ req.full => Starts(req.text) /\ Visible(req.text) = Asked
        /\ ~req.full => req.text = Suffix /\ req.ids # None
        /\ req.ids # None => Starts(req.ids)

(* What a binding says.  The bindings of a slot are made together.         *)
WellMade(b) ==
    /\ live[b].calls # None => Starts(live[b].calls)
    /\ b = "anthropic" <=> live[b].visible = None
    /\ live[b].visible # None =>
        /\ live[b].visible # <<>>
        /\ Head(live[b].visible) = Head(Suffix) => Len(live[b].visible) >= Len(Suffix)
LiveInv ==
    /\ live \in [Bindings -> BindingRecords \cup {None}]
    /\ \A b \in Bindings : live[b] # None => WellMade(b)
    /\ \A b, c \in Bindings : live[b] # None /\ live[c] # None => live[b].len = live[c].len

(* A binding and the session are about the same history.                   *)
Current(b) ==
    /\ live[b].calls # None => Visible(live[b].calls) = Visible(tokens)
    /\ live[b].visible # None /\ Head(live[b].visible) # Head(Suffix) =>
        Visible(live[b].visible) = Visible(tokens)

TrustInv == pc \in {"idle", "choose"} /\ valid => \A b \in Bindings : Bound(b) => Current(b)

SyncInv ==
    pc = "sync" =>
        /\ Starts(prompt) /\ Visible(prompt) = Asked
        /\ source \in LiveSources =>
            /\ valid /\ SeqExt!IsPrefix(tokens, prompt)
            /\ \A b \in Bindings : live[b] # None =>
                live[b].len <= Len(tokens) /\ (Bound(b) => Current(b))
        /\ source \notin LiveSources /\ valid =>
            SeqExt!IsPrefix(tokens, prompt) \/ \A b \in Bindings : Bound(b) => Current(b)
        /\ ContinuedBinding \in {"responses", "anthropic"} => ContinuedBinding = req.api

TurnInv ==
    pc \in {"decode", "publish"} =>
        /\ Starts(prompt) /\ Visible(prompt) = Asked
        /\ valid /\ tokens = IF pc = "decode" THEN prompt ELSE prompt \o out
        /\ pc = "publish" => out \in Answers \cup Calls
        /\ \A b \in {"responses", "anthropic"} : live[b] # None => req.api = b

RewriteInv ==
    pc = "rewrite" =>
        /\ Starts(prompt)
        /\ source \notin LiveSources
        /\ valid => SeqExt!IsPrefix(tokens, prompt)
        /\ \A b \in Bindings : live[b] # None =>
            /\ b = "anthropic" /\ live[b].calls # None
            /\ Visible(live[b].calls) = Visible(prompt)

IInv ==
    /\ SessionTypes /\ DiskInv /\ JobTypes /\ ReqInv /\ LiveInv
    /\ TrustInv /\ SyncInv /\ TurnInv /\ RewriteInv

-----------------------------------------------------------------------------
(* Sequences.                                                              *)

(* A set of numbers that is not empty has a least element.                 *)
LEMMA Least ==
    ASSUME NEW T \in SUBSET Nat, T # {}
    PROVE  \E n \in T : \A k \in T : n <= k
<1>1. PICK n \in T : \A k \in T : ~(<<k, n>> \in OpToRel(<, Nat))
  BY NatLessThanWellFounded, WFMin
<1>2. \A k \in T : ~(k < n)
  BY <1>1 DEF OpToRel
<1> QED
  BY <1>2

(* F[i] is the concatenation of the first i sequences of ss.               *)
Joins(F, ss, n) == \A i \in 1..n : F[i] = IF i = 1 THEN ss[i] ELSE F[i - 1] \o ss[i]

(* There are such concatenations,                                          *)
LEMMA JoinsExist ==
    ASSUME NEW S, NEW ss \in Seq(Seq(S)), NEW n \in 1..Len(ss)
    PROVE  \E F \in [1..n -> Seq(S)] : Joins(F, ss, n)
<1> DEFINE open == {m \in 1..Len(ss) : ~\E F \in [1..m -> Seq(S)] : Joins(F, ss, m)}
<1>1. SUFFICES ASSUME open # {} PROVE FALSE
  OBVIOUS
<1>2. PICK m \in open : \A k \in open : m <= k
  <2>1. open \in SUBSET Nat
    OBVIOUS
  <2> HIDE DEF open
  <2> QED
    BY <1>1, <2>1, Least
<1>3. \A i \in 1..Len(ss) : ss[i] \in Seq(S)
  OBVIOUS
<1>4. CASE m = 1
  <2> DEFINE G == [i \in 1..1 |-> ss[1]]
  <2>1. G \in [1..1 -> Seq(S)] /\ Joins(G, ss, 1)
    BY <1>3, <1>4 DEF Joins
  <2> QED
    BY <1>4, <2>1
<1>5. CASE m # 1
  <2>1. m - 1 \in 1..Len(ss) /\ m \in 1..Len(ss) /\ ~(m <= m - 1)
    BY <1>5
  <2>2. PICK F \in [1..(m - 1) -> Seq(S)] : Joins(F, ss, m - 1)
    BY <1>2, <2>1
  <2> DEFINE G == [i \in 1..m |-> IF i = m THEN F[m - 1] \o ss[m] ELSE F[i]]
  <2>3. F[m - 1] \o ss[m] \in Seq(S)
    BY <1>3, <2>1, <2>2
  <2>4. G \in [1..m -> Seq(S)]
    BY <2>1, <2>2, <2>3
  <2>5. ASSUME NEW i \in 1..m PROVE G[i] = IF i = 1 THEN ss[i] ELSE G[i - 1] \o ss[i]
    <3>1. CASE i = m
      <4>0. m \in 1..m /\ m - 1 \in 1..m /\ m - 1 # m
        BY <1>5, <2>1
      <4>1. G[m] = F[m - 1] \o ss[m] /\ G[m - 1] = F[m - 1]
        BY <4>0
      <4> HIDE DEF G
      <4> QED
        BY <1>5, <3>1, <4>1
    <3>2. CASE i # m
      <4>1. i \in 1..(m - 1) /\ G[i] = F[i] /\ (i # 1 => G[i - 1] = F[i - 1])
        BY <2>1, <3>2
      <4>2. F[i] = IF i = 1 THEN ss[i] ELSE F[i - 1] \o ss[i]
        BY <2>2, <4>1 DEF Joins
      <4> HIDE DEF G
      <4> QED
        BY <4>1, <4>2
    <3> QED
      BY <3>1, <3>2
  <2> HIDE DEF G
  <2>6. Joins(G, ss, m)
    BY <2>5 DEF Joins
  <2> QED
    BY <2>4, <2>6
<1> QED
  BY <1>4, <1>5

Agree(s, t, n) == \A i \in 1..n : s[i] = t[i]

(* and two of them agree when the sequences they concatenate do.           *)
LEMMA JoinsAgree ==
    ASSUME NEW F, NEW G, NEW ss, NEW tt, NEW n \in Nat,
           Joins(F, ss, n), Joins(G, tt, n), Agree(ss, tt, n)
    PROVE  Agree(F, G, n)
<1> DEFINE odd == {i \in 1..n : F[i] # G[i]}
<1>1. SUFFICES ASSUME odd # {} PROVE FALSE
  BY DEF Agree
<1>2. PICK m \in odd : \A k \in odd : m <= k
  <2>1. odd \in SUBSET Nat
    OBVIOUS
  <2> HIDE DEF odd
  <2> QED
    BY <1>1, <2>1, Least
<1>3. m \in 1..n /\ F[m] # G[m]
  OBVIOUS
<1>4. m # 1
  BY <1>3 DEF Joins, Agree
<1>5. m - 1 \in 1..n /\ ~(m <= m - 1)
  BY <1>3, <1>4
<1>6. F[m - 1] = G[m - 1]
  BY <1>2, <1>5
<1> QED
  BY <1>3, <1>4, <1>6 DEF Joins, Agree

LEMMA FlattenJoins ==
    ASSUME NEW S, NEW ss \in Seq(Seq(S)), Len(ss) # 0
    PROVE  \E F \in [1..Len(ss) -> Seq(S)] : Joins(F, ss, Len(ss)) /\ SeqExt!FlattenSeq(ss) = F[Len(ss)]
<1> DEFINE N == Len(ss)
           Body(F) == [i \in 1..N |-> IF i = 1 THEN ss[i] ELSE F[i - 1] \o ss[i]]
           flatten == CHOOSE F : F = Body(F)
<1>0. N \in Nat /\ N \in 1..N
  OBVIOUS
<1>1. SeqExt!FlattenSeq(ss) = flatten[N]
  BY DEF SeqExt!FlattenSeq
<1>2. PICK H \in [1..N -> Seq(S)] : Joins(H, ss, N)
  BY <1>0, JoinsExist
<1>3. H = Body(H)
  BY <1>2 DEF Joins
<1>4. flatten = Body(flatten)
  BY <1>3
<1> HIDE DEF flatten
<1>5. Joins(flatten, ss, N)
  BY <1>4 DEF Joins
<1>6. \A i \in 1..N : flatten[i] = H[i]
  <2> HIDE DEF N
  <2> QED
    BY <1>0, <1>2, <1>5, JoinsAgree DEF Agree
<1> QED
  BY <1>0, <1>1, <1>2, <1>6

LEMMA NothingLeft ==
    ASSUME NEW T, NEW s \in Seq(T), Len(s) = 0
    PROVE  s = <<>>
OBVIOUS

(* Flattening one sequence more appends it.                                *)
LEMMA FlattenAppend ==
    ASSUME NEW S, NEW ss \in Seq(Seq(S)), NEW s \in Seq(S)
    PROVE  /\ SeqExt!FlattenSeq(ss) \in Seq(S)
           /\ SeqExt!FlattenSeq(Append(ss, s)) = SeqExt!FlattenSeq(ss) \o s
<1>0. Len(ss) \in Nat
  OBVIOUS
<1>1. PICK n : n = Len(ss)
  OBVIOUS
<1>2. PICK tt : tt = Append(ss, s)
  OBVIOUS
<1>3. tt \in Seq(Seq(S)) /\ Len(tt) = n + 1 /\ tt[n + 1] = s /\ \A i \in 1..n : ss[i] = tt[i]
  BY <1>1, <1>2
<1>4. PICK G \in [1..(n + 1) -> Seq(S)] : Joins(G, tt, n + 1) /\ SeqExt!FlattenSeq(tt) = G[n + 1]
  <2>1. n \in Nat /\ n + 1 # 0
    BY <1>0, <1>1
  <2>2. tt \in Seq(Seq(S)) /\ Len(tt) # 0
    BY <1>3, <2>1
  <2>3. \E G \in [1..Len(tt) -> Seq(S)] : Joins(G, tt, Len(tt)) /\ SeqExt!FlattenSeq(tt) = G[Len(tt)]
    BY <2>2, FlattenJoins
  <2> QED
    BY <1>3, <2>3, Zenon
<1>5. CASE n = 0
  <2>0. ss = <<>>
    BY <1>1, <1>5, NothingLeft
  <2>1. SeqExt!FlattenSeq(ss) = ss /\ ss = <<>>
    BY <1>1, <1>5, <2>0 DEF SeqExt!FlattenSeq
  <2>2. G[1] = tt[1]
    BY <1>4, <1>5 DEF Joins
  <2>3. SeqExt!FlattenSeq(tt) = s
    BY <1>3, <1>4, <1>5, <2>2
  <2>4. <<>> \in Seq(S) /\ <<>> \o s = s
    OBVIOUS
  <2> QED
    BY <1>2, <2>1, <2>3, <2>4
<1>6. CASE n # 0
  <2>1. PICK F \in [1..n -> Seq(S)] : Joins(F, ss, n) /\ SeqExt!FlattenSeq(ss) = F[n]
    BY <1>1, <1>6, FlattenJoins
  <2>2. Joins(G, tt, n)
    <3>1. \A i \in 1..n : i \in 1..(n + 1)
      BY <1>0, <1>1
    <3> QED
      BY <1>4, <3>1 DEF Joins
  <2>3. n \in Nat /\ n \in 1..n /\ n + 1 \in 1..(n + 1) /\ n + 1 # 1 /\ (n + 1) - 1 = n
    BY <1>0, <1>1, <1>6
  <2>4. \A i \in 1..n : F[i] = G[i]
    <3>1. Joins(F, ss, n) /\ Joins(G, tt, n) /\ n \in Nat /\ Agree(ss, tt, n)
      BY <1>3, <2>1, <2>2, <2>3 DEF Agree
    <3>2. Agree(F, G, n)
      BY <3>1, JoinsAgree
    <3> QED
      BY <3>2 DEF Agree
  <2>5. G[n + 1] = G[n] \o tt[n + 1]
    BY <1>4, <2>3 DEF Joins
  <2> QED
    BY <1>2, <1>3, <1>4, <2>1, <2>3, <2>4, <2>5
<1> QED
  BY <1>5, <1>6

LEMMA SeqEqual ==
    ASSUME NEW T, NEW s \in Seq(T), NEW t \in Seq(T), Len(s) = Len(t), \A i \in 1..Len(t) : s[i] = t[i]
    PROVE  s = t
OBVIOUS

(* A sequence that is not empty is its front and its last element.         *)
LEMMA FrontLast ==
    ASSUME NEW T, NEW s \in Seq(T), Len(s) # 0
    PROVE  \E f \in Seq(T), t \in T : s = Append(f, t) /\ Len(f) = Len(s) - 1
<1> DEFINE f == [i \in 1..(Len(s) - 1) |-> s[i]]
<1>1. Len(s) \in Nat /\ Len(s) - 1 \in Nat /\ s[Len(s)] \in T
  OBVIOUS
<1>2. f \in Seq(T) /\ Len(f) = Len(s) - 1
  BY <1>1
<1>3. s = Append(f, s[Len(s)])
  BY <1>1, <1>2
<1> QED
  BY <1>1, <1>2, <1>3

LEMMA ConcatAppend ==
    ASSUME NEW T, NEW g \in Seq(T), NEW e \in Seq(T), NEW t \in T
    PROVE  g \o e \in Seq(T) /\ g \o Append(e, t) = Append(g \o e, t)
<1>1. PICK a : a = Append(e, t)
  OBVIOUS
<1>2. a \in Seq(T) /\ Len(a) = Len(e) + 1 /\ a[Len(e) + 1] = t /\ \A i \in 1..Len(e) : a[i] = e[i]
  BY <1>1
<1>3. PICK c : c = g \o e
  OBVIOUS
<1>4. /\ c \in Seq(T) /\ Len(c) = Len(g) + Len(e)
      /\ \A i \in 1..Len(c) : c[i] = IF i <= Len(g) THEN g[i] ELSE e[i - Len(g)]
  BY <1>3
<1>5. PICK x : x = g \o a
  OBVIOUS
<1>6. /\ x \in Seq(T) /\ Len(x) = Len(g) + Len(a)
      /\ \A i \in 1..Len(x) : x[i] = IF i <= Len(g) THEN g[i] ELSE a[i - Len(g)]
  <2>1. a \in Seq(T)
    BY <1>2
  <2> QED
    BY <1>5, <2>1
<1>7. PICK y : y = Append(c, t)
  OBVIOUS
<1>8. y \in Seq(T) /\ Len(y) = Len(c) + 1 /\ y[Len(c) + 1] = t /\ \A i \in 1..Len(c) : y[i] = c[i]
  <2>1. c \in Seq(T)
    BY <1>4
  <2> QED
    BY <1>7, <2>1
<1>9. Len(g) \in Nat /\ Len(e) \in Nat
  OBVIOUS
<1>10. Len(x) = Len(y) /\ Len(x) = Len(g) + Len(e) + 1
  BY <1>2, <1>4, <1>6, <1>8, <1>9
<1>11. ASSUME NEW i \in 1..Len(y) PROVE x[i] = y[i]
  <2>1. CASE i = Len(c) + 1
    <3>1. i \in 1..Len(x) /\ ~(i <= Len(g)) /\ i - Len(g) = Len(e) + 1
      BY <1>4, <1>9, <1>10, <2>1
    <3> QED
      BY <1>2, <1>6, <1>8, <2>1, <3>1
  <2>2. CASE i # Len(c) + 1
    <3>1. i \in 1..Len(c) /\ i \in 1..Len(x) /\ (~(i <= Len(g)) => i - Len(g) \in 1..Len(e))
      BY <1>4, <1>9, <1>10, <2>2
    <3> QED
      BY <1>2, <1>4, <1>6, <1>8, <3>1
  <2> QED
    BY <2>1, <2>2
<1>12. x = y
  BY <1>6, <1>8, <1>10, <1>11, SeqEqual
<1> QED
  BY <1>1, <1>3, <1>4, <1>5, <1>7, <1>12

-----------------------------------------------------------------------------
(* What a client sees.                                                     *)

LEMMA VisibleEmpty == Visible(<<>>) = <<>>
<1>1. Shown(<<>>) = <<>>
  BY DEF Shown
<1> QED
  BY <1>1 DEF Visible, SeqExt!FlattenSeq

LEMMA ShownType ==
    ASSUME NEW h \in Histories
    PROVE  Shown(h) \in Seq(Histories) /\ Len(Shown(h)) = Len(h)
<1>1. Len(h) \in Nat /\ \A k \in 1..Len(h) : h[k] \in Tokens
  BY DEF Histories
<1>2. \A x \in Tokens : <<x>> \in Histories
  BY DEF Histories
<1>3. <<>> \in Histories
  BY DEF Histories
<1>4. Shown(h) \in [1..Len(h) -> Histories]
  BY <1>1, <1>2, <1>3 DEF Shown
<1> QED
  BY <1>1, <1>4

LEMMA VisibleAppend ==
    ASSUME NEW h \in Histories, NEW t \in Tokens
    PROVE  /\ Visible(h) \in Histories
           /\ Visible(Append(h, t)) = IF t \in Hidden THEN Visible(h) ELSE Append(Visible(h), t)
<1>1. PICK g : g = Append(h, t)
  OBVIOUS
<1>2. g \in Histories /\ Len(g) = Len(h) + 1 /\ g[Len(h) + 1] = t /\ \A k \in 1..Len(h) : g[k] = h[k]
  BY <1>1 DEF Histories
<1>3. PICK s : s = IF t \in Hidden THEN <<>> ELSE <<t>>
  OBVIOUS
<1>4. s \in Histories
  BY <1>3 DEF Histories
<1>5. PICK ss : ss = Shown(h)
  OBVIOUS
<1>6. ss \in Seq(Histories) /\ Len(ss) = Len(h)
  BY <1>5, ShownType
<1>7. Shown(g) \in Seq(Histories) /\ Len(Shown(g)) = Len(h) + 1
  BY <1>2, ShownType
<1>8. \A k \in 1..(Len(h) + 1) : Shown(g)[k] = IF k = Len(h) + 1 THEN s ELSE ss[k]
  <2>1. Len(h) \in Nat
    BY DEF Histories
  <2> QED
    BY <1>2, <1>3, <1>5, <2>1 DEF Shown
<1>9. Shown(g) = Append(ss, s)
  BY <1>4, <1>6, <1>7, <1>8
<1>10. /\ SeqExt!FlattenSeq(ss) \in Seq(Tokens)
       /\ SeqExt!FlattenSeq(Append(ss, s)) = SeqExt!FlattenSeq(ss) \o s
  BY <1>4, <1>6, FlattenAppend DEF Histories
<1>11. Visible(h) \in Histories /\ Visible(g) = Visible(h) \o s
  BY <1>5, <1>9, <1>10 DEF Visible, Histories
<1>12. CASE t \in Hidden
  <2>1. Visible(h) \o <<>> = Visible(h)
    BY <1>11 DEF Histories
  <2> QED
    BY <1>1, <1>3, <1>11, <1>12, <2>1
<1>13. CASE t \notin Hidden
  <2>1. Visible(h) \o <<t>> = Append(Visible(h), t)
    BY <1>11 DEF Histories
  <2> QED
    BY <1>1, <1>3, <1>11, <1>13, <2>1
<1> QED
  BY <1>12, <1>13

LEMMA VisibleType ==
    ASSUME NEW h \in Histories
    PROVE  Visible(h) \in Histories
<1>1. PICK t : t \in Tokens
  BY TokenAssumption
<1> QED
  BY <1>1, VisibleAppend

(* The visible text of one history after another.                          *)
LEMMA VisibleConcat ==
    ASSUME NEW g \in Histories, NEW h \in Histories
    PROVE  Visible(g \o h) = Visible(g) \o Visible(h)
<1> DEFINE P(f) == Visible(g \o f) = Visible(g) \o Visible(f)
           odd == {n \in Nat : \E f \in Histories : Len(f) = n /\ ~P(f)}
<1>0. \A f \in Histories : Len(f) \in Nat
  BY DEF Histories
<1>1. SUFFICES ASSUME odd # {} PROVE FALSE
  BY <1>0
<1>2. PICK n \in odd : \A k \in odd : n <= k
  <2>1. odd \in SUBSET Nat
    OBVIOUS
  <2> HIDE DEF odd
  <2> QED
    BY <1>1, <2>1, Least
<1>3. PICK f \in Histories : Len(f) = n /\ ~P(f)
  OBVIOUS
<1>4. n # 0
  <2>1. SUFFICES ASSUME n = 0 PROVE FALSE
    OBVIOUS
  <2>2. f = <<>>
    BY <1>3, <2>1, NothingLeft DEF Histories
  <2>3. g \o <<>> = g /\ Visible(g) \o <<>> = Visible(g)
    BY VisibleType DEF Histories
  <2> QED
    BY <1>3, <2>2, <2>3, VisibleEmpty
<1>5. PICK e \in Histories, t \in Tokens : f = Append(e, t) /\ Len(e) = n - 1
  <2>1. f \in Seq(Tokens) /\ Len(f) = n /\ Len(f) # 0
    BY <1>3, <1>4 DEF Histories
  <2> HIDE DEF P, odd
  <2>2. \E e \in Seq(Tokens), t \in Tokens : f = Append(e, t) /\ Len(e) = Len(f) - 1
    BY <2>1, FrontLast
  <2> QED
    BY <2>1, <2>2 DEF Histories
<1>6. P(e)
  <2>1. n - 1 \in Nat /\ ~(n <= n - 1)
    BY <1>4
  <2>2. n - 1 \notin odd
    BY <1>2, <2>1
  <2> HIDE DEF P
  <2> QED
    BY <1>5, <2>1, <2>2
<1>7. g \o e \in Histories /\ g \o Append(e, t) = Append(g \o e, t)
  <2>1. g \in Seq(Tokens) /\ e \in Seq(Tokens)
    BY <1>5 DEF Histories
  <2> HIDE DEF P, odd
  <2> QED
    BY <2>1, ConcatAppend DEF Histories
<1>8. Visible(g) \in Histories /\ Visible(e) \in Histories
  BY VisibleType
<1>9. Visible(g) \o Append(Visible(e), t) = Append(Visible(g) \o Visible(e), t)
  <2>1. \A a, b \in Seq(Tokens) : a \o Append(b, t) = Append(a \o b, t)
    BY ConcatAppend
  <2> QED
    BY <1>8, <2>1 DEF Histories
<1>10. Visible(Append(g \o e, t)) = IF t \in Hidden THEN Visible(g \o e) ELSE Append(Visible(g \o e), t)
  BY <1>7, VisibleAppend
<1>11. Visible(Append(e, t)) = IF t \in Hidden THEN Visible(e) ELSE Append(Visible(e), t)
  BY VisibleAppend
<1>12. P(f)
  BY <1>5, <1>6, <1>7, <1>9, <1>10, <1>11
<1> QED
  BY <1>3, <1>12

(* A visible text is all visible.                                          *)
LEMMA VisibleTwice ==
    ASSUME NEW h \in Histories
    PROVE  Visible(Visible(h)) = Visible(h)
<1> DEFINE P(f) == Visible(Visible(f)) = Visible(f)
           odd == {n \in Nat : \E f \in Histories : Len(f) = n /\ ~P(f)}
<1>0. \A f \in Histories : Len(f) \in Nat
  BY DEF Histories
<1>1. SUFFICES ASSUME odd # {} PROVE FALSE
  BY <1>0
<1>2. PICK n \in odd : \A k \in odd : n <= k
  <2>1. odd \in SUBSET Nat
    OBVIOUS
  <2> HIDE DEF odd
  <2> QED
    BY <1>1, <2>1, Least
<1>3. PICK f \in Histories : Len(f) = n /\ ~P(f)
  OBVIOUS
<1>4. n # 0
  <2>1. SUFFICES ASSUME n = 0 PROVE FALSE
    OBVIOUS
  <2>2. f = <<>>
    BY <1>3, <2>1, NothingLeft DEF Histories
  <2> QED
    BY <1>3, <2>2, VisibleEmpty
<1>5. PICK e \in Histories, t \in Tokens : f = Append(e, t) /\ Len(e) = n - 1
  <2>1. f \in Seq(Tokens) /\ Len(f) = n /\ Len(f) # 0
    BY <1>3, <1>4 DEF Histories
  <2> HIDE DEF P, odd
  <2>2. \E e \in Seq(Tokens), t \in Tokens : f = Append(e, t) /\ Len(e) = Len(f) - 1
    BY <2>1, FrontLast
  <2> QED
    BY <2>1, <2>2 DEF Histories
<1>6. P(e)
  <2>1. n - 1 \in Nat /\ ~(n <= n - 1)
    BY <1>4
  <2>2. n - 1 \notin odd
    BY <1>2, <2>1
  <2> HIDE DEF P
  <2> QED
    BY <1>5, <2>1, <2>2
<1>7. Visible(e) \in Histories
  BY VisibleType
<1>8. Visible(f) = IF t \in Hidden THEN Visible(e) ELSE Append(Visible(e), t)
  BY <1>5, VisibleAppend
<1>9. Visible(Append(Visible(e), t)) =
        IF t \in Hidden THEN Visible(Visible(e)) ELSE Append(Visible(Visible(e)), t)
  BY <1>7, VisibleAppend
<1>10. P(f)
  BY <1>6, <1>8, <1>9
<1> QED
  BY <1>3, <1>10

(* Where a history starts, its visible text starts.                        *)
LEMMA VisibleStarts ==
    ASSUME NEW h, Starts(h)
    PROVE  Starts(Visible(h)) /\ Head(Visible(h)) = Head(h)
<1>1. h \in Histories /\ h # <<>> /\ Head(h) \notin Hidden /\ Head(h) # Head(Suffix)
  BY DEF Starts
<1>2. Head(h) \in Tokens /\ Tail(h) \in Histories /\ <<Head(h)>> \in Histories /\ h = <<Head(h)>> \o Tail(h)
  BY <1>1 DEF Histories
<1>3. Visible(<<Head(h)>>) = <<Head(h)>>
  <2>1. <<>> \in Histories /\ Append(<<>>, Head(h)) = <<Head(h)>>
    BY DEF Histories
  <2> QED
    BY <1>1, <1>2, <2>1, VisibleAppend, VisibleEmpty
<1>4. PICK v : v = Visible(Tail(h))
  OBVIOUS
<1>5. v \in Histories /\ Visible(h) = <<Head(h)>> \o v
  BY <1>2, <1>3, <1>4, VisibleConcat, VisibleType
<1>6. <<Head(h)>> \o v \in Histories /\ <<Head(h)>> \o v # <<>> /\ Head(<<Head(h)>> \o v) = Head(h)
  BY <1>2, <1>5 DEF Histories
<1> QED
  BY <1>1, <1>5, <1>6 DEF Starts

-----------------------------------------------------------------------------
(* Prefixes.                                                               *)

LEMMA PrefixSplit ==
    ASSUME NEW g \in Histories, NEW h \in Histories, SeqExt!IsPrefix(g, h)
    PROVE  After(h, Len(g)) \in Histories /\ h = g \o After(h, Len(g))
<1>1. Len(g) \in Nat /\ Len(h) \in Nat /\ Len(g) <= Len(h)
  BY DEF Histories, SeqExt!IsPrefix
<1>2. \A i \in 1..Len(g) : g[i] = h[i]
  <2>1. SUFFICES ASSUME NEW i \in 1..Len(g) PROVE g[i] = h[i]
    OBVIOUS
  <2>2. SubSeq(g, 1, Len(g))[i] = SubSeq(h, 1, Len(g))[i]
    BY DEF SeqExt!IsPrefix
  <2> QED
    BY <1>1, <2>1, <2>2 DEF Histories
<1>3. PICK a : a = After(h, Len(g))
  OBVIOUS
<1>4. a \in Histories /\ Len(a) = Len(h) - Len(g) /\ \A i \in 1..(Len(h) - Len(g)) : a[i] = h[i + Len(g)]
  BY <1>1, <1>3 DEF After, Histories
<1>5. Len(g \o a) = Len(h)
  BY <1>1, <1>4 DEF Histories
<1>6. ASSUME NEW i \in 1..Len(h) PROVE (g \o a)[i] = h[i]
  <2>1. CASE i <= Len(g)
    BY <1>1, <1>2, <1>4, <2>1 DEF Histories
  <2>2. CASE ~(i <= Len(g))
    <3>1. i - Len(g) \in 1..(Len(h) - Len(g)) /\ (i - Len(g)) + Len(g) = i
      BY <1>1, <2>2
    <3>2. (g \o a)[i] = a[i - Len(g)]
      BY <1>1, <1>4, <2>2, <3>1 DEF Histories
    <3> QED
      BY <1>4, <3>1, <3>2
  <2> QED
    BY <2>1, <2>2
<1>7. g \o a \in Histories
  BY <1>4 DEF Histories
<1> QED
  BY <1>3, <1>4, <1>5, <1>6, <1>7, SeqEqual DEF Histories

LEMMA PrefixHead ==
    ASSUME NEW g \in Histories, NEW h \in Histories, SeqExt!IsPrefix(g, h), g # <<>>
    PROVE  h # <<>> /\ Head(g) = Head(h)
<1>1. h = g \o After(h, Len(g)) /\ After(h, Len(g)) \in Histories
  BY PrefixSplit
<1> HIDE DEF After
<1> QED
  BY <1>1 DEF Histories

LEMMA ConcatStarts ==
    ASSUME NEW g, Starts(g), NEW h \in Histories
    PROVE  /\ Starts(g \o h) /\ g \o h \in Histories
           /\ Len(g \o h) = Len(g) + Len(h)
           /\ SeqExt!IsPrefix(g, g \o h)
<1>1. g \in Histories /\ g # <<>>
  BY DEF Starts
<1>2. PICK c : c = g \o h
  OBVIOUS
<1>3. c \in Histories /\ c # <<>> /\ Head(c) = Head(g) /\ Len(c) = Len(g) + Len(h)
  BY <1>1, <1>2 DEF Histories
<1>4. Starts(c)
  BY <1>3 DEF Starts
<1>5. Len(g) \in Nat /\ Len(h) \in Nat /\ \A i \in 1..Len(g) : c[i] = g[i]
  BY <1>1, <1>2 DEF Histories
<1>6. SubSeq(g, 1, Len(g)) = SubSeq(c, 1, Len(g)) /\ Len(g) <= Len(c)
  BY <1>1, <1>3, <1>5 DEF Histories
<1> QED
  BY <1>2, <1>3, <1>4, <1>6 DEF SeqExt!IsPrefix

LEMMA SliceProperties ==
    ASSUME NEW p \in Histories, NEW n \in 0..Len(p)
    PROVE  /\ SubSeq(p, 1, n) \in Histories /\ Len(SubSeq(p, 1, n)) = n
           /\ SeqExt!IsPrefix(SubSeq(p, 1, n), p)
           /\ n = 0 => SubSeq(p, 1, n) = <<>>
           /\ Starts(p) /\ SubSeq(p, 1, n) # <<>> => Starts(SubSeq(p, 1, n))
<1>1. Len(p) \in Nat /\ n \in Nat /\ n <= Len(p)
  BY DEF Histories
<1>2. PICK s : s = SubSeq(p, 1, n)
  OBVIOUS
<1>3. s \in Histories /\ Len(s) = n
  BY <1>1, <1>2 DEF Histories
<1>4. SubSeq(s, 1, n) = s
  BY <1>1, <1>3 DEF Histories
<1>5. SeqExt!IsPrefix(s, p)
  BY <1>1, <1>2, <1>3, <1>4 DEF SeqExt!IsPrefix
<1>6. n = 0 => s = <<>>
  BY <1>3, NothingLeft DEF Histories
<1>7. Starts(p) /\ s # <<>> => Starts(s)
  BY <1>3, <1>5, PrefixHead DEF Starts
<1> QED
  BY <1>2, <1>3, <1>5, <1>6, <1>7

(* A history whose visible text is that of k continues whatever starts     *)
(* with k.                                                                 *)
LEMMA Continues ==
    ASSUME NEW k \in Histories, NEW h \in Histories, NEW t \in Histories,
           SeqExt!IsPrefix(k, t), Visible(k) = Visible(h)
    PROVE  Visible(h \o After(t, Len(k))) = Visible(t)
<1>1. After(t, Len(k)) \in Histories /\ t = k \o After(t, Len(k))
  BY PrefixSplit
<1> HIDE DEF After
<1>2. Visible(t) = Visible(k) \o Visible(After(t, Len(k)))
  BY <1>1, VisibleConcat
<1>3. Visible(h \o After(t, Len(k))) = Visible(h) \o Visible(After(t, Len(k)))
  BY <1>1, VisibleConcat
<1> QED
  BY <1>2, <1>3

-----------------------------------------------------------------------------
(* The steps.                                                              *)

LEMMA Given ==
    /\ Suffix \in Histories /\ Suffix # <<>> /\ Visible(Suffix) = Suffix
    /\ \A t \in Texts : Starts(t) /\ Len(t) < Ctx
    /\ \A o \in Answers \cup Calls : o \in Histories
    /\ \A c \in Calls : Rendered[c] \in Histories /\ Visible(Rendered[c]) = Visible(c)
    /\ None \notin Histories /\ None \notin BindingRecords
    /\ Ctx \in Nat /\ Ctx # 0 /\ MaxFiles \in Nat
    /\ <<>> \in Histories
<1>1. Ctx \in Nat /\ 0..Ctx \subseteq Nat
  BY BoundAssumption
<1>2. BindingRecords \subseteq [visible : Seq(Tokens) \cup {None}, calls : Seq(Tokens) \cup {None}, len : Nat]
  BY <1>1 DEF BindingRecords, Histories
<1>3. None \notin BindingRecords
  BY <1>2, NoneAssumption
<1>4. <<>> \in Histories
  BY DEF Histories
<1>5. \A t \in Texts : Starts(t)
  BY TokenAssumption, TextAssumption DEF Starts, Histories
<1> QED
  BY <1>1, <1>3, <1>4, <1>5, TokenAssumption, BoundAssumption, NoneAssumption, TextAssumption DEF Histories

LEMMA InitInv == Init => IInv
<1> SUFFICES ASSUME Init PROVE IInv
  OBVIOUS
<1>1. SessionTypes
  <2>1. Len(<<>>) <= Ctx
    BY Given
  <2>2. tokens = <<>> /\ ~valid /\ valid \in BOOLEAN
    BY DEF Init
  <2> QED
    BY <2>1, <2>2, Given DEF SessionTypes
<1>2. DiskInv
  <2>1. DOMAIN disk = {} /\ disk = [k \in DOMAIN disk |-> disk[k]]
    BY DEF Init
  <2> QED
    BY <2>1, FS_EmptySet, Given DEF DiskInv
<1>3. JobTypes
  BY Given DEF Init, JobTypes, Sources, NoReq, RequestRecords, Apis
<1>4. LiveInv
  BY DEF Init, LiveInv, Unbound, WellMade
<1> QED
  BY <1>1, <1>2, <1>3, <1>4
     DEF Init, IInv, ReqInv, TrustInv, SyncInv, TurnInv, RewriteInv

(* The request of a continuation that brings its history asks for it.      *)
LEMMA ArriveInv == IInv /\ Arrive => IInv'
<1> SUFFICES ASSUME IInv, Arrive PROVE IInv'
  OBVIOUS
<1>1. UNCHANGED <<tokens, valid, live, disk, prompt, source, out>> /\ pc = "idle" /\ pc' = "choose"
  BY DEF Arrive, sessionVars
<1>2. req' \in RequestRecords /\ ReqInv'
  <2>1. CASE \E api \in {"responses", "anthropic", "openai"}, t \in Texts :
               req' = [api |-> api, text |-> t, ids |-> None, full |-> TRUE]
    <3>1. PICK api \in {"responses", "anthropic", "openai"}, t \in Texts :
             req' = [api |-> api, text |-> t, ids |-> None, full |-> TRUE]
      BY <2>1
    <3>2. Starts(t) /\ t \in Histories /\ Len(t) < Ctx
      BY Given DEF Starts
    <3>3. req' \in RequestRecords
      BY <3>1, <3>2 DEF RequestRecords, Apis
    <3>4. req'.text = t /\ req'.ids = None /\ req'.full = TRUE
      BY <3>1
    <3> QED
      BY <3>2, <3>3, <3>4 DEF ReqInv, Asked
  <2>2. CASE \E b \in {"responses", "anthropic"}, full \in BOOLEAN :
               /\ live[b] # None /\ live[b].calls # None
               /\ req' = [api |-> b, ids |-> live[b].calls, full |-> full,
                          text |-> IF full THEN Visible(live[b].calls) \o Suffix ELSE Suffix]
    <3>1. PICK b \in {"responses", "anthropic"}, full \in BOOLEAN :
             /\ live[b] # None /\ live[b].calls # None
             /\ req' = [api |-> b, ids |-> live[b].calls, full |-> full,
                        text |-> IF full THEN Visible(live[b].calls) \o Suffix ELSE Suffix]
      BY <2>2
    <3>2. PICK c : c = live[b].calls
      OBVIOUS
    <3>3. Starts(c) /\ c \in Histories /\ c # None
      BY <3>1, <3>2, Given DEF IInv, LiveInv, WellMade, Bindings, Starts
    <3>4. PICK v : v = Visible(c)
      OBVIOUS
    <3>5. Starts(v) /\ v \in Histories /\ Visible(v) = v
      BY <3>3, <3>4, VisibleStarts, VisibleTwice DEF Starts
    <3>6. Starts(v \o Suffix) /\ v \o Suffix \in Histories /\ Visible(v \o Suffix) = v \o Suffix
      <4>1. Suffix \in Histories /\ Visible(Suffix) = Suffix
        BY Given
      <4>2. Starts(v \o Suffix) /\ v \o Suffix \in Histories
        BY <3>5, <4>1, ConcatStarts
      <4>3. Visible(v \o Suffix) = Visible(v) \o Visible(Suffix)
        BY <3>5, <4>1, VisibleConcat
      <4> QED
        BY <3>5, <4>1, <4>2, <4>3, Zenon
    <3>7. /\ req'.api = b /\ req'.ids = c /\ req'.full = full
          /\ req'.text = IF full THEN v \o Suffix ELSE Suffix
      BY <3>1, <3>2, <3>4
    <3>8. req' = [api |-> b, ids |-> c, full |-> full, text |-> IF full THEN v \o Suffix ELSE Suffix]
      BY <3>1, <3>2, <3>4
    <3>9. req' \in RequestRecords
      BY <3>3, <3>6, <3>8, Given DEF RequestRecords, Apis
    <3>10. Len(req'.text) < Ctx
      BY DEF Arrive
    <3> QED
      BY <3>3, <3>4, <3>6, <3>7, <3>9, <3>10 DEF ReqInv, Asked
  <2> QED
    BY <2>1, <2>2 DEF Arrive
<1> QED
  BY <1>1, <1>2
     DEF IInv, SessionTypes, DiskInv, JobTypes, LiveInv, WellMade, TrustInv, Bound, Current,
         SyncInv, TurnInv, RewriteInv

(* A request is to continue from p.                                        *)
LEMMA ChosenInv ==
    ASSUME IInv, NEW src \in Sources, NEW p, Prefill(src, p), pc = "choose",
           UNCHANGED <<tokens, valid, live, disk, req, out>>,
           Starts(p), Visible(p) = Asked, src # "disk-text",
           src \in LiveSources => valid /\ SeqExt!IsPrefix(tokens, p) /\ \E b \in Bindings : Bound(b),
           src \in {"responses-visible", "responses-tool-output"} => req.api = "responses",
           src = "anthropic-tool-output" => req.api = "anthropic"
    PROVE  IInv'
<1>1. source' = src /\ prompt' = p /\ pc' = "sync" /\ UNCHANGED <<tokens, valid, live, disk, req, out>>
  BY DEF Prefill
<1>2. p \in Histories
  BY DEF Starts
<1>3. JobTypes'
  BY <1>1, <1>2 DEF IInv, JobTypes
<1>4. ReqInv'
  BY <1>1 DEF IInv, ReqInv, Asked
<1>5. SyncInv'
  <2>1. Starts(prompt') /\ Visible(prompt') = Asked'
    BY <1>1 DEF Asked
  <2>2. ASSUME src \in LiveSources, NEW b \in Bindings, live[b] # None
        PROVE  live[b].len <= Len(tokens) /\ (Bound(b) => Current(b))
    <3>1. PICK c \in Bindings : Bound(c)
      BY <2>2
    <3>2. live[b].len = Len(tokens)
      BY <2>2, <3>1 DEF Bound, IInv, LiveInv
    <3>3. Len(tokens) \in Nat
      BY DEF IInv, SessionTypes, Histories
    <3>4. Bound(b) => Current(b)
      BY <2>2 DEF IInv, TrustInv
    <3> QED
      BY <3>2, <3>3, <3>4
  <2>3. ContinuedBinding' \in {"responses", "anthropic"} => ContinuedBinding' = req'.api
    BY <1>1 DEF ContinuedBinding
  <2>4. src \in LiveSources => valid' /\ SeqExt!IsPrefix(tokens', prompt')
    BY <1>1
  <2>5. src \in LiveSources => \A b \in Bindings : live'[b] # None =>
            live'[b].len <= Len(tokens') /\ (Bound(b)' => Current(b)')
    BY <1>1, <2>2 DEF Bound, Current
  <2>6. src \notin LiveSources /\ valid' => \A b \in Bindings : Bound(b)' => Current(b)'
    BY <1>1 DEF IInv, TrustInv, Bound, Current
  <2> QED
    BY <1>1, <2>1, <2>3, <2>4, <2>5, <2>6 DEF SyncInv
<1> QED
  BY <1>1, <1>3, <1>4, <1>5
     DEF IInv, SessionTypes, DiskInv, LiveInv, WellMade, TrustInv, TurnInv, RewriteInv

(* The binding b shows what a request starts with: the session continues   *)
(* it.                                                                     *)
LEMMA VisibleHitContinues ==
    ASSUME IInv, pc = "choose", NEW b \in Bindings, VisibleHit(b),
           NEW p, p = tokens \o After(req.text, Len(live[b].visible))
    PROVE  Starts(p) /\ Visible(p) = Asked /\ SeqExt!IsPrefix(tokens, p) /\ valid /\ Bound(b)
<1>1. PICK v : v = live[b].visible
  OBVIOUS
<1>2. /\ valid /\ Bound(b) /\ live[b] # None /\ v # None
      /\ SeqExt!IsPrefix(v, req.text) /\ v # req.text
  BY <1>1 DEF VisibleHit, Resumes, Bound, SeqExt!IsStrictPrefix
<1>3. live[b] \in BindingRecords
  BY <1>2 DEF IInv, LiveInv
<1>4. v \in Histories /\ v # <<>> /\ (Head(v) = Head(Suffix) => Len(v) >= Len(Suffix))
  BY <1>1, <1>2, <1>3 DEF IInv, LiveInv, WellMade, BindingRecords
<1>5. req.text \in Histories /\ req.full \in BOOLEAN
  BY DEF IInv, JobTypes, RequestRecords
<1>6. Head(v) = Head(req.text) /\ req.text = v \o After(req.text, Len(v)) /\ After(req.text, Len(v)) \in Histories
  BY <1>2, <1>4, <1>5, PrefixHead, PrefixSplit
<1>7. req.full
  <2> SUFFICES ASSUME ~req.full PROVE FALSE
    OBVIOUS
  <2>1. req.text = Suffix
    BY DEF IInv, ReqInv
  <2>2. Len(v) >= Len(Suffix) /\ Len(v) <= Len(Suffix)
    BY <1>2, <1>4, <1>6, <2>1 DEF SeqExt!IsPrefix
  <2>3. Len(v) = Len(Suffix)
    BY <1>4, <2>2, Given DEF Histories
  <2>4. After(req.text, Len(v)) = <<>>
    BY <2>1, <2>3, Given DEF After, Histories
  <2>5. v \o <<>> = v
    BY <1>4 DEF Histories
  <2> QED
    BY <1>2, <1>6, <2>4, <2>5
<1>8. Starts(req.text) /\ Visible(req.text) = Asked
  BY <1>7 DEF IInv, ReqInv
<1>9. Head(v) # Head(Suffix)
  BY <1>6, <1>8 DEF Starts
<1>10. Visible(v) = Visible(tokens)
  BY <1>1, <1>2, <1>9 DEF IInv, TrustInv, Current
<1>11. Starts(tokens) /\ tokens \in Histories
  BY <1>2 DEF IInv, SessionTypes
<1>12. Visible(p) = Visible(req.text)
  BY <1>1, <1>2, <1>4, <1>5, <1>10, <1>11, Continues
<1>13. Starts(p) /\ SeqExt!IsPrefix(tokens, p)
  BY <1>1, <1>6, <1>11, ConcatStarts
<1> QED
  BY <1>2, <1>8, <1>12, <1>13

LEMMA ChooseResponsesVisibleInv == IInv /\ ChooseResponsesVisible => IInv'
<1> SUFFICES ASSUME IInv, ChooseResponsesVisible PROVE IInv'
  OBVIOUS
<1>1. PICK p : p = tokens \o After(req.text, Len(live["responses"].visible))
  OBVIOUS
<1>2. /\ pc = "choose" /\ req.api = "responses" /\ VisibleHit("responses")
      /\ Prefill("responses-visible", p)
      /\ UNCHANGED <<tokens, valid, live, disk, req, out>>
  BY <1>1 DEF ChooseResponsesVisible, ResponsesVisible, sessionVars
<1>3. "responses" \in Bindings /\ "responses-visible" \in Sources /\ "responses-visible" \in LiveSources
  BY DEF Bindings, Sources, LiveSources
<1>4. Starts(p) /\ Visible(p) = Asked /\ SeqExt!IsPrefix(tokens, p) /\ valid /\ Bound("responses")
  BY <1>1, <1>2, <1>3, VisibleHitContinues
<1> QED
  BY <1>2, <1>3, <1>4, ChosenInv

LEMMA ChooseThinkingInv == IInv /\ ChooseThinking => IInv'
<1> SUFFICES ASSUME IInv, ChooseThinking PROVE IInv'
  OBVIOUS
<1>1. PICK p : p = tokens \o After(req.text, Len(live["thinking"].visible))
  OBVIOUS
<1>2. /\ pc = "choose" /\ VisibleHit("thinking")
      /\ Prefill("thinking-visible", p)
      /\ UNCHANGED <<tokens, valid, live, disk, req, out>>
  BY <1>1 DEF ChooseThinking, ThinkingHit, sessionVars
<1>3. "thinking" \in Bindings /\ "thinking-visible" \in Sources /\ "thinking-visible" \in LiveSources
  BY DEF Bindings, Sources, LiveSources
<1>4. Starts(p) /\ Visible(p) = Asked /\ SeqExt!IsPrefix(tokens, p) /\ valid /\ Bound("thinking")
  BY <1>1, <1>2, <1>3, VisibleHitContinues
<1> QED
  BY <1>2, <1>3, <1>4, ChosenInv

LEMMA ChooseToolOutputInv ==
    ASSUME IInv, NEW b \in {"responses", "anthropic"}, ChooseToolOutput(b)
    PROVE  IInv'
<1>1. PICK p : p = tokens \o Suffix
  OBVIOUS
<1>2. PICK src : src = IF b = "responses" THEN "responses-tool-output" ELSE "anthropic-tool-output"
  OBVIOUS
<1>3. /\ pc = "choose" /\ CallsHit(b) /\ Prefill(src, p)
      /\ UNCHANGED <<tokens, valid, live, disk, req, out>>
  BY <1>1, <1>2 DEF ChooseToolOutput, sessionVars
<1>4. /\ req.api = b /\ req.ids # None /\ valid /\ Bound(b) /\ live[b].calls = req.ids
  BY <1>3 DEF CallsHit, Resumes
<1>5. b \in Bindings /\ src \in Sources /\ src \in LiveSources
  BY <1>2 DEF Bindings, Sources, LiveSources
<1>6. Visible(req.ids) = Visible(tokens)
  BY <1>3, <1>4, <1>5 DEF IInv, TrustInv, Current
<1>7. Starts(tokens) /\ tokens \in Histories
  BY <1>4 DEF IInv, SessionTypes
<1>8. Visible(p) = Asked
  <2>1. Suffix \in Histories /\ Visible(Suffix) = Suffix
    BY Given
  <2>2. Visible(tokens \o Suffix) = Visible(tokens) \o Visible(Suffix)
    BY <1>7, <2>1, VisibleConcat
  <2> QED
    BY <1>1, <1>4, <1>6, <2>1, <2>2, Zenon DEF Asked
<1>9. Starts(p) /\ SeqExt!IsPrefix(tokens, p)
  BY <1>1, <1>7, Given, ConcatStarts
<1>10. /\ src # "disk-text"
       /\ src \in {"responses-visible", "responses-tool-output"} => req.api = "responses"
       /\ src = "anthropic-tool-output" => req.api = "anthropic"
  BY <1>2, <1>4
<1> QED
  BY <1>3, <1>4, <1>5, <1>8, <1>9, <1>10, ChosenInv

LEMMA UnavailableInv == IInv /\ Unavailable => IInv'
<1> SUFFICES ASSUME IInv, Unavailable PROVE IInv'
  OBVIOUS
<1>1. /\ pc = "choose" /\ pc' = "idle" /\ req' = NoReq
      /\ UNCHANGED <<tokens, valid, live, disk, prompt, source, out>>
  BY DEF Unavailable, sessionVars
<1>2. NoReq \in RequestRecords
  BY Given DEF NoReq, RequestRecords, Apis
<1>3. JobTypes' /\ ReqInv'
  BY <1>1, <1>2 DEF IInv, JobTypes, ReqInv
<1> QED
  BY <1>1, <1>3
     DEF IInv, SessionTypes, DiskInv, LiveInv, WellMade, TrustInv, Bound, Current,
         SyncInv, TurnInv, RewriteInv

LEMMA ChooseMemoryInv == IInv /\ ChooseMemory => IInv'
<1> SUFFICES ASSUME IInv, ChooseMemory PROVE IInv'
  OBVIOUS
<1>1. PICK p : p = req.text
  OBVIOUS
<1>2. /\ pc = "choose" /\ req.full /\ Prefill("memory-token", p)
      /\ UNCHANGED <<tokens, valid, live, disk, req, out>>
  BY <1>1 DEF ChooseMemory, sessionVars
<1>3. Starts(p) /\ Visible(p) = Asked
  BY <1>1, <1>2 DEF IInv, ReqInv
<1>4. "memory-token" \in Sources /\ "memory-token" \notin LiveSources
  BY DEF Sources, LiveSources
<1> QED
  BY <1>2, <1>3, <1>4, ChosenInv

LEMMA ChooseRewindInv == IInv /\ ChooseRewind => IInv'
<1> SUFFICES ASSUME IInv, ChooseRewind PROVE IInv'
  OBVIOUS
<1>1. /\ pc = "choose" /\ req.full /\ RewindHit
      /\ tokens' = SubSeq(tokens, 1, Len(req.text) - 1)
      /\ UNCHANGED <<live, disk, req, out>>
  BY DEF ChooseRewind
<1>2. Starts(tokens) /\ tokens \in Histories /\ Len(tokens) \in Nat /\ Len(tokens) <= Ctx
  BY <1>1 DEF IInv, SessionTypes, RewindHit, Histories
<1>3. PICK n : n = Len(req.text) - 1
  OBVIOUS
<1>4. n \in 0..Len(tokens) /\ n # 0
  <2>1. req.text \in Histories
    BY DEF IInv, JobTypes, RequestRecords
  <2>2. Len(req.text) \in Nat /\ Len(req.text) > 1 /\ Len(req.text) <= Len(tokens)
    BY <1>1, <2>1 DEF RewindHit, SeqExt!IsStrictPrefix, SeqExt!IsPrefix, Histories
  <2>3. \A m, k \in Nat : m > 1 /\ m <= k => m - 1 \in 0..k /\ m - 1 # 0
    OBVIOUS
  <2>4. Len(req.text) - 1 \in 0..Len(tokens) /\ Len(req.text) - 1 # 0
    BY <1>2, <2>2, <2>3
  <2> QED
    BY <1>3, <2>4
<1>5. tokens' \in Histories /\ Len(tokens') = n /\ (tokens' # <<>> => Starts(tokens'))
  BY <1>1, <1>2, <1>3, <1>4, SliceProperties
<1>6. tokens' # <<>>
  <2>1. Len(<<>>) = 0
    OBVIOUS
  <2> QED
    BY <1>4, <1>5, <2>1
<1>7. Starts(req.text) /\ Visible(req.text) = Asked
  BY <1>1 DEF IInv, ReqInv
<1>11. SeqExt!IsPrefix(tokens', req.text)
  <2>1. req.text \in Histories /\ SeqExt!IsPrefix(req.text, tokens)
    BY <1>1 DEF IInv, JobTypes, RequestRecords, RewindHit, SeqExt!IsStrictPrefix
  <2>2. PICK t : t = req.text
    OBVIOUS
  <2>3. t \in Histories /\ tokens = t \o After(tokens, Len(t)) /\ After(tokens, Len(t)) \in Histories
    BY <1>2, <2>1, <2>2, PrefixSplit
  <2>4. PICK a \in Histories : tokens = t \o a
    BY <2>3
  <2>5. Len(t) \in Nat /\ n = Len(t) - 1 /\ n \in Nat /\ n <= Len(t)
    BY <1>3, <1>4, <2>2, <2>3 DEF Histories
  <2>6. SubSeq(tokens, 1, n) = SubSeq(t, 1, n)
    BY <2>3, <2>4, <2>5 DEF Histories
  <2>7. n \in 0..Len(t)
    BY <2>5
  <2>8. SeqExt!IsPrefix(SubSeq(t, 1, n), t)
    BY <2>3, <2>7, SliceProperties
  <2> QED
    BY <1>1, <1>3, <2>2, <2>6, <2>8
<1>8. n <= Ctx
  BY <1>2, <1>4, Given
<1>9. DiskInv' /\ LiveInv'
  BY <1>1 DEF IInv, DiskInv, LiveInv, WellMade
<1>10. ReqInv' /\ TurnInv' /\ RewriteInv' /\ TrustInv' /\ SyncInv' /\ JobTypes' /\ SessionTypes'
  <2>1. CASE valid' = TRUE /\ Prefill("memory-rewind", req.text)
    <3>1. valid' /\ valid' \in BOOLEAN /\ source' = "memory-rewind" /\ prompt' = req.text /\ pc' = "sync"
      BY <2>1 DEF Prefill
    <3>2. SessionTypes'
      BY <1>5, <1>6, <1>8, <3>1 DEF SessionTypes
    <3>3. JobTypes'
      BY <1>1, <1>7, <3>1 DEF IInv, JobTypes, Sources, Starts
    <3>4. ReqInv' /\ TurnInv' /\ RewriteInv' /\ TrustInv'
      BY <1>1, <3>1 DEF IInv, ReqInv, Asked, TurnInv, RewriteInv, TrustInv
    <3>5. SyncInv'
      BY <1>1, <1>7, <1>11, <3>1 DEF SyncInv, Asked, LiveSources, ContinuedBinding
    <3> QED
      BY <3>2, <3>3, <3>4, <3>5
  <2>2. CASE valid' = FALSE /\ UNCHANGED <<pc, prompt, source>>
    <3>1. ~valid' /\ valid' \in BOOLEAN
      BY <2>2
    <3>2. SessionTypes'
      BY <1>5, <1>8, <3>1 DEF SessionTypes
    <3>3. JobTypes'
      BY <1>1, <2>2 DEF IInv, JobTypes
    <3> QED
      BY <1>1, <2>2, <3>1, <3>2, <3>3 DEF IInv, ReqInv, Asked, TurnInv, RewriteInv, TrustInv, SyncInv
  <2> QED
    BY <2>1, <2>2 DEF ChooseRewind
<1> QED
  BY <1>9, <1>10 DEF IInv

(* What is stored under a key with the same visible text.                  *)
LEMMA StoredInv ==
    ASSUME IInv, valid, NEW key \in Histories, key # <<>>,
           Head(key) # Head(Suffix) => Visible(key) = Visible(tokens),
           disk' = Stored(key)
    PROVE  DiskInv'
<1>1. DiskInv /\ Starts(tokens) /\ Len(tokens) <= Ctx
  BY DEF IInv, SessionTypes
<1>2. CASE key \in DOMAIN disk \/ Cardinality(DOMAIN disk) >= MaxFiles
  <2>1. disk' = disk
    BY <1>2 DEF Stored
  <2> QED
    BY <1>1, <2>1 DEF DiskInv
<1>3. CASE ~(key \in DOMAIN disk \/ Cardinality(DOMAIN disk) >= MaxFiles)
  <2>1. disk' = [k \in DOMAIN disk \cup {key} |-> IF k = key THEN tokens ELSE disk[k]]
    BY <1>3 DEF Stored
  <2>2. DOMAIN disk' = DOMAIN disk \cup {key} /\ disk' = [k \in DOMAIN disk' |-> disk'[k]]
    BY <2>1
  <2>3. IsFiniteSet(DOMAIN disk) /\ Cardinality(DOMAIN disk) \in Nat
    BY <1>1, FS_CardinalityType DEF DiskInv
  <2>4. IsFiniteSet(DOMAIN disk') /\ Cardinality(DOMAIN disk') = Cardinality(DOMAIN disk) + 1
    BY <1>3, <2>2, <2>3, FS_AddElement
  <2>5. Cardinality(DOMAIN disk') <= MaxFiles
    BY <1>3, <2>3, <2>4, Given
  <2>6. ASSUME NEW k \in DOMAIN disk'
        PROVE  /\ k \in Histories /\ k # <<>>
               /\ Starts(disk'[k]) /\ Len(disk'[k]) <= Ctx
               /\ Head(k) # Head(Suffix) => Visible(k) = Visible(disk'[k])
    <3>1. CASE k = key
      <4>1. disk'[k] = tokens
        BY <2>1, <3>1
      <4> QED
        BY <1>1, <3>1, <4>1
    <3>2. CASE k # key
      <4>1. k \in DOMAIN disk /\ disk'[k] = disk[k]
        BY <2>1, <2>2, <3>2
      <4> QED
        BY <1>1, <4>1 DEF DiskInv
    <3> QED
      BY <3>1, <3>2
  <2> QED
    BY <2>2, <2>4, <2>5, <2>6 DEF DiskInv
<1> QED
  BY <1>2, <1>3

LEMMA StoreContinuedInv == IInv /\ StoreContinued => IInv'
<1> SUFFICES ASSUME IInv, StoreContinued PROVE IInv'
  OBVIOUS
<1>1. valid /\ disk' = Stored(tokens) /\ UNCHANGED <<tokens, valid, live, pc, req, prompt, source, out>>
  BY DEF StoreContinued, sessionVars, jobVars
<1>2. PICK key : key = tokens
  OBVIOUS
<1>3. key \in Histories /\ key # <<>> /\ Visible(key) = Visible(tokens) /\ disk' = Stored(key)
  BY <1>1, <1>2 DEF IInv, SessionTypes, Starts
<1>4. DiskInv'
  BY <1>1, <1>3, StoredInv
<1> QED
  BY <1>1, <1>4
     DEF IInv, SessionTypes, JobTypes, ReqInv, Asked, LiveInv, WellMade, TrustInv, Bound, Current,
         SyncInv, ContinuedBinding, TurnInv, RewriteInv

(* The session is stored under its own text, or the visible text of a      *)
(* binding that is about it.                                               *)
LEMMA StoreKeyProperties ==
    ASSUME IInv, pc \in {"idle", "choose"}, valid, NEW key, key = StoreKey
    PROVE  /\ key \in Histories /\ key # <<>>
           /\ Head(key) # Head(Suffix) => Visible(key) = Visible(tokens)
<1>1. ASSUME NEW b \in {"responses", "thinking"}, Bound(b), key = live[b].visible
      PROVE  /\ key \in Histories /\ key # <<>>
             /\ Head(key) # Head(Suffix) => Visible(key) = Visible(tokens)
  <2>1. b \in Bindings /\ b # "anthropic" /\ live[b] # None
    BY <1>1 DEF Bindings, Bound
  <2>2. live[b] \in BindingRecords /\ WellMade(b)
    BY <2>1 DEF IInv, LiveInv
  <2>3. key # None /\ key # <<>> /\ key \in Histories
    BY <1>1, <2>1, <2>2 DEF WellMade, BindingRecords
  <2>4. Current(b)
    BY <1>1, <2>1 DEF IInv, TrustInv
  <2> QED
    BY <1>1, <2>3, <2>4 DEF Current
<1>2. CASE Bound("responses")
  <2>1. key = live["responses"].visible
    BY <1>2 DEF StoreKey
  <2> QED
    BY <1>1, <1>2, <2>1
<1>3. CASE ~Bound("responses") /\ Bound("thinking")
  <2>1. key = live["thinking"].visible
    BY <1>3 DEF StoreKey
  <2> QED
    BY <1>1, <1>3, <2>1
<1>4. CASE ~Bound("responses") /\ ~Bound("thinking")
  <2>1. key = tokens
    BY <1>4 DEF StoreKey
  <2> QED
    BY <2>1 DEF IInv, SessionTypes, Starts
<1> QED
  BY <1>2, <1>3, <1>4

LEMMA ChooseDiskInv == IInv /\ ChooseDisk => IInv'
<1> SUFFICES ASSUME IInv, ChooseDisk PROVE IInv'
  OBVIOUS
<1>1. /\ pc = "choose" /\ req.full
      /\ disk' = IF valid THEN Stored(StoreKey) ELSE disk
      /\ UNCHANGED <<live, req, out>>
  BY DEF ChooseDisk, Miss
<1>2. DiskInv'
  <2>1. CASE valid
    <3>1. PICK key : key = StoreKey
      OBVIOUS
    <3>2. disk' = Stored(key)
      BY <1>1, <2>1, <3>1
    <3> QED
      BY <1>1, <2>1, <3>1, <3>2, StoreKeyProperties, StoredInv
  <2>2. CASE ~valid
    <3>1. disk' = disk
      BY <1>1, <2>2
    <3> QED
      BY <3>1 DEF IInv, DiskInv
  <2> QED
    BY <2>1, <2>2
<1>3. req.text \in Histories /\ Starts(req.text) /\ Visible(req.text) = Asked /\ Len(req.text) < Ctx
  BY <1>1 DEF IInv, ReqInv, Starts
<1>4. LiveInv'
  BY <1>1 DEF IInv, LiveInv, WellMade
<1>5. SessionTypes' /\ JobTypes' /\ ReqInv' /\ SyncInv' /\ pc' = "sync"
  <2>1. CASE \E k \in DOMAIN disk' :
               /\ SeqExt!IsPrefix(k, req.text)
               /\ tokens' = disk'[k] /\ valid' = TRUE
               /\ Prefill("disk-text", disk'[k] \o After(req.text, Len(k)))
    <3>1. PICK k \in DOMAIN disk' :
               /\ SeqExt!IsPrefix(k, req.text)
               /\ tokens' = disk'[k] /\ valid' = TRUE
               /\ Prefill("disk-text", disk'[k] \o After(req.text, Len(k)))
      BY <2>1
    <3>2. PICK h : h = disk'[k]
      OBVIOUS
    <3>3. /\ k \in Histories /\ k # <<>> /\ Starts(h) /\ h \in Histories /\ Len(h) <= Ctx
          /\ Head(k) # Head(Suffix) => Visible(k) = Visible(h)
      BY <1>2, <3>2 DEF DiskInv, Starts
    <3>4. Head(k) = Head(req.text) /\ After(req.text, Len(k)) \in Histories
      BY <1>3, <3>1, <3>3, PrefixHead, PrefixSplit
    <3>5. Visible(k) = Visible(h)
      BY <1>3, <3>3, <3>4 DEF Starts
    <3>6. PICK p : p = h \o After(req.text, Len(k))
      OBVIOUS
    <3>7. Starts(p) /\ Visible(p) = Asked /\ p \in Histories /\ SeqExt!IsPrefix(h, p)
      BY <1>3, <3>1, <3>3, <3>4, <3>5, <3>6, Continues, ConcatStarts
    <3>8. tokens' = h /\ valid' /\ valid' \in BOOLEAN /\ source' = "disk-text" /\ prompt' = p /\ pc' = "sync"
      BY <3>1, <3>2, <3>6 DEF Prefill
    <3>9. SessionTypes'
      BY <3>3, <3>8 DEF SessionTypes
    <3>10. JobTypes'
      BY <1>1, <3>7, <3>8 DEF IInv, JobTypes, Sources
    <3>11. ReqInv'
      BY <1>1, <3>8 DEF IInv, ReqInv, Asked
    <3>12. SyncInv'
      BY <1>1, <3>7, <3>8 DEF SyncInv, Asked, LiveSources, ContinuedBinding
    <3> QED
      BY <3>8, <3>9, <3>10, <3>11, <3>12
  <2>2. CASE Prefill("none", req.text) /\ UNCHANGED sessionVars
    <3>1. source' = "none" /\ prompt' = req.text /\ pc' = "sync" /\ UNCHANGED <<tokens, valid>>
      BY <2>2 DEF Prefill, sessionVars
    <3>2. SessionTypes'
      BY <3>1 DEF IInv, SessionTypes
    <3>3. JobTypes'
      BY <1>1, <1>3, <3>1 DEF IInv, JobTypes, Sources
    <3>4. ReqInv'
      BY <1>1, <3>1 DEF IInv, ReqInv, Asked
    <3>5. SyncInv'
      <4>1. valid' => \A b \in Bindings : Bound(b)' => Current(b)'
        BY <1>1, <3>1 DEF IInv, TrustInv, Bound, Current
      <4> QED
        BY <1>1, <1>3, <3>1, <4>1 DEF SyncInv, Asked, LiveSources, ContinuedBinding
    <3> QED
      BY <3>1, <3>2, <3>3, <3>4, <3>5
  <2> QED
    BY <2>1, <2>2 DEF ChooseDisk
<1> QED
  BY <1>2, <1>4, <1>5 DEF IInv, TrustInv, TurnInv, RewriteInv

(* Slices of a prompt start like it, and one more makes the session longer.*)
LEMMA SliceOf ==
    ASSUME SessionTypes, NEW p, Starts(p), NEW t \in Slices(p)
    PROVE  /\ t \in Histories /\ SeqExt!IsPrefix(t, p) /\ Len(t) \in Nat /\ Len(t) <= Len(p)
           /\ t # <<>> => Starts(t)
           /\ Resumed(p) /\ t # tokens => Len(tokens) < Len(t)
<1>1. p \in Histories /\ tokens \in Histories /\ Len(p) \in Nat /\ Len(tokens) \in Nat
  BY DEF Starts, SessionTypes, Histories
<1>2. PICK n \in (IF Resumed(p) THEN Len(tokens) ELSE 0)..Len(p) : t = SubSeq(p, 1, n)
  BY DEF Slices
<1>3. n \in 0..Len(p)
  BY <1>1, <1>2
<1>4. /\ t \in Histories /\ SeqExt!IsPrefix(t, p) /\ Len(t) = n
      /\ t # <<>> => Starts(t)
  BY <1>1, <1>2, <1>3, SliceProperties
<1>5. ASSUME Resumed(p), t # tokens PROVE Len(tokens) < Len(t)
  <2>1. SubSeq(tokens, 1, Len(tokens)) = SubSeq(p, 1, Len(tokens))
    BY <1>5 DEF Resumed, SeqExt!IsPrefix
  <2>2. SubSeq(tokens, 1, Len(tokens)) = tokens
    BY <1>1 DEF Histories
  <2>3. n \in Len(tokens)..Len(p)
    BY <1>2, <1>5
  <2>4. n # Len(tokens)
    BY <1>2, <1>5, <2>1, <2>2
  <2> QED
    BY <1>1, <1>4, <2>3, <2>4
<1> QED
  BY <1>1, <1>3, <1>4, <1>5

LEMMA SyncSliceInv == IInv /\ SyncSlice => IInv'
<1> SUFFICES ASSUME IInv, SyncSlice PROVE IInv'
  OBVIOUS
<1>1. /\ pc \in {"sync", "rewrite"} /\ valid' /\ valid' \in BOOLEAN
      /\ UNCHANGED <<live, disk, pc, req, prompt, source, out>>
  BY DEF SyncSlice, jobVars
<1>2. PICK t \in Slices(prompt) : /\ tokens' = t /\ t # <<>> /\ t # prompt /\ Len(t) < Ctx
                                  /\ Resumed(prompt) => t # tokens
  BY DEF SyncSlice
<1>3. PICK p : p = prompt
  OBVIOUS
<1>4. Starts(p) /\ SessionTypes
  BY <1>1, <1>3 DEF IInv, SyncInv, RewriteInv
<1>5. /\ t \in Histories /\ SeqExt!IsPrefix(t, p) /\ Len(t) \in Nat /\ Starts(t)
      /\ Resumed(p) => Len(tokens) < Len(t)
  BY <1>2, <1>3, <1>4, SliceOf
<1>6. SessionTypes'
  <2>1. Len(t) <= Ctx
    BY <1>2, <1>5, Given
  <2> QED
    BY <1>1, <1>2, <1>5, <2>1 DEF SessionTypes
<1>7. DiskInv' /\ JobTypes' /\ ReqInv' /\ LiveInv' /\ TrustInv' /\ TurnInv' /\ RewriteInv'
  BY <1>1, <1>2, <1>3, <1>5 DEF IInv, DiskInv, JobTypes, ReqInv, Asked, LiveInv, WellMade, TrustInv, TurnInv, RewriteInv
<1>8. SyncInv'
  <2> SUFFICES ASSUME pc = "sync" PROVE SyncInv'
    BY <1>1 DEF SyncInv
  <2>1. Starts(prompt') /\ Visible(prompt') = Asked'
    BY <1>1 DEF IInv, SyncInv, Asked
  <2>2. ASSUME source \in LiveSources
        PROVE  \A b \in Bindings : live[b] # None => live[b].len < Len(t)
    <3>1. SUFFICES ASSUME NEW b \in Bindings, live[b] # None PROVE live[b].len < Len(t)
      OBVIOUS
    <3>2. live[b].len <= Len(tokens) /\ Resumed(p)
      BY <1>3, <2>2, <3>1 DEF IInv, SyncInv, Resumed
    <3>3. live[b] \in BindingRecords
      BY <3>1 DEF IInv, LiveInv
    <3>4. live[b].len \in Nat /\ Len(tokens) \in Nat
      BY <3>3, Given DEF BindingRecords, IInv, SessionTypes, Histories
    <3> QED
      BY <1>5, <3>2, <3>4
  <2>3. ASSUME source \in LiveSources, NEW b \in Bindings, live'[b] # None
        PROVE  live'[b].len <= Len(tokens') /\ ~Bound(b)'
    <3>1. live[b].len < Len(t) /\ live[b] \in BindingRecords
      BY <1>1, <2>2, <2>3 DEF IInv, LiveInv
    <3>2. live[b].len \in Nat
      BY <3>1, Given DEF BindingRecords
    <3>3. live[b].len <= Len(t) /\ live[b].len # Len(t)
      BY <1>5, <3>1, <3>2
    <3> QED
      BY <1>1, <1>2, <3>3 DEF Bound
  <2>4. SeqExt!IsPrefix(tokens', prompt')
    BY <1>1, <1>2, <1>3, <1>5
  <2>6. ContinuedBinding' \in {"responses", "anthropic"} => ContinuedBinding' = req'.api
    BY <1>1 DEF IInv, SyncInv, ContinuedBinding
  <2> QED
    BY <1>1, <2>1, <2>3, <2>4, <2>6 DEF SyncInv
<1> QED
  BY <1>6, <1>7, <1>8 DEF IInv

LEMMA SyncOkInv == IInv /\ SyncOk => IInv'
<1> SUFFICES ASSUME IInv, SyncOk PROVE IInv'
  OBVIOUS
<1>1. /\ pc = "sync" /\ pc' = "decode" /\ Len(prompt) < Ctx
      /\ tokens' = prompt /\ valid' /\ valid' \in BOOLEAN
      /\ live' = [b \in Bindings |-> IF b = ContinuedBinding THEN live[b] ELSE None]
      /\ UNCHANGED <<disk, req, prompt, source, out>>
  BY DEF SyncOk, Synced
<1>2. Starts(prompt) /\ prompt \in Histories /\ Visible(prompt) = Asked
  BY <1>1 DEF IInv, SyncInv, Starts
<1>3. Len(prompt) \in Nat
  BY <1>2 DEF Histories
<1>4. SessionTypes'
  <2>1. Len(prompt) <= Ctx
    BY <1>1, <1>3, Given
  <2> QED
    BY <1>1, <1>2, <2>1 DEF SessionTypes
<1>5. DiskInv' /\ JobTypes' /\ ReqInv' /\ TrustInv' /\ SyncInv' /\ RewriteInv'
  BY <1>1 DEF IInv, DiskInv, JobTypes, ReqInv, Asked, TrustInv, SyncInv, RewriteInv
<1>6. \A b \in Bindings : live'[b] # None => live'[b] = live[b] /\ b = ContinuedBinding
  BY <1>1
<1>7. LiveInv'
  <2>1. live' \in [Bindings -> BindingRecords \cup {None}]
    BY <1>1 DEF IInv, LiveInv
  <2>2. \A b \in Bindings : live'[b] # None => WellMade(b)'
    BY <1>6 DEF IInv, LiveInv, WellMade
  <2>3. \A b, c \in Bindings : live'[b] # None /\ live'[c] # None => live'[b].len = live'[c].len
    BY <1>6
  <2> QED
    BY <2>1, <2>2, <2>3 DEF LiveInv
<1>8. TurnInv'
  <2>1. \A b \in {"responses", "anthropic"} : live'[b] # None => req'.api = b
    BY <1>1, <1>6 DEF IInv, SyncInv, Bindings
  <2> QED
    BY <1>1, <1>2, <2>1 DEF TurnInv, Asked
<1> QED
  BY <1>4, <1>5, <1>7, <1>8 DEF IInv

(* The request ends without a binding.                                     *)
LEMMA UnboundInv ==
    ASSUME IInv, Finish, \A b \in Bindings : live'[b] = None, live' \in [Bindings -> {None}],
           DiskInv', SessionTypes'
    PROVE  IInv'
<1>1. pc' = "idle" /\ req' = NoReq /\ prompt' = <<>> /\ source' = "none" /\ out' = <<>>
  BY DEF Finish
<1>2. JobTypes'
  BY <1>1, Given DEF JobTypes, NoReq, RequestRecords, Apis, Sources
<1>3. LiveInv' /\ TrustInv'
  BY DEF LiveInv, TrustInv, Bound
<1> QED
  BY <1>1, <1>2, <1>3 DEF IInv, ReqInv, SyncInv, TurnInv, RewriteInv

(* The request ends with the bindings there were, which hold only for an   *)
(* unchanged session or for none.                                          *)
LEMMA BoundInv ==
    ASSUME IInv, Finish, LiveInv', DiskInv', SessionTypes',
           valid' => \A b \in Bindings : Bound(b)' => Current(b)'
    PROVE  IInv'
<1>1. pc' = "idle" /\ req' = NoReq /\ prompt' = <<>> /\ source' = "none" /\ out' = <<>>
  BY DEF Finish
<1>2. JobTypes'
  BY <1>1, Given DEF JobTypes, NoReq, RequestRecords, Apis, Sources
<1>3. TrustInv'
  BY DEF TrustInv
<1> QED
  BY <1>1, <1>2, <1>3 DEF IInv, ReqInv, SyncInv, TurnInv, RewriteInv

(* A prefill that ends early leaves the session as it was, or not valid.   *)
LEMMA FailsInv ==
    ASSUME IInv, NEW p, Starts(p), SyncFails(p)
    PROVE  SessionTypes' /\ (UNCHANGED <<tokens, valid>> \/ ~valid')
<1>1. CASE UNCHANGED <<tokens, valid>>
  BY <1>1 DEF IInv, SessionTypes
<1>2. CASE tokens' = <<>> /\ valid' = FALSE
  <2>1. Len(<<>>) <= Ctx /\ tokens' \in Histories
    BY <1>2, Given
  <2> QED
    BY <1>2, <2>1 DEF SessionTypes
<1>3. CASE ~(Len(p) >= Ctx) /\ tokens' \in Slices(p) /\ valid' = FALSE
  <2>1. PICK t \in Slices(p) : tokens' = t
    BY <1>3
  <2>2. SessionTypes /\ Len(p) \in Nat
    BY DEF IInv, Starts, Histories
  <2>3. t \in Histories /\ Len(t) \in Nat /\ Len(t) <= Len(p)
    BY <2>2, SliceOf
  <2>4. Len(t) <= Ctx
    BY <1>3, <2>2, <2>3, Given
  <2>5. ~valid' /\ valid' \in BOOLEAN
    BY <1>3
  <2> QED
    BY <2>1, <2>3, <2>4, <2>5 DEF SessionTypes
<1> QED
  BY <1>1, <1>2, <1>3 DEF SyncFails, sessionVars

(* The bindings stay when a prefill ends early: unless a part of another   *)
(* history is left, the session is theirs or not valid.                    *)
LEMMA EndsEarlyInv ==
    ASSUME IInv, Finish, UNCHANGED live, SessionTypes', DiskInv', LeavesPart, ~leftover',
           pc \in {"sync", "rewrite"}, UNCHANGED <<tokens, valid>> \/ ~valid'
    PROVE  IInv'
<1>1. LiveInv'
  BY DEF IInv, LiveInv, WellMade
<1>2. ASSUME valid', NEW b \in Bindings, Bound(b)' PROVE Current(b)'
  <2>1. UNCHANGED <<tokens, valid>> /\ valid
    BY <1>2
  <2>2. Bound(b)
    BY <1>2, <2>1 DEF Bound
  <2>3. ~(ContinuedBinding = "none" /\ SeqExt!IsPrefix(tokens, prompt))
    BY <1>2, <2>1 DEF LeavesPart
  <2>4. ContinuedBinding = "none" \/ source \in LiveSources
    BY DEF ContinuedBinding, LiveSources
  <2>5. source \notin LiveSources => ContinuedBinding = "none"
    BY DEF ContinuedBinding, LiveSources
  <2>6. pc # "rewrite"
    BY <2>1, <2>3, <2>5 DEF IInv, RewriteInv
  <2>7. Current(b)
    BY <2>1, <2>2, <2>3, <2>5, <2>6 DEF IInv, SyncInv, Bound
  <2> QED
    BY <2>1, <2>7 DEF Current
<1> QED
  BY <1>1, <1>2, BoundInv

(* A checkpoint leaves the store.                                          *)
LEMMA LessDisk ==
    ASSUME DiskInv, NEW k \in DOMAIN disk, disk' = [d \in DOMAIN disk \ {k} |-> disk[d]]
    PROVE  DiskInv'
<1>1. DOMAIN disk' = DOMAIN disk \ {k} /\ disk' = [d \in DOMAIN disk' |-> disk'[d]]
  OBVIOUS
<1>2. \A d \in DOMAIN disk' : d \in DOMAIN disk /\ disk'[d] = disk[d]
  OBVIOUS
<1>3. IsFiniteSet(DOMAIN disk') /\ Cardinality(DOMAIN disk') <= Cardinality(DOMAIN disk)
  BY <1>1, FS_Subset DEF DiskInv
<1>4. Cardinality(DOMAIN disk') \in Nat /\ Cardinality(DOMAIN disk) \in Nat
  BY <1>3, FS_CardinalityType DEF DiskInv
<1>5. Cardinality(DOMAIN disk') <= MaxFiles
  BY <1>3, <1>4, Given DEF DiskInv
<1> QED
  BY <1>1, <1>2, <1>3, <1>5 DEF DiskInv

LEMMA DiscardInv ==
    ASSUME IInv, Discard
    PROVE  SessionTypes' /\ ~valid' /\ DiskInv'
<1>1. tokens' = <<>> /\ ~valid' /\ valid' \in BOOLEAN
  BY DEF Discard
<1>2. SessionTypes'
  <2>1. Len(<<>>) <= Ctx
    BY Given
  <2> QED
    BY <1>1, <2>1, Given DEF SessionTypes
<1>3. DiskInv'
  <2>1. PICK k \in DOMAIN disk : disk' = [d \in DOMAIN disk \ {k} |-> disk[d]]
    BY DEF Discard
  <2> QED
    BY <2>1, LessDisk DEF IInv
<1> QED
  BY <1>1, <1>2, <1>3

LEMMA SyncFailedInv == IInv /\ SyncFailed /\ ~leftover' => IInv'
<1> SUFFICES ASSUME IInv, SyncFailed, ~leftover' PROVE IInv'
  OBVIOUS
<1>1. pc = "sync" /\ Finish /\ UNCHANGED live /\ LeavesPart
  BY DEF SyncFailed
<1>2. CASE SyncFails(prompt) /\ UNCHANGED disk
  <2>1. PICK p : p = prompt
    OBVIOUS
  <2>2. Starts(p) /\ SyncFails(p)
    BY <1>1, <1>2, <2>1 DEF IInv, SyncInv
  <2>3. SessionTypes' /\ (UNCHANGED <<tokens, valid>> \/ ~valid')
    BY <2>2, FailsInv
  <2>4. DiskInv'
    BY <1>2 DEF IInv, DiskInv
  <2> QED
    BY <1>1, <2>3, <2>4, EndsEarlyInv
<1>3. CASE Discard
  <2>1. SessionTypes' /\ ~valid' /\ DiskInv'
    BY <1>3, DiscardInv
  <2> QED
    BY <1>1, <2>1, EndsEarlyInv
<1> QED
  BY <1>2, <1>3 DEF SyncFailed

LEMMA InterruptedInv == IInv /\ Interrupted /\ ~leftover' => IInv'
<1> SUFFICES ASSUME IInv, Interrupted, ~leftover' PROVE IInv'
  OBVIOUS
<1>1. pc = "sync" /\ Finish /\ UNCHANGED live /\ LeavesPart
  BY DEF Interrupted
<1>2. CASE UNCHANGED <<tokens, valid, disk>>
  <2>1. SessionTypes' /\ DiskInv'
    BY <1>2 DEF IInv, SessionTypes, DiskInv
  <2> QED
    BY <1>1, <1>2, <2>1, EndsEarlyInv
<1>3. CASE Discard
  <2>1. SessionTypes' /\ ~valid' /\ DiskInv'
    BY <1>3, DiscardInv
  <2> QED
    BY <1>1, <2>1, EndsEarlyInv
<1> QED
  BY <1>2, <1>3 DEF Interrupted, sessionVars

LEMMA DecodeInv == IInv /\ Decode => IInv'
<1> SUFFICES ASSUME IInv, Decode PROVE IInv'
  OBVIOUS
<1>1. pc = "decode" /\ pc' = "publish" /\ UNCHANGED <<valid, live, disk, req, prompt, source>>
  BY DEF Decode
<1>2. PICK o \in Answers \cup Calls : Len(prompt) + Len(o) <= Ctx /\ out' = o /\ tokens' = prompt \o o
  BY DEF Decode
<1>3. Starts(prompt) /\ Visible(prompt) = Asked /\ o \in Histories
  BY <1>1, Given DEF IInv, TurnInv
<1>4. PICK p : p = prompt
  OBVIOUS
<1>5. Starts(p \o o) /\ p \o o \in Histories /\ Len(p \o o) = Len(p) + Len(o)
  BY <1>3, <1>4, ConcatStarts
<1>6. SessionTypes'
  BY <1>1, <1>2, <1>4, <1>5 DEF IInv, SessionTypes
<1>7. JobTypes'
  BY <1>1, <1>2, <1>3 DEF IInv, JobTypes
<1>8. TurnInv'
  BY <1>1, <1>2, <1>3 DEF IInv, TurnInv, Asked
<1> QED
  BY <1>1, <1>6, <1>7, <1>8
     DEF IInv, DiskInv, ReqInv, Asked, LiveInv, WellMade, TrustInv, SyncInv, RewriteInv

(* What a turn binds is about the session it leaves.                       *)
LEMMA RememberProperties ==
    ASSUME IInv, pc = "publish", NEW b \in Bindings, NEW m, m = Remember(b)
    PROVE  /\ m \in BindingRecords /\ m.len = Len(tokens)
           /\ m.calls # None => Starts(m.calls) /\ m.calls = tokens
           /\ b = "anthropic" <=> m.visible = None
           /\ m.visible # None =>
                /\ m.visible # <<>>
                /\ Head(m.visible) = Head(Suffix) => Len(m.visible) >= Len(Suffix)
                /\ Head(m.visible) # Head(Suffix) => Visible(m.visible) = Visible(tokens)
           /\ out \in Calls => b = "thinking" \/ m.calls = tokens
<1>1. /\ Starts(prompt) /\ prompt \in Histories /\ Visible(prompt) = Asked /\ valid
      /\ tokens = prompt \o out /\ out \in Histories /\ Starts(tokens)
  BY DEF IInv, TurnInv, JobTypes, SessionTypes, Starts
<1>2. tokens \in Histories /\ Len(tokens) \in Nat /\ Len(tokens) <= Ctx /\ req.text \in Histories
  BY DEF IInv, SessionTypes, Histories, JobTypes, RequestRecords
<1>3. PICK v : v = Visible(out)
  OBVIOUS
<1>4. v \in Histories /\ Visible(v) = v
  BY <1>1, <1>3, VisibleType, VisibleTwice
<1>5. PICK w : w = req.text \o v
  OBVIOUS
<1>6. w = Transcript /\ w \in Histories
  BY <1>2, <1>3, <1>4, <1>5 DEF Transcript, Histories
<1>7. /\ w # <<>>
      /\ Head(w) = Head(Suffix) => Len(w) >= Len(Suffix)
      /\ Head(w) # Head(Suffix) => Visible(w) = Visible(tokens)
  <2>1. CASE req.full
    <3>1. Starts(req.text) /\ Visible(req.text) = Asked
      BY <2>1 DEF IInv, ReqInv
    <3>2. Starts(w)
      BY <1>4, <1>5, <3>1, ConcatStarts
    <3>3. Visible(w) = Visible(req.text) \o v
      BY <1>2, <1>4, <1>5, VisibleConcat
    <3>4. Visible(tokens) = Visible(prompt) \o v
      BY <1>1, <1>3, VisibleConcat
    <3> QED
      BY <1>1, <3>1, <3>2, <3>3, <3>4 DEF Starts
  <2>2. CASE ~req.full
    <3>1. req.text = Suffix
      BY <2>2 DEF IInv, ReqInv
    <3>2. w # <<>> /\ Head(w) = Head(Suffix) /\ Len(w) >= Len(Suffix)
      BY <1>4, <1>5, <3>1, Given DEF Histories
    <3> QED
      BY <3>2
  <2> QED
    BY <2>1, <2>2
<1>8. /\ m = [visible |-> IF b = "anthropic" THEN None ELSE w,
              calls |-> IF b # "thinking" /\ out \in Calls THEN tokens ELSE None,
              len |-> Len(tokens)]
  BY <1>1, <1>6 DEF Remember
<1>9. /\ m.visible = IF b = "anthropic" THEN None ELSE w
      /\ m.calls = IF b # "thinking" /\ out \in Calls THEN tokens ELSE None
      /\ m.len = Len(tokens)
  BY <1>8
<1>10. w # None /\ tokens # None /\ Len(tokens) \in 0..Ctx
  BY <1>2, <1>6, Given
<1>11. m \in BindingRecords
  BY <1>2, <1>6, <1>8, <1>10 DEF BindingRecords
<1> QED
  BY <1>1, <1>7, <1>9, <1>10, <1>11

(* The bindings after a turn are new.                                      *)
LEMMA ReboundProperties ==
    ASSUME IInv, pc = "publish", NEW thinking \in BOOLEAN, NEW r, r = Rebound(thinking)
    PROVE  /\ r \in [Bindings -> BindingRecords \cup {None}]
           /\ \A b \in Bindings : r[b] # None => r[b] = Remember(b)
           /\ out \in Calls /\ req.api # "responses" => \A b \in Bindings : r[b] # None => b = "anthropic"
<1>1. live["responses"] # None => req.api = "responses"
  BY DEF IInv, TurnInv
<1>2. live["anthropic"] # None => req.api = "anthropic"
  BY DEF IInv, TurnInv
<1>3. r = [b \in Bindings |-> r[b]] /\ DOMAIN r = Bindings
  <2> DEFINE f(b) == CASE b = "responses" -> IF req.api = b THEN Remember(b) ELSE live[b]
                       [] b = "anthropic" -> IF req.api # b THEN live[b]
                                             ELSE IF out \in Calls THEN Remember(b) ELSE None
                       [] b = "thinking" -> IF out \notin Calls /\ thinking THEN Remember(b) ELSE None
  <2>1. r = [b \in Bindings |-> f(b)]
    BY DEF Rebound
  <2> HIDE DEF f
  <2> QED
    BY <2>1
<1>4. /\ r["responses"] = IF req.api = "responses" THEN Remember("responses") ELSE live["responses"]
      /\ r["anthropic"] = IF req.api # "anthropic" THEN live["anthropic"]
                          ELSE IF out \in Calls THEN Remember("anthropic") ELSE None
      /\ r["thinking"] = IF out \notin Calls /\ thinking THEN Remember("thinking") ELSE None
  BY DEF Rebound, Bindings
<1>5. ASSUME NEW b \in Bindings, r[b] # None
      PROVE  r[b] = Remember(b) /\ (out \in Calls /\ req.api # "responses" => b = "anthropic")
  <2>1. CASE b = "responses"
    BY <1>1, <1>4, <1>5, <2>1
  <2>2. CASE b = "anthropic"
    BY <1>2, <1>4, <1>5, <2>2
  <2>3. CASE b = "thinking"
    BY <1>4, <1>5, <2>3
  <2> QED
    BY <2>1, <2>2, <2>3 DEF Bindings
<1>6. \A b \in Bindings : Remember(b) \in BindingRecords
  <2>1. SUFFICES ASSUME NEW b \in Bindings PROVE Remember(b) \in BindingRecords
    OBVIOUS
  <2>2. PICK m : m = Remember(b)
    OBVIOUS
  <2>3. m \in BindingRecords
    BY <2>2, RememberProperties
  <2> QED
    BY <2>2, <2>3
<1>7. \A b \in Bindings : r[b] \in BindingRecords \cup {None}
  BY <1>5, <1>6
<1> QED
  BY <1>3, <1>5, <1>7

LEMMA MadeInv ==
    ASSUME IInv, pc = "publish", NEW n, live' \in [Bindings -> BindingRecords \cup {None}],
           \A b \in Bindings : live'[b] # None =>
                /\ live'[b].visible = Remember(b).visible /\ live'[b].calls = Remember(b).calls
                /\ live'[b].len = n
    PROVE  LiveInv' /\ (UNCHANGED tokens => \A b \in Bindings : Bound(b)' => Current(b)')
<1>1. ASSUME NEW b \in Bindings, live'[b] # None
      PROVE  WellMade(b)' /\ (UNCHANGED tokens => Current(b)')
  <2>1. PICK m : m = Remember(b)
    OBVIOUS
  <2>2. live'[b].visible = m.visible /\ live'[b].calls = m.calls
    BY <1>1, <2>1
  <2>3. /\ m.calls # None => Starts(m.calls) /\ m.calls = tokens
        /\ b = "anthropic" <=> m.visible = None
        /\ m.visible # None =>
            /\ m.visible # <<>>
            /\ Head(m.visible) = Head(Suffix) => Len(m.visible) >= Len(Suffix)
            /\ Head(m.visible) # Head(Suffix) => Visible(m.visible) = Visible(tokens)
    BY <2>1, RememberProperties
  <2> QED
    BY <2>2, <2>3 DEF WellMade, Current
<1> QED
  BY <1>1 DEF LiveInv, Bound

LEMMA PublishInv == IInv /\ Publish => IInv'
<1> SUFFICES ASSUME IInv, Publish PROVE IInv'
  OBVIOUS
<1>1. pc = "publish" /\ Finish /\ UNCHANGED <<tokens, valid, disk>>
  BY DEF Publish, sessionVars
<1>2. PICK thinking \in BOOLEAN : live' = Rebound(thinking)
  BY DEF Publish
<1>3. PICK r : r = Rebound(thinking)
  OBVIOUS
<1>4. /\ r \in [Bindings -> BindingRecords \cup {None}]
      /\ \A b \in Bindings : r[b] # None => r[b] = Remember(b)
  BY <1>1, <1>3, ReboundProperties
<1>5. \A b \in Bindings : Remember(b).len = Len(tokens)
  BY DEF Remember
<1>6. LiveInv' /\ \A b \in Bindings : Bound(b)' => Current(b)'
  <2>1. PICK n : n = Len(tokens)
    OBVIOUS
  <2>2. /\ live' \in [Bindings -> BindingRecords \cup {None}]
        /\ \A b \in Bindings : live'[b] # None =>
                /\ live'[b].visible = Remember(b).visible /\ live'[b].calls = Remember(b).calls
                /\ live'[b].len = n
    BY <1>2, <1>3, <1>4, <1>5, <2>1
  <2> QED
    BY <1>1, <2>2, MadeInv
<1>7. DiskInv' /\ SessionTypes'
  BY <1>1 DEF IInv, DiskInv, SessionTypes
<1> QED
  BY <1>1, <1>6, <1>7, BoundInv

LEMMA PublishStoppedInv == IInv /\ PublishStopped => IInv'
<1> SUFFICES ASSUME IInv, PublishStopped PROVE IInv'
  OBVIOUS
<1>1. pc = "publish" /\ Finish /\ tokens' = <<>> /\ ~valid' /\ valid' \in BOOLEAN /\ UNCHANGED disk
  BY DEF PublishStopped
<1>2. PICK thinking \in BOOLEAN :
        live' = [b \in Bindings |-> IF Rebound(thinking)[b] = None THEN None
                                    ELSE [Rebound(thinking)[b] EXCEPT !.len = 0]]
  BY DEF PublishStopped
<1>3. PICK r : r = Rebound(thinking)
  OBVIOUS
<1>4. /\ r \in [Bindings -> BindingRecords \cup {None}]
      /\ \A b \in Bindings : r[b] # None => r[b] = Remember(b)
  BY <1>1, <1>3, ReboundProperties
<1>5. live' = [b \in Bindings |-> IF r[b] = None THEN None ELSE [r[b] EXCEPT !.len = 0]]
  BY <1>2, <1>3
<1>6. ASSUME NEW b \in Bindings, live'[b] # None
      PROVE  /\ live'[b] \in BindingRecords
             /\ live'[b].visible = Remember(b).visible /\ live'[b].calls = Remember(b).calls
             /\ live'[b].len = 0
  <2>1. r[b] # None /\ live'[b] = [r[b] EXCEPT !.len = 0]
    BY <1>5, <1>6
  <2>2. PICK m : m = r[b]
    OBVIOUS
  <2>3. m \in BindingRecords /\ m = Remember(b) /\ live'[b] = [m EXCEPT !.len = 0]
    BY <1>4, <2>1, <2>2
  <2>4. 0 \in 0..Ctx
    BY Given
  <2>5. [m EXCEPT !.len = 0] \in BindingRecords
    BY <2>3, <2>4 DEF BindingRecords
  <2>6. /\ [m EXCEPT !.len = 0].visible = m.visible /\ [m EXCEPT !.len = 0].calls = m.calls
        /\ [m EXCEPT !.len = 0].len = 0
    BY <2>3 DEF BindingRecords
  <2> QED
    BY <2>3, <2>5, <2>6
<1>7. live' \in [Bindings -> BindingRecords \cup {None}]
  <2>1. DOMAIN live' = Bindings /\ live' = [b \in Bindings |-> live'[b]]
    BY <1>5
  <2> QED
    BY <1>6, <2>1
<1>8. LiveInv'
  BY <1>1, <1>6, <1>7, MadeInv
<1>9. DiskInv'
  BY <1>1 DEF IInv, DiskInv
<1>10. SessionTypes'
  <2>1. Len(<<>>) <= Ctx
    BY Given
  <2> QED
    BY <1>1, <2>1, Given DEF SessionTypes
<1> QED
  BY <1>1, <1>8, <1>9, <1>10, BoundInv

LEMMA PublishFailedInv == IInv /\ PublishFailed => IInv'
<1> SUFFICES ASSUME IInv, PublishFailed PROVE IInv'
  OBVIOUS
<1>1. /\ pc \in {"decode", "publish"} /\ Finish /\ valid' \in BOOLEAN /\ live' = Dropped
      /\ UNCHANGED <<tokens, disk>>
  BY DEF PublishFailed
<1>2. valid /\ SessionTypes
  BY <1>1 DEF IInv, TurnInv
<1>3. SessionTypes'
  BY <1>1, <1>2 DEF SessionTypes
<1>4. DiskInv'
  BY <1>1 DEF IInv, DiskInv
<1>5. live["responses"] # None => req.api = "responses"
  BY <1>1 DEF IInv, TurnInv
<1>6. live["anthropic"] # None => req.api = "anthropic"
  BY <1>1 DEF IInv, TurnInv
<1>7. live' = [b \in Bindings |-> None]
  BY <1>1, <1>5, <1>6 DEF Dropped, Bindings
<1>8. live' \in [Bindings -> {None}] /\ \A b \in Bindings : live'[b] = None
  BY <1>7
<1> QED
  BY <1>1, <1>3, <1>4, <1>8, UnboundInv

(* The next request renders what the session holds.                        *)
LEMMA CanonicalProperties ==
    ASSUME IInv, pc = "publish", out \in Calls, Rewritable, NEW c, c = Canonical
    PROVE  Starts(c) /\ c \in Histories /\ Visible(c) = Visible(tokens)
<1>1. /\ Starts(prompt) /\ prompt \in Histories /\ Visible(prompt) = Asked /\ valid
      /\ tokens = prompt \o out /\ out \in Histories /\ Starts(tokens) /\ tokens \in Histories
  BY DEF IInv, TurnInv, JobTypes, SessionTypes, Starts
<1>2. req.full
  <2>1. SUFFICES ASSUME ~req.full PROVE FALSE
    BY DEF IInv, JobTypes, RequestRecords
  <2>2. SeqExt!IsPrefix(Suffix, tokens)
    BY <2>1 DEF IInv, ReqInv, Rewritable
  <2> QED
    BY <1>1, <2>2, Given, PrefixHead DEF Starts
<1>3. Starts(req.text) /\ req.text \in Histories /\ Visible(req.text) = Asked
  BY <1>2 DEF IInv, ReqInv, Starts
<1>4. Rendered[out] \in Histories /\ Visible(Rendered[out]) = Visible(out)
  BY Given
<1>5. Starts(c) /\ c \in Histories
  BY <1>3, <1>4, ConcatStarts DEF Canonical
<1>6. Visible(c) = Visible(req.text) \o Visible(Rendered[out])
  BY <1>3, <1>4, VisibleConcat DEF Canonical
<1>7. Visible(tokens) = Visible(prompt) \o Visible(out)
  BY <1>1, VisibleConcat
<1> QED
  BY <1>1, <1>3, <1>4, <1>5, <1>6, <1>7

(* What is rebuilt says what the session said.                             *)
LEMMA RebuildProperties ==
    ASSUME IInv, pc = "publish", out \in Calls, Rewritable, Rebuild
    PROVE  /\ SessionTypes' /\ Starts(prompt') /\ prompt' \in Histories /\ Visible(prompt') = Visible(tokens)
           /\ source' \in Sources \ LiveSources
           /\ valid' => SeqExt!IsPrefix(tokens', prompt')
<1>1. PICK c : c = Canonical
  OBVIOUS
<1>2. Starts(c) /\ c \in Histories /\ Visible(c) = Visible(tokens)
  BY <1>1, CanonicalProperties
<1>6. source' \in Sources \ LiveSources
  BY DEF Rebuild, Sources, LiveSources
<1>3. CASE prompt' = c /\ UNCHANGED <<tokens, valid>> /\ SeqExt!IsPrefix(tokens, c)
  BY <1>2, <1>3, <1>6 DEF IInv, SessionTypes
<1>4. CASE prompt' = c /\ tokens' = <<>> /\ valid' = FALSE
  <2>1. Len(<<>>) <= Ctx
    BY Given
  <2> QED
    BY <1>2, <1>4, <1>6, <2>1, Given DEF SessionTypes
<1>5. CASE \E k \in DOMAIN disk :
             /\ SeqExt!IsPrefix(k, c)
             /\ prompt' = disk[k] \o After(c, Len(k))
             /\ tokens' = disk[k] /\ valid' = TRUE
  <2>1. PICK k \in DOMAIN disk :
             /\ SeqExt!IsPrefix(k, c)
             /\ prompt' = disk[k] \o After(c, Len(k))
             /\ tokens' = disk[k] /\ valid' = TRUE
    BY <1>5
  <2>2. PICK h : h = disk[k]
    OBVIOUS
  <2>3. /\ k \in Histories /\ k # <<>> /\ Starts(h) /\ h \in Histories /\ Len(h) <= Ctx
        /\ Head(k) # Head(Suffix) => Visible(k) = Visible(h)
    BY <2>2 DEF IInv, DiskInv, Starts
  <2>4. Head(k) = Head(c) /\ After(c, Len(k)) \in Histories
    BY <1>2, <2>1, <2>3, PrefixHead, PrefixSplit
  <2>5. Visible(k) = Visible(h)
    BY <1>2, <2>3, <2>4 DEF Starts
  <2>6. PICK p : p = h \o After(c, Len(k))
    OBVIOUS
  <2>7. Starts(p) /\ p \in Histories /\ Visible(p) = Visible(c) /\ SeqExt!IsPrefix(h, p)
    BY <1>2, <2>1, <2>3, <2>4, <2>5, <2>6, Continues, ConcatStarts
  <2>8. prompt' = p /\ tokens' = h /\ valid' /\ valid' \in BOOLEAN
    BY <2>1, <2>2, <2>6
  <2>9. SessionTypes'
    BY <2>3, <2>8 DEF SessionTypes
  <2> QED
    BY <1>2, <1>6, <2>7, <2>8, <2>9
<1> QED
  BY <1>1, <1>3, <1>4, <1>5 DEF Rebuild, sessionVars

LEMMA PublishCanonicalInv == IInv /\ PublishCanonical => IInv'
<1> SUFFICES ASSUME IInv, PublishCanonical PROVE IInv'
  OBVIOUS
<1>1. /\ pc = "publish" /\ out \in Calls /\ req.api # "responses"
      /\ live' = Rebound(FALSE) /\ UNCHANGED disk
  BY DEF PublishCanonical
<1>2. PICK r : r = Rebound(FALSE)
  OBVIOUS
<1>3. /\ r \in [Bindings -> BindingRecords \cup {None}]
      /\ \A b \in Bindings : r[b] # None => r[b] = Remember(b) /\ b = "anthropic"
  BY <1>1, <1>2, ReboundProperties
<1>4. \A b \in Bindings : Remember(b).len = Len(tokens)
  BY DEF Remember
<1>5. LiveInv' /\ (UNCHANGED tokens => \A b \in Bindings : Bound(b)' => Current(b)')
  <2>1. PICK n : n = Len(tokens)
    OBVIOUS
  <2>2. /\ live' \in [Bindings -> BindingRecords \cup {None}]
        /\ \A b \in Bindings : live'[b] # None =>
                /\ live'[b].visible = Remember(b).visible /\ live'[b].calls = Remember(b).calls
                /\ live'[b].len = n
    BY <1>1, <1>2, <1>3, <1>4, <2>1
  <2> QED
    BY <1>1, <2>2, MadeInv
<1>6. DiskInv'
  BY <1>1 DEF IInv, DiskInv
<1>7. CASE Rewritable /\ Rebuild /\ pc' = "rewrite" /\ UNCHANGED <<req, out>>
  <2>1. /\ SessionTypes' /\ Starts(prompt') /\ prompt' \in Histories /\ Visible(prompt') = Visible(tokens)
        /\ source' \in Sources \ LiveSources
        /\ valid' => SeqExt!IsPrefix(tokens', prompt')
    BY <1>1, <1>7, RebuildProperties
  <2>2. JobTypes'
    BY <1>7, <2>1 DEF IInv, JobTypes
  <2>3. ReqInv'
    BY <1>1, <1>7 DEF IInv, ReqInv, Asked
  <2>4. ASSUME NEW b \in Bindings, live'[b] # None
        PROVE  /\ b = "anthropic" /\ live'[b].calls # None
               /\ Visible(live'[b].calls) = Visible(prompt')
    <3>1. PICK m : m = Remember(b)
      OBVIOUS
    <3>2. b = "anthropic" /\ live'[b] = m
      BY <1>1, <1>2, <1>3, <2>4, <3>1
    <3>3. b = "thinking" \/ m.calls = tokens
      BY <1>1, <3>1, RememberProperties
    <3>4. tokens # None
      BY Given DEF IInv, SessionTypes
    <3> QED
      BY <2>1, <3>2, <3>3, <3>4
  <2>5. RewriteInv'
    BY <2>1, <2>4 DEF RewriteInv
  <2> QED
    BY <1>5, <1>6, <1>7, <2>1, <2>2, <2>3, <2>5 DEF IInv, TrustInv, SyncInv, TurnInv
<1>8. CASE ~Rewritable /\ Finish /\ UNCHANGED sessionVars
  <2>1. UNCHANGED <<tokens, valid>>
    BY <1>8 DEF sessionVars
  <2>2. SessionTypes'
    BY <2>1 DEF IInv, SessionTypes
  <2> QED
    BY <1>5, <1>6, <1>8, <2>1, <2>2, BoundInv
<1> QED
  BY <1>7, <1>8 DEF PublishCanonical

(* A prefill that is done leaves the prompt.                               *)
LEMMA SyncedInv ==
    ASSUME IInv, Starts(prompt), Synced
    PROVE  SessionTypes' /\ tokens' = prompt
<1>1. prompt \in Histories /\ Len(prompt) \in Nat /\ Len(prompt) < Ctx /\ tokens' = prompt /\ valid' = TRUE
  BY DEF Synced, Starts, Histories
<1>2. Len(prompt) <= Ctx
  BY <1>1, Given
<1> QED
  BY <1>1, <1>2 DEF SessionTypes

LEMMA RewrittenInv == IInv /\ Rewritten => IInv'
<1> SUFFICES ASSUME IInv, Rewritten PROVE IInv'
  OBVIOUS
<1>1. pc = "rewrite" /\ Synced /\ Finish /\ UNCHANGED <<live, disk>>
  BY DEF Rewritten
<1>2. LiveInv' /\ DiskInv'
  BY <1>1 DEF IInv, LiveInv, WellMade, DiskInv
<1>3. Starts(prompt)
  BY <1>1 DEF IInv, RewriteInv
<1>4. SessionTypes' /\ tokens' = prompt
  BY <1>1, <1>3, SyncedInv
<1>5. ASSUME NEW b \in Bindings, Bound(b)' PROVE Current(b)'
  <2>1. live[b] # None
    BY <1>1, <1>5 DEF Bound
  <2>2. b = "anthropic" /\ Visible(live[b].calls) = Visible(prompt)
    BY <1>1, <2>1 DEF IInv, RewriteInv
  <2>3. live[b].visible = None
    BY <2>1, <2>2 DEF IInv, LiveInv, WellMade
  <2> QED
    BY <1>1, <1>4, <2>2, <2>3 DEF Current
<1> QED
  BY <1>1, <1>2, <1>4, <1>5, BoundInv

LEMMA RewriteFailedInv == IInv /\ RewriteFailed /\ ~leftover' => IInv'
<1> SUFFICES ASSUME IInv, RewriteFailed, ~leftover' PROVE IInv'
  OBVIOUS
<1>1. /\ pc = "rewrite" /\ Finish /\ UNCHANGED <<live, disk>> /\ LeavesPart
      /\ UNCHANGED <<tokens, valid>> \/ SyncFails(prompt)
  BY DEF RewriteFailed, sessionVars
<1>2. DiskInv'
  BY <1>1 DEF IInv, DiskInv
<1>3. CASE UNCHANGED <<tokens, valid>>
  <2>1. SessionTypes'
    BY <1>3 DEF IInv, SessionTypes
  <2> QED
    BY <1>1, <1>2, <1>3, <2>1, EndsEarlyInv
<1>4. CASE SyncFails(prompt)
  <2>1. PICK p : p = prompt
    OBVIOUS
  <2>2. Starts(p) /\ SyncFails(p)
    BY <1>1, <1>4, <2>1 DEF IInv, RewriteInv
  <2>3. SessionTypes' /\ (UNCHANGED <<tokens, valid>> \/ ~valid')
    BY <2>2, FailsInv
  <2> QED
    BY <1>1, <1>2, <2>3, EndsEarlyInv
<1> QED
  BY <1>1, <1>3, <1>4

(* A request that is cancelled leaves no binding.                          *)
LEMMA CancelledInv == IInv /\ Cancelled => IInv'
<1> SUFFICES ASSUME IInv, Cancelled PROVE IInv'
  OBVIOUS
<1>1. live' = Unbound /\ Finish
  BY DEF Cancelled
<1>2. live' \in [Bindings -> {None}] /\ \A b \in Bindings : live'[b] = None
  BY <1>1 DEF Unbound
<1>3. SessionTypes' /\ DiskInv'
  <2>1. CASE /\ pc \in {"sync", "rewrite"}
             /\ Synced \/ SyncFails(prompt) \/ UNCHANGED sessionVars
             /\ UNCHANGED disk
    <3>1. DiskInv'
      BY <2>1 DEF IInv, DiskInv
    <3>2. Starts(prompt)
      BY <2>1 DEF IInv, SyncInv, RewriteInv
    <3>3. CASE Synced
      BY <3>1, <3>2, <3>3, SyncedInv
    <3>4. CASE SyncFails(prompt)
      <4>1. PICK p : p = prompt
        OBVIOUS
      <4>2. Starts(p) /\ SyncFails(p)
        BY <3>2, <3>4, <4>1
      <4> QED
        BY <3>1, <4>2, FailsInv
    <3>5. CASE UNCHANGED sessionVars
      BY <3>1, <3>5 DEF IInv, SessionTypes, sessionVars
    <3> QED
      BY <2>1, <3>3, <3>4, <3>5
  <2>2. CASE Discard
    BY <2>2, DiscardInv
  <2>3. CASE UNCHANGED <<sessionVars, disk>>
    BY <2>3 DEF IInv, SessionTypes, DiskInv, sessionVars
  <2> QED
    BY <2>1, <2>2, <2>3 DEF Cancelled
<1> QED
  BY <1>1, <1>2, <1>3, UnboundInv

LEMMA EvictInv == IInv /\ Evict => IInv'
<1> SUFFICES ASSUME IInv, Evict PROVE IInv'
  OBVIOUS
<1>1. UNCHANGED <<tokens, valid, live, pc, req, prompt, source, out>>
  BY DEF Evict, sessionVars, jobVars
<1>2. DiskInv'
  <2>1. PICK k \in DOMAIN disk : disk' = [d \in DOMAIN disk \ {k} |-> disk[d]]
    BY DEF Evict
  <2> QED
    BY <2>1, LessDisk DEF IInv
<1> QED
  BY <1>1, <1>2
     DEF IInv, SessionTypes, JobTypes, ReqInv, Asked, LiveInv, WellMade, TrustInv, Bound, Current,
         SyncInv, ContinuedBinding, TurnInv, RewriteInv

LEMMA SessionEmpty ==
    ASSUME tokens' = <<>>, valid' = FALSE
    PROVE  SessionTypes'
<1>1. Len(<<>>) <= Ctx /\ tokens' \in Histories
  BY Given
<1> QED
  BY <1>1 DEF SessionTypes

(* A new process has the store and nothing else.                           *)
LEMMA RestartInv ==
    ASSUME IInv, Restart, DiskInv'
    PROVE  IInv'
<1>1. tokens' = <<>> /\ valid' = FALSE /\ live' = Unbound /\ Finish
  BY DEF Restart
<1>2. live' \in [Bindings -> {None}] /\ \A b \in Bindings : live'[b] = None
  BY <1>1 DEF Unbound
<1>3. SessionTypes'
  BY <1>1, SessionEmpty
<1> QED
  BY <1>1, <1>2, <1>3, UnboundInv

LEMMA ShutdownInv == IInv /\ Shutdown => IInv'
<1> SUFFICES ASSUME IInv, Shutdown PROVE IInv'
  OBVIOUS
<1>1. pc = "idle" /\ disk' = (IF valid THEN Stored(StoreKey) ELSE disk) /\ Restart
  BY DEF Shutdown
<1>2. CASE valid
  <2>1. PICK key : key = StoreKey
    OBVIOUS
  <2>2. disk' = Stored(key)
    BY <1>1, <1>2, <2>1
  <2>3. DiskInv'
    BY <1>1, <1>2, <2>1, <2>2, StoreKeyProperties, StoredInv
  <2> QED
    BY <1>1, <2>3, RestartInv
<1>3. CASE ~valid
  <2>1. DiskInv'
    BY <1>1, <1>3 DEF IInv, DiskInv
  <2> QED
    BY <1>1, <2>1, RestartInv
<1> QED
  BY <1>2, <1>3

LEMMA KilledInv == IInv /\ Killed => IInv'
<1> SUFFICES ASSUME IInv, Killed PROVE IInv'
  OBVIOUS
<1>1. DiskInv'
  BY DEF Killed, IInv, DiskInv
<1> QED
  BY <1>1, RestartInv DEF Killed

LEMMA UnchangedInv ==
    ASSUME IInv, UNCHANGED <<tokens, valid, live, disk, pc, req, prompt, source, out>>
    PROVE  IInv'
BY DEF IInv, SessionTypes, DiskInv, JobTypes, ReqInv, Asked, LiveInv, WellMade, TrustInv, Bound, Current,
       SyncInv, ContinuedBinding, TurnInv, RewriteInv

-----------------------------------------------------------------------------
(* The theorems.                                                           *)

LEMMA StepInv == IInv /\ Step => IInv'
<1> SUFFICES ASSUME IInv, Step PROVE IInv'
  OBVIOUS
<1>1. CASE Arrive \/ ChooseResponsesVisible \/ Unavailable \/ ChooseMemory \/ ChooseRewind
  BY <1>1, ArriveInv, ChooseResponsesVisibleInv, UnavailableInv, ChooseMemoryInv, ChooseRewindInv
<1>2. CASE \E b \in {"responses", "anthropic"} : ChooseToolOutput(b)
  BY <1>2, ChooseToolOutputInv
<1>3. CASE ChooseThinking \/ ChooseDisk
  BY <1>3, ChooseThinkingInv, ChooseDiskInv
<1>4. CASE SyncSlice \/ SyncOk \/ StoreContinued
  BY <1>4, SyncSliceInv, SyncOkInv, StoreContinuedInv
<1>5. CASE Decode \/ Publish \/ PublishStopped \/ PublishFailed \/ PublishCanonical \/ Rewritten
  BY <1>5, DecodeInv, PublishInv, PublishStoppedInv, PublishFailedInv, PublishCanonicalInv, RewrittenInv
<1>6. CASE Cancelled \/ Evict
  BY <1>6, CancelledInv, EvictInv
<1> QED
  BY <1>1, <1>2, <1>3, <1>4, <1>5, <1>6 DEF Step

(* What is true until a part of another history is left.                   *)
Faithful == leftover \in BOOLEAN /\ (~leftover => IInv)

LEMMA NextInv == Faithful /\ [Next]_vars => Faithful'
<1> SUFFICES ASSUME Faithful, [Next]_vars PROVE Faithful'
  OBVIOUS
<1>1. CASE UNCHANGED vars
  <2>1. UNCHANGED <<tokens, valid, live, disk, pc, req, prompt, source, out, leftover>>
    BY <1>1 DEF vars, sessionVars, jobVars
  <2> QED
    BY <2>1, UnchangedInv DEF Faithful
<1>2. CASE Step /\ UNCHANGED leftover
  BY <1>2, StepInv DEF Faithful
<1>3. CASE SyncFailed \/ Interrupted \/ RewriteFailed
  <2>1. LeavesPart
    BY <1>3 DEF SyncFailed, Interrupted, RewriteFailed
  <2>2. leftover' \in BOOLEAN /\ (~leftover' => ~leftover)
    BY <2>1 DEF LeavesPart
  <2> QED
    BY <1>3, <2>2, SyncFailedInv, InterruptedInv, RewriteFailedInv DEF Faithful
<1>4. CASE Stop
  <2>1. UNCHANGED <<tokens, valid, live, disk, pc, req, prompt, source, out, leftover>>
    BY <1>4 DEF Stop, sessionVars, jobVars
  <2> QED
    BY <2>1, UnchangedInv DEF Faithful
<1>5. CASE Shutdown \/ Killed
  <2>1. UNCHANGED leftover
    BY <1>5 DEF Shutdown, Killed, Restart
  <2> QED
    BY <1>5, <2>1, ShutdownInv, KilledInv DEF Faithful
<1> QED
  BY <1>1, <1>2, <1>3, <1>4, <1>5 DEF Next

(* Until a prefill that ends early leaves a part of another history, the   *)
(* session, the bindings and the checkpoints are about the histories they  *)
(* claim, on every backend and through every restart.                      *)
THEOREM Invariance == Spec => []Faithful
<1>1. Init => Faithful
  BY InitInv DEF Init, Faithful
<1> QED
  BY <1>1, NextInv, PTL DEF Spec

(* Whatever a request is continued from, what generate_job_inner evaluates *)
(* is the history the client asked for, with only reasoning added.         *)
THEOREM PromptsAreFaithful == Spec => []PromptFaithful
<1>1. Faithful => PromptFaithful
  BY DEF Faithful, IInv, SyncInv, PromptFaithful, PromptAsAsked
<1> QED
  BY <1>1, Invariance, PTL

(* kv_cache_store_current, before a session is replaced and when the       *)
(* server shuts down, files no history under the transcript of another.    *)
THEOREM CheckpointsAreFaithful == Spec => []DiskFaithful
<1>1. Faithful => DiskFaithful
  BY DEF Faithful, IInv, DiskInv, DiskFaithful, CheckpointAsNamed
<1> QED
  BY <1>1, Invariance, PTL

(* The position a binding remembers is enough to tell whether it belongs   *)
(* to the history in the session.                                          *)
THEOREM BindingsAreCurrent == Spec => []TrustedBindingIsCurrent
<1>1. Faithful => TrustedBindingIsCurrent
  BY DEF Faithful, IInv, TrustInv, Current, TrustedBindingIsCurrent, BindingAsTrusted
<1> QED
  BY <1>1, Invariance, PTL

(* The server replays calls verbatim, as it does unless it is told not to, *)
(* or it keeps no checkpoints.                                             *)
NoLongRewrite == FALSE \notin Replays \/ MaxFiles = 0

(* No prompt is refused but one that continues a binding or a checkpoint.  *)
Fits ==
    /\ exactReplay \in Replays
    /\ pc = "sync" /\ source \notin LiveSources \cup {"disk-text"} => Len(prompt) < Ctx
    /\ pc = "rewrite" => Len(prompt) < Ctx

LEMMA CanonicalFits ==
    ASSUME NoLongRewrite, IInv, Fits, PublishCanonical
    PROVE  pc' # "sync" /\ (pc' = "rewrite" => Len(prompt') < Ctx)
<1>1. MaxFiles = 0
  BY BoundAssumption DEF NoLongRewrite, Fits, PublishCanonical
<1>2. DOMAIN disk = {}
  <2>1. IsFiniteSet(DOMAIN disk) /\ Cardinality(DOMAIN disk) <= 0
    BY <1>1 DEF IInv, DiskInv
  <2>2. Cardinality(DOMAIN disk) = 0
    BY <2>1, FS_CardinalityType
  <2> QED
    BY <2>1, <2>2, FS_EmptySet
<1> QED
  BY <1>2 DEF PublishCanonical, Rewritable, Rebuild, Finish

LEMMA StepFits ==
    ASSUME NoLongRewrite, IInv, Fits, Step, UNCHANGED processVars
    PROVE  Fits'
<1>1. exactReplay' \in Replays
  BY DEF Fits, processVars
<1>2. CASE PublishCanonical
  BY <1>1, <1>2, CanonicalFits DEF Fits
<1>3. CASE UNCHANGED <<pc, source, prompt>>
  BY <1>1, <1>3 DEF Fits
<1>4. CASE pc' \notin {"sync", "rewrite"}
  BY <1>1, <1>4 DEF Fits
<1>5. CASE pc' = "sync" /\ (source' \in LiveSources \cup {"disk-text"} \/ Len(prompt') < Ctx)
  BY <1>1, <1>5 DEF Fits
<1>6. CASE SyncSlice \/ StoreContinued \/ Evict
  BY <1>3, <1>6 DEF SyncSlice, StoreContinued, Evict, jobVars
<1>7. CASE Arrive \/ Unavailable \/ SyncOk \/ Decode
  BY <1>4, <1>7 DEF Arrive, Unavailable, SyncOk, Decode
<1>8. CASE ChooseResponsesVisible \/ ChooseThinking \/ \E b \in {"responses", "anthropic"} : ChooseToolOutput(b)
  BY <1>5, <1>8 DEF ChooseResponsesVisible, ChooseThinking, ChooseToolOutput, Prefill, LiveSources
<1>9. CASE ChooseMemory \/ ChooseDisk \/ ChooseRewind
  <2>1. pc = "choose" /\ Len(req.text) < Ctx
    BY <1>9 DEF ChooseMemory, ChooseDisk, ChooseRewind, Miss, IInv, ReqInv
  <2>2. CASE ChooseMemory
    BY <1>5, <2>1, <2>2 DEF ChooseMemory, Prefill
  <2>3. CASE ChooseDisk
    BY <1>5, <2>1, <2>3 DEF ChooseDisk, Prefill
  <2>4. CASE ChooseRewind
    BY <1>3, <1>5, <2>1, <2>4 DEF ChooseRewind, Prefill
  <2> QED
    BY <1>9, <2>2, <2>3, <2>4
<1>10. CASE Publish \/ PublishStopped \/ PublishFailed \/ Rewritten \/ Cancelled
  BY <1>4, <1>10 DEF Publish, PublishStopped, PublishFailed, Rewritten, Cancelled, Finish
<1> QED
  BY <1>2, <1>6, <1>7, <1>8, <1>9, <1>10 DEF Step

LEMMA NothingIsLeft ==
    ASSUME ~KeepsSlices, ~Batched, IInv, Fits, ~leftover, SyncFailed \/ Interrupted \/ RewriteFailed
    PROVE  ~leftover'
<1>1. ~Cut
  BY DEF Cut
<1>2. LeavesPart
  BY DEF SyncFailed, Interrupted, RewriteFailed
<1>3. ASSUME Len(prompt) < Ctx, SyncFails(prompt) PROVE ~valid'
  <2>1. prompt \in Histories /\ Len(prompt) \in Nat
    BY DEF IInv, JobTypes, Histories
  <2> QED
    BY <1>3, <2>1, Given DEF SyncFails
<1>4. ~valid' \/ ContinuedBinding # "none"
  <2>1. CASE source = "disk-text" /\ Discard
    BY <2>1 DEF Discard
  <2>2. CASE SyncFailed /\ source # "disk-text" /\ SyncFails(prompt)
    <3>1. pc = "sync"
      BY <2>2 DEF SyncFailed
    <3>2. CASE source \in LiveSources
      BY <3>2 DEF LiveSources, ContinuedBinding
    <3>3. CASE source \notin LiveSources
      BY <1>3, <2>2, <3>1, <3>3 DEF Fits
    <3> QED
      BY <3>2, <3>3
  <2>3. CASE RewriteFailed
    BY <1>1, <1>3, <2>3 DEF RewriteFailed, Fits
  <2> QED
    BY <1>1, <2>1, <2>2, <2>3 DEF SyncFailed, Interrupted
<1> QED
  BY <1>2, <1>4 DEF LeavesPart

LEMMA FitsInv ==
    ASSUME ~KeepsSlices, ~Batched, NoLongRewrite, IInv, Fits, ~leftover, [Next]_vars
    PROVE  Fits' /\ ~leftover'
<1>1. CASE UNCHANGED vars
  BY <1>1 DEF vars, processVars, jobVars, Fits
<1>2. CASE Step /\ UNCHANGED <<processVars, leftover>>
  BY <1>2, StepFits
<1>3. CASE (SyncFailed \/ Interrupted \/ RewriteFailed) /\ UNCHANGED processVars
  <2>1. pc' = "idle" /\ exactReplay' \in Replays
    BY <1>3 DEF SyncFailed, Interrupted, RewriteFailed, Finish, Fits, processVars
  <2> QED
    BY <1>3, <2>1, NothingIsLeft DEF Fits
<1>4. CASE Stop
  BY <1>4 DEF Stop, jobVars, Fits
<1>5. CASE Shutdown \/ Killed
  BY <1>5 DEF Shutdown, Killed, Restart, Finish, Fits
<1> QED
  BY <1>1, <1>2, <1>3, <1>4, <1>5 DEF Next

(* A part of another history is left only by a batched server that stops,  *)
(* by a backend that falls back to the last slice of a prefill that fails  *)
(* or by a rewrite that is refused, which a server that replays calls      *)
(* verbatim or keeps no checkpoints never meets.  Without these, prompts,  *)
(* checkpoints and bindings are what they claim in every state.            *)
THEOREM DefaultsAreSound ==
    ASSUME ~KeepsSlices, ~Batched, NoLongRewrite
    PROVE  Spec => [](~leftover /\ PromptAsAsked /\ CheckpointAsNamed /\ BindingAsTrusted)
<1>1. Init => ~leftover /\ Faithful /\ Fits
  BY InitInv DEF Init, Fits, Faithful
<1>2. ~leftover /\ Faithful /\ Fits /\ [Next]_vars => (~leftover /\ Faithful /\ Fits)'
  BY FitsInv, NextInv DEF Faithful
<1>3. ~leftover /\ Faithful => PromptAsAsked /\ CheckpointAsNamed /\ BindingAsTrusted
  BY DEF Faithful, IInv, SyncInv, PromptAsAsked, DiskInv, CheckpointAsNamed, TrustInv, Current, BindingAsTrusted
<1> QED
  BY <1>1, <1>2, <1>3, PTL DEF Spec

-----------------------------------------------------------------------------
(* Types, which do not depend on what is left in the session.              *)

SessionOK == tokens \in Histories /\ Len(tokens) <= Ctx /\ valid \in BOOLEAN
DiskOK ==
    /\ disk = [k \in DOMAIN disk |-> disk[k]]
    /\ IsFiniteSet(DOMAIN disk) /\ Cardinality(DOMAIN disk) <= MaxFiles
    /\ \A k \in DOMAIN disk : k \in Histories /\ disk[k] \in Histories /\ Len(disk[k]) <= Ctx
LiveOK ==
    /\ live \in [Bindings -> BindingRecords \cup {None}]
    /\ \A b \in Bindings : live[b] # None /\ b # "anthropic" => live[b].visible # None
SlotOK == SessionOK /\ DiskOK /\ LiveOK /\ JobTypes

LEMMA ConcatType ==
    ASSUME NEW g \in Histories, NEW h \in Histories
    PROVE  g \o h \in Histories /\ Len(g \o h) = Len(g) + Len(h)
BY DEF Histories

LEMMA AfterType ==
    ASSUME NEW h \in Histories, NEW g \in Histories
    PROVE  After(h, Len(g)) \in Histories
BY DEF Histories, After

LEMMA SliceType ==
    ASSUME SessionOK, NEW p \in Histories, NEW t \in Slices(p)
    PROVE  t \in Histories /\ Len(t) \in Nat /\ Len(t) <= Len(p)
<1>1. Len(p) \in Nat /\ Len(tokens) \in Nat
  BY DEF SessionOK, Histories
<1>2. PICK n \in (IF Resumed(p) THEN Len(tokens) ELSE 0)..Len(p) : t = SubSeq(p, 1, n)
  BY DEF Slices
<1>3. n \in 0..Len(p)
  BY <1>1, <1>2
<1> QED
  BY <1>1, <1>2, <1>3, SliceProperties

LEMMA FinishOK ==
    ASSUME Finish
    PROVE  JobTypes'
BY Given DEF Finish, JobTypes, NoReq, RequestRecords, Apis, Sources

LEMMA EmptyOK ==
    ASSUME tokens' = <<>>, valid' = FALSE
    PROVE  SessionOK'
<1>1. Len(<<>>) <= Ctx /\ tokens' \in Histories
  BY Given
<1> QED
  BY <1>1 DEF SessionOK

LEMMA LessDiskOK ==
    ASSUME DiskOK, NEW k \in DOMAIN disk, disk' = [d \in DOMAIN disk \ {k} |-> disk[d]]
    PROVE  DiskOK'
<1>1. DOMAIN disk' = DOMAIN disk \ {k} /\ disk' = [d \in DOMAIN disk' |-> disk'[d]]
  OBVIOUS
<1>2. \A d \in DOMAIN disk' : d \in DOMAIN disk /\ disk'[d] = disk[d]
  OBVIOUS
<1>3. IsFiniteSet(DOMAIN disk') /\ Cardinality(DOMAIN disk') <= Cardinality(DOMAIN disk)
  BY <1>1, FS_Subset DEF DiskOK
<1>4. Cardinality(DOMAIN disk') \in Nat /\ Cardinality(DOMAIN disk) \in Nat
  BY <1>3, FS_CardinalityType DEF DiskOK
<1>5. Cardinality(DOMAIN disk') <= MaxFiles
  BY <1>3, <1>4, Given DEF DiskOK
<1> QED
  BY <1>1, <1>2, <1>3, <1>5 DEF DiskOK

LEMMA DiscardOK ==
    ASSUME SlotOK, Discard
    PROVE  SessionOK' /\ DiskOK'
<1>1. SessionOK'
  BY EmptyOK DEF Discard
<1>2. PICK k \in DOMAIN disk : disk' = [d \in DOMAIN disk \ {k} |-> disk[d]]
  BY DEF Discard
<1> QED
  BY <1>1, <1>2, LessDiskOK DEF SlotOK

LEMMA StoredOK ==
    ASSUME SlotOK, NEW key \in Histories, disk' = Stored(key)
    PROVE  DiskOK'
<1>1. DiskOK /\ tokens \in Histories /\ Len(tokens) <= Ctx
  BY DEF SlotOK, SessionOK
<1>2. CASE key \in DOMAIN disk \/ Cardinality(DOMAIN disk) >= MaxFiles
  <2>1. disk' = disk
    BY <1>2 DEF Stored
  <2> QED
    BY <1>1, <2>1 DEF DiskOK
<1>3. CASE ~(key \in DOMAIN disk \/ Cardinality(DOMAIN disk) >= MaxFiles)
  <2>1. disk' = [k \in DOMAIN disk \cup {key} |-> IF k = key THEN tokens ELSE disk[k]]
    BY <1>3 DEF Stored
  <2>2. DOMAIN disk' = DOMAIN disk \cup {key} /\ disk' = [k \in DOMAIN disk' |-> disk'[k]]
    BY <2>1
  <2>3. IsFiniteSet(DOMAIN disk) /\ Cardinality(DOMAIN disk) \in Nat
    BY <1>1, FS_CardinalityType DEF DiskOK
  <2>4. IsFiniteSet(DOMAIN disk') /\ Cardinality(DOMAIN disk') = Cardinality(DOMAIN disk) + 1
    BY <1>3, <2>2, <2>3, FS_AddElement
  <2>5. Cardinality(DOMAIN disk') <= MaxFiles
    BY <1>3, <2>3, <2>4, Given
  <2>6. ASSUME NEW k \in DOMAIN disk'
        PROVE  k \in Histories /\ disk'[k] \in Histories /\ Len(disk'[k]) <= Ctx
    <3>1. CASE k = key
      BY <1>1, <2>1, <3>1
    <3>2. CASE k # key
      <4>1. k \in DOMAIN disk /\ disk'[k] = disk[k]
        BY <2>1, <2>2, <3>2
      <4> QED
        BY <1>1, <4>1 DEF DiskOK
    <3> QED
      BY <3>1, <3>2
  <2> QED
    BY <2>2, <2>4, <2>5, <2>6 DEF DiskOK
<1> QED
  BY <1>2, <1>3

LEMMA StoreKeyOK ==
    ASSUME SlotOK, NEW key, key = StoreKey
    PROVE  key \in Histories
<1>1. ASSUME NEW b \in {"responses", "thinking"}, Bound(b) PROVE live[b].visible \in Histories
  <2>1. live[b] # None /\ b \in Bindings /\ b # "anthropic"
    BY <1>1 DEF Bound, Bindings
  <2>2. live[b] \in BindingRecords /\ live[b].visible # None
    BY <2>1 DEF SlotOK, LiveOK
  <2> QED
    BY <2>2 DEF BindingRecords
<1>2. tokens \in Histories
  BY DEF SlotOK, SessionOK
<1> QED
  BY <1>1, <1>2 DEF StoreKey

LEMMA RememberOK ==
    ASSUME SlotOK, NEW b \in Bindings
    PROVE  Remember(b) \in BindingRecords /\ (b # "anthropic" => Remember(b).visible # None)
<1>1. /\ tokens \in Histories /\ Len(tokens) \in 0..Ctx
      /\ req.text \in Histories /\ out \in Histories /\ prompt \in Histories
  BY Given DEF SlotOK, SessionOK, JobTypes, RequestRecords, Histories
<1>2. PICK w : w = Transcript
  OBVIOUS
<1>3. w \in Histories /\ w # None
  BY <1>1, <1>2, VisibleType, ConcatType, Given DEF Transcript
<1>4. PICK c : c = prompt \o out
  OBVIOUS
<1>5. c \in Histories
  BY <1>1, <1>4, ConcatType
<1>6. PICK m : m = Remember(b)
  OBVIOUS
<1>7. m = [visible |-> IF b = "anthropic" THEN None ELSE w,
           calls |-> IF b # "thinking" /\ out \in Calls THEN c ELSE None, len |-> Len(tokens)]
  BY <1>2, <1>4, <1>6 DEF Remember
<1>8. m \in BindingRecords
  BY <1>1, <1>3, <1>5, <1>7 DEF BindingRecords
<1>9. b # "anthropic" => m.visible # None
  BY <1>3, <1>7
<1> QED
  BY <1>6, <1>8, <1>9

LEMMA ReboundOK ==
    ASSUME SlotOK, NEW thinking \in BOOLEAN, NEW r, r = Rebound(thinking)
    PROVE  /\ r \in [Bindings -> BindingRecords \cup {None}]
           /\ \A b \in Bindings : r[b] # None /\ b # "anthropic" => r[b].visible # None
<1>1. r = [b \in Bindings |-> r[b]] /\ DOMAIN r = Bindings
  <2> DEFINE f(b) == CASE b = "responses" -> IF req.api = b THEN Remember(b) ELSE live[b]
                       [] b = "anthropic" -> IF req.api # b THEN live[b]
                                             ELSE IF out \in Calls THEN Remember(b) ELSE None
                       [] b = "thinking" -> IF out \notin Calls /\ thinking THEN Remember(b) ELSE None
  <2>1. r = [b \in Bindings |-> f(b)]
    BY DEF Rebound
  <2> HIDE DEF f
  <2> QED
    BY <2>1
<1>2. \A b \in Bindings : r[b] \in {Remember(b), live[b], None}
  BY DEF Rebound, Bindings
<1>3. ASSUME NEW b \in Bindings
      PROVE  r[b] \in BindingRecords \cup {None} /\ (r[b] # None /\ b # "anthropic" => r[b].visible # None)
  <2>1. Remember(b) \in BindingRecords /\ (b # "anthropic" => Remember(b).visible # None)
    BY RememberOK
  <2>2. /\ live[b] \in BindingRecords \cup {None}
        /\ live[b] # None /\ b # "anthropic" => live[b].visible # None
    BY DEF SlotOK, LiveOK
  <2> QED
    BY <1>2, <2>1, <2>2
<1> QED
  BY <1>1, <1>3

LEMMA ArriveOK == SlotOK /\ Arrive => SlotOK'
<1> SUFFICES ASSUME SlotOK, Arrive PROVE SlotOK'
  OBVIOUS
<1>1. UNCHANGED <<tokens, valid, live, disk, prompt, source, out>> /\ pc' = "choose"
  BY DEF Arrive, sessionVars
<1>2. req' \in RequestRecords
  <2>1. CASE \E api \in {"responses", "anthropic", "openai"}, t \in Texts :
               req' = [api |-> api, text |-> t, ids |-> None, full |-> TRUE]
    <3>1. \A t \in Texts : t \in Histories
      BY Given DEF Starts
    <3> QED
      BY <2>1, <3>1 DEF RequestRecords, Apis
  <2>2. CASE \E b \in {"responses", "anthropic"}, full \in BOOLEAN :
               /\ live[b] # None /\ live[b].calls # None
               /\ req' = [api |-> b, ids |-> live[b].calls, full |-> full,
                          text |-> IF full THEN Visible(live[b].calls) \o Suffix ELSE Suffix]
    <3>1. PICK b \in {"responses", "anthropic"}, full \in BOOLEAN :
             /\ live[b] # None /\ live[b].calls # None
             /\ req' = [api |-> b, ids |-> live[b].calls, full |-> full,
                        text |-> IF full THEN Visible(live[b].calls) \o Suffix ELSE Suffix]
      BY <2>2
    <3>2. PICK c : c = live[b].calls
      OBVIOUS
    <3>3. live[b] \in BindingRecords
      BY <3>1 DEF SlotOK, LiveOK, Bindings
    <3>4. c \in Histories
      BY <3>1, <3>2, <3>3 DEF BindingRecords
    <3>5. PICK x : x = IF full THEN Visible(c) \o Suffix ELSE Suffix
      OBVIOUS
    <3>6. x \in Histories
      BY <3>4, <3>5, VisibleType, ConcatType, Given
    <3>7. req' = [api |-> b, ids |-> c, full |-> full, text |-> x]
      BY <3>1, <3>2, <3>5
    <3> QED
      BY <3>4, <3>6, <3>7 DEF RequestRecords, Apis
  <2> QED
    BY <2>1, <2>2 DEF Arrive
<1> QED
  BY <1>1, <1>2 DEF SlotOK, SessionOK, DiskOK, LiveOK, JobTypes

LEMMA PrefillOK ==
    ASSUME SlotOK, NEW src \in Sources, NEW p \in Histories, Prefill(src, p), UNCHANGED <<live, req, out>>,
           SessionOK', DiskOK'
    PROVE  SlotOK'
BY DEF SlotOK, LiveOK, JobTypes, Prefill

LEMMA ChooseLiveOK ==
    ASSUME SlotOK, \/ ChooseResponsesVisible \/ ChooseThinking
                   \/ \E b \in {"responses", "anthropic"} : ChooseToolOutput(b)
    PROVE  SlotOK'
<1>1. UNCHANGED <<tokens, valid, live, disk, req, out>>
  BY DEF ChooseResponsesVisible, ChooseThinking, ChooseToolOutput, sessionVars
<1>2. SessionOK' /\ DiskOK'
  BY <1>1 DEF SlotOK, SessionOK, DiskOK
<1>3. tokens \in Histories /\ req.text \in Histories
  BY DEF SlotOK, SessionOK, JobTypes, RequestRecords
<1>4. ASSUME NEW b \in Bindings, VisibleHit(b)
      PROVE  tokens \o After(req.text, Len(live[b].visible)) \in Histories
  <2>1. PICK v : v = live[b].visible
    OBVIOUS
  <2>2. live[b] \in BindingRecords /\ v # None
    BY <1>4, <2>1 DEF VisibleHit, Bound, SlotOK, LiveOK
  <2>3. v \in Histories
    BY <2>1, <2>2 DEF BindingRecords
  <2> QED
    BY <1>3, <2>1, <2>3, AfterType, ConcatType
<1>5. \E src \in Sources, p \in Histories : Prefill(src, p)
  <2>1. CASE ChooseResponsesVisible
    BY <1>4, <2>1 DEF ChooseResponsesVisible, ResponsesVisible, Sources, Bindings
  <2>2. CASE ChooseThinking
    BY <1>4, <2>2 DEF ChooseThinking, ThinkingHit, Sources, Bindings
  <2>3. CASE \E b \in {"responses", "anthropic"} : ChooseToolOutput(b)
    <3>1. tokens \o Suffix \in Histories
      BY <1>3, ConcatType, Given
    <3> QED
      BY <2>3, <3>1 DEF ChooseToolOutput, Sources
  <2> QED
    BY <2>1, <2>2, <2>3
<1> QED
  BY <1>1, <1>2, <1>5, PrefillOK

LEMMA ChooseHeldOK == SlotOK /\ (ChooseMemory \/ ChooseRewind) => SlotOK'
<1> SUFFICES ASSUME SlotOK, ChooseMemory \/ ChooseRewind PROVE SlotOK'
  OBVIOUS
<1>1. /\ tokens \in Histories /\ Len(tokens) \in Nat /\ Len(tokens) <= Ctx
      /\ req.text \in Histories /\ Len(req.text) \in Nat
  BY DEF SlotOK, SessionOK, JobTypes, RequestRecords, Histories
<1>2. CASE ChooseMemory
  <2>1. UNCHANGED <<tokens, valid, live, disk, req, out>> /\ Prefill("memory-token", req.text)
    BY <1>2 DEF ChooseMemory, sessionVars
  <2>2. SessionOK' /\ DiskOK' /\ "memory-token" \in Sources
    BY <2>1 DEF SlotOK, SessionOK, DiskOK, Sources
  <2> QED
    BY <1>1, <2>1, <2>2, PrefillOK
<1>3. CASE ChooseRewind
  <2>1. /\ RewindHit /\ tokens' = SubSeq(tokens, 1, Len(req.text) - 1) /\ valid' \in BOOLEAN
        /\ UNCHANGED <<live, disk, req, out>>
    BY <1>3 DEF ChooseRewind
  <2>2. PICK n : n = Len(req.text) - 1
    OBVIOUS
  <2>3. Len(req.text) > 1 /\ Len(req.text) <= Len(tokens)
    BY <1>1, <2>1 DEF RewindHit, SeqExt!IsStrictPrefix, SeqExt!IsPrefix
  <2>4. n \in 0..Len(tokens)
    BY <1>1, <2>2, <2>3
  <2>5. tokens' \in Histories /\ Len(tokens') = n
    BY <1>1, <2>1, <2>2, <2>4, SliceProperties
  <2>6. n <= Ctx
    BY <1>1, <2>4, Given
  <2>7. SessionOK' /\ DiskOK' /\ "memory-rewind" \in Sources
    BY <2>1, <2>5, <2>6 DEF SlotOK, SessionOK, DiskOK, Sources
  <2>8. CASE Prefill("memory-rewind", req.text)
    BY <1>1, <2>1, <2>7, <2>8, PrefillOK
  <2>9. CASE UNCHANGED <<pc, prompt, source>>
    BY <2>1, <2>7, <2>9 DEF SlotOK, LiveOK, JobTypes
  <2> QED
    BY <1>3, <2>8, <2>9 DEF ChooseRewind
<1> QED
  BY <1>2, <1>3

LEMMA ChooseDiskOK == SlotOK /\ ChooseDisk => SlotOK'
<1> SUFFICES ASSUME SlotOK, ChooseDisk PROVE SlotOK'
  OBVIOUS
<1>1. disk' = (IF valid THEN Stored(StoreKey) ELSE disk) /\ UNCHANGED <<live, req, out>>
  BY DEF ChooseDisk
<1>2. DiskOK'
  <2>1. PICK key : key = StoreKey
    OBVIOUS
  <2>2. key \in Histories
    BY <2>1, StoreKeyOK
  <2>3. CASE disk' = Stored(key)
    BY <2>2, <2>3, StoredOK
  <2>4. CASE disk' = disk
    BY <2>4 DEF SlotOK, DiskOK
  <2> QED
    BY <1>1, <2>1, <2>3, <2>4
<1>3. req.text \in Histories /\ "disk-text" \in Sources /\ "none" \in Sources
  BY DEF SlotOK, JobTypes, RequestRecords, Sources
<1>4. CASE \E k \in DOMAIN disk' :
             /\ tokens' = disk'[k] /\ valid' = TRUE
             /\ Prefill("disk-text", disk'[k] \o After(req.text, Len(k)))
  <2>1. PICK k \in DOMAIN disk' :
             /\ tokens' = disk'[k] /\ valid' = TRUE
             /\ Prefill("disk-text", disk'[k] \o After(req.text, Len(k)))
    BY <1>4
  <2>2. PICK h : h = disk'[k]
    OBVIOUS
  <2>3. k \in Histories /\ h \in Histories /\ Len(h) <= Ctx
    BY <1>2, <2>2 DEF DiskOK
  <2>4. PICK p : p = h \o After(req.text, Len(k))
    OBVIOUS
  <2>5. p \in Histories
    BY <1>3, <2>3, <2>4, AfterType, ConcatType
  <2>6. SessionOK'
    BY <2>1, <2>2, <2>3 DEF SessionOK
  <2>7. Prefill("disk-text", p)
    BY <2>1, <2>2, <2>4
  <2> QED
    BY <1>1, <1>2, <1>3, <2>5, <2>6, <2>7, PrefillOK
<1>5. CASE Prefill("none", req.text) /\ UNCHANGED sessionVars
  <2>1. SessionOK'
    BY <1>5 DEF SlotOK, SessionOK, sessionVars
  <2> QED
    BY <1>1, <1>2, <1>3, <1>5, <2>1, PrefillOK
<1> QED
  BY <1>4, <1>5 DEF ChooseDisk

(* What a prefill may leave, done or not.                                  *)
LEMMA PrefilledOK ==
    ASSUME SlotOK, Synced \/ SyncFails(prompt) \/ UNCHANGED sessionVars
    PROVE  SessionOK'
<1>1. SessionOK /\ prompt \in Histories /\ Len(prompt) \in Nat
  BY DEF SlotOK, JobTypes, Histories
<1>2. CASE UNCHANGED <<tokens, valid>>
  BY <1>1, <1>2 DEF SessionOK
<1>3. CASE Synced
  <2>1. Len(prompt) <= Ctx
    BY <1>1, <1>3, Given DEF Synced
  <2> QED
    BY <1>1, <1>3, <2>1 DEF Synced, SessionOK
<1>4. CASE tokens' = <<>> /\ valid' = FALSE
  BY <1>4, EmptyOK
<1>5. CASE ~(Len(prompt) >= Ctx) /\ tokens' \in Slices(prompt) /\ valid' = FALSE
  <2>1. PICK p : p = prompt
    OBVIOUS
  <2>2. PICK t \in Slices(p) : tokens' = t
    BY <1>5, <2>1
  <2>3. t \in Histories /\ Len(t) \in Nat /\ Len(t) <= Len(p)
    BY <1>1, <2>1, SliceType
  <2>4. Len(t) <= Ctx
    BY <1>1, <1>5, <2>1, <2>3, Given
  <2> QED
    BY <1>5, <2>2, <2>3, <2>4 DEF SessionOK
<1> QED
  BY <1>2, <1>3, <1>4, <1>5 DEF SyncFails, sessionVars

LEMMA SyncSliceOK == SlotOK /\ SyncSlice => SlotOK'
<1> SUFFICES ASSUME SlotOK, SyncSlice PROVE SlotOK'
  OBVIOUS
<1>1. valid' \in BOOLEAN /\ UNCHANGED <<live, disk, pc, req, prompt, source, out>>
  BY DEF SyncSlice, jobVars
<1>2. PICK p : p = prompt
  OBVIOUS
<1>3. PICK t \in Slices(p) : tokens' = t /\ Len(t) < Ctx
  BY <1>2 DEF SyncSlice
<1>4. SessionOK /\ p \in Histories
  BY <1>2 DEF SlotOK, JobTypes
<1>5. t \in Histories /\ Len(t) \in Nat
  BY <1>4, SliceType
<1>6. Len(t) <= Ctx
  BY <1>3, <1>5, Given
<1>7. SessionOK'
  BY <1>1, <1>3, <1>5, <1>6 DEF SessionOK
<1> QED
  BY <1>1, <1>7 DEF SlotOK, DiskOK, LiveOK, JobTypes

LEMMA SyncOkOK == SlotOK /\ SyncOk => SlotOK'
<1> SUFFICES ASSUME SlotOK, SyncOk PROVE SlotOK'
  OBVIOUS
<1>1. /\ live' = [b \in Bindings |-> IF b = ContinuedBinding THEN live[b] ELSE None]
      /\ pc' = "decode" /\ Synced /\ UNCHANGED <<disk, req, prompt, source, out>>
  BY DEF SyncOk
<1>2. SessionOK'
  BY <1>1, PrefilledOK
<1>3. LiveOK'
  BY <1>1 DEF SlotOK, LiveOK
<1> QED
  BY <1>1, <1>2, <1>3 DEF SlotOK, DiskOK, JobTypes

(* The request ends and the bindings stay.                                 *)
LEMMA EndedOK ==
    ASSUME SlotOK, SyncFailed \/ Interrupted \/ Rewritten \/ RewriteFailed
    PROVE  SlotOK'
<1>1. Finish /\ UNCHANGED live
  BY DEF SyncFailed, Interrupted, Rewritten, RewriteFailed
<1>2. JobTypes' /\ LiveOK'
  BY <1>1, FinishOK DEF SlotOK, LiveOK
<1>3. CASE Discard
  BY <1>2, <1>3, DiscardOK DEF SlotOK
<1>4. CASE (Synced \/ SyncFails(prompt) \/ UNCHANGED sessionVars) /\ UNCHANGED disk
  <2>1. SessionOK'
    BY <1>4, PrefilledOK
  <2> QED
    BY <1>2, <1>4, <2>1 DEF SlotOK, DiskOK
<1> QED
  BY <1>3, <1>4 DEF SyncFailed, Interrupted, Rewritten, RewriteFailed

LEMMA StoreContinuedOK == SlotOK /\ (StoreContinued \/ Evict) => SlotOK'
<1> SUFFICES ASSUME SlotOK, StoreContinued \/ Evict PROVE SlotOK'
  OBVIOUS
<1>1. UNCHANGED <<tokens, valid, live, pc, req, prompt, source, out>>
  BY DEF StoreContinued, Evict, sessionVars, jobVars
<1>2. DiskOK'
  <2>1. CASE StoreContinued
    <3>1. PICK key : key = tokens
      OBVIOUS
    <3>2. key \in Histories /\ disk' = Stored(key)
      BY <2>1, <3>1 DEF StoreContinued, SlotOK, SessionOK
    <3> QED
      BY <3>2, StoredOK
  <2>2. CASE Evict
    <3>1. PICK k \in DOMAIN disk : disk' = [d \in DOMAIN disk \ {k} |-> disk[d]]
      BY <2>2 DEF Evict
    <3> QED
      BY <3>1, LessDiskOK DEF SlotOK
  <2> QED
    BY <2>1, <2>2
<1> QED
  BY <1>1, <1>2 DEF SlotOK, SessionOK, LiveOK, JobTypes

LEMMA DecodeOK == SlotOK /\ Decode => SlotOK'
<1> SUFFICES ASSUME SlotOK, Decode PROVE SlotOK'
  OBVIOUS
<1>1. PICK o \in Answers \cup Calls : Len(prompt) + Len(o) <= Ctx /\ out' = o /\ tokens' = prompt \o o
  BY DEF Decode
<1>2. pc' = "publish" /\ UNCHANGED <<valid, live, disk, req, prompt, source>>
  BY DEF Decode
<1>3. o \in Histories /\ prompt \in Histories
  BY Given DEF SlotOK, JobTypes
<1>4. PICK t : t = prompt \o o
  OBVIOUS
<1>5. t \in Histories /\ Len(t) = Len(prompt) + Len(o)
  BY <1>3, <1>4, ConcatType
<1>6. SessionOK'
  BY <1>1, <1>2, <1>4, <1>5 DEF SlotOK, SessionOK
<1> QED
  BY <1>1, <1>2, <1>3, <1>6 DEF SlotOK, DiskOK, LiveOK, JobTypes

LEMMA PublishOK == SlotOK /\ Publish => SlotOK'
<1> SUFFICES ASSUME SlotOK, Publish PROVE SlotOK'
  OBVIOUS
<1>1. Finish /\ UNCHANGED <<tokens, valid, disk>>
  BY DEF Publish, sessionVars
<1>2. PICK thinking \in BOOLEAN : live' = Rebound(thinking)
  BY DEF Publish
<1>3. PICK r : r = Rebound(thinking)
  OBVIOUS
<1>4. LiveOK'
  BY <1>2, <1>3, ReboundOK DEF LiveOK
<1> QED
  BY <1>1, <1>4, FinishOK DEF SlotOK, SessionOK, DiskOK

LEMMA PublishStoppedOK == SlotOK /\ PublishStopped => SlotOK'
<1> SUFFICES ASSUME SlotOK, PublishStopped PROVE SlotOK'
  OBVIOUS
<1>1. Finish /\ UNCHANGED disk /\ tokens' = <<>> /\ valid' = FALSE
  BY DEF PublishStopped
<1>2. PICK thinking \in BOOLEAN :
        live' = [b \in Bindings |-> IF Rebound(thinking)[b] = None THEN None
                                    ELSE [Rebound(thinking)[b] EXCEPT !.len = 0]]
  BY DEF PublishStopped
<1>3. PICK r : r = Rebound(thinking)
  OBVIOUS
<1>4. /\ r \in [Bindings -> BindingRecords \cup {None}]
      /\ \A b \in Bindings : r[b] # None /\ b # "anthropic" => r[b].visible # None
  BY <1>3, ReboundOK
<1>5. live' = [b \in Bindings |-> IF r[b] = None THEN None ELSE [r[b] EXCEPT !.len = 0]]
  BY <1>2, <1>3
<1>6. ASSUME NEW b \in Bindings, live'[b] # None
      PROVE  live'[b] \in BindingRecords /\ (b # "anthropic" => live'[b].visible # None)
  <2>1. PICK m : m = r[b]
    OBVIOUS
  <2>2. m \in BindingRecords /\ live'[b] = [m EXCEPT !.len = 0] /\ (b # "anthropic" => m.visible # None)
    BY <1>4, <1>5, <1>6, <2>1
  <2>3. 0 \in 0..Ctx
    BY Given
  <2>4. [m EXCEPT !.len = 0] \in BindingRecords /\ [m EXCEPT !.len = 0].visible = m.visible
    BY <2>2, <2>3 DEF BindingRecords
  <2> QED
    BY <2>2, <2>4
<1>7. LiveOK'
  <2>1. DOMAIN live' = Bindings /\ live' = [b \in Bindings |-> live'[b]]
    BY <1>5
  <2> QED
    BY <1>6, <2>1 DEF LiveOK
<1>8. SessionOK' /\ JobTypes'
  BY <1>1, EmptyOK, FinishOK
<1> QED
  BY <1>1, <1>7, <1>8 DEF SlotOK, DiskOK

LEMMA PublishFailedOK == SlotOK /\ PublishFailed => SlotOK'
<1> SUFFICES ASSUME SlotOK, PublishFailed PROVE SlotOK'
  OBVIOUS
<1>1. Finish /\ valid' \in BOOLEAN /\ live' = Dropped /\ UNCHANGED <<tokens, disk>>
  BY DEF PublishFailed
<1>2. LiveOK'
  BY <1>1 DEF Dropped, SlotOK, LiveOK
<1> QED
  BY <1>1, <1>2, FinishOK DEF SlotOK, SessionOK, DiskOK

LEMMA PublishCanonicalOK == SlotOK /\ PublishCanonical => SlotOK'
<1> SUFFICES ASSUME SlotOK, PublishCanonical PROVE SlotOK'
  OBVIOUS
<1>1. out \in Calls /\ live' = Rebound(FALSE) /\ UNCHANGED disk
  BY DEF PublishCanonical
<1>2. PICK r : r = Rebound(FALSE)
  OBVIOUS
<1>3. LiveOK' /\ DiskOK'
  BY <1>1, <1>2, ReboundOK DEF LiveOK, SlotOK, DiskOK
<1>4. CASE Rebuild /\ pc' = "rewrite" /\ UNCHANGED <<req, out>>
  <2>1. PICK c : c = Canonical
    OBVIOUS
  <2>2. c \in Histories
    BY <1>1, <2>1, ConcatType, Given DEF Canonical, SlotOK, JobTypes, RequestRecords
  <2>3. source' \in Sources
    BY <1>4 DEF Rebuild, Sources
  <2>4. SessionOK' /\ prompt' \in Histories
    <3>1. CASE prompt' = c /\ UNCHANGED <<tokens, valid>>
      BY <2>2, <3>1 DEF SlotOK, SessionOK
    <3>2. CASE prompt' = c /\ tokens' = <<>> /\ valid' = FALSE
      BY <2>2, <3>2, EmptyOK
    <3>3. CASE \E k \in DOMAIN disk :
                 /\ prompt' = disk[k] \o After(c, Len(k))
                 /\ tokens' = disk[k] /\ valid' = TRUE
      <4>1. PICK k \in DOMAIN disk :
                 /\ prompt' = disk[k] \o After(c, Len(k))
                 /\ tokens' = disk[k] /\ valid' = TRUE
        BY <3>3
      <4>2. PICK h : h = disk[k]
        OBVIOUS
      <4>3. k \in Histories /\ h \in Histories /\ Len(h) <= Ctx
        BY <4>2 DEF SlotOK, DiskOK
      <4>4. prompt' = h \o After(c, Len(k)) /\ tokens' = h /\ valid' = TRUE
        BY <4>1, <4>2
      <4>5. prompt' \in Histories
        BY <2>2, <4>3, <4>4, AfterType, ConcatType
      <4> QED
        BY <4>3, <4>4, <4>5 DEF SessionOK
    <3> QED
      BY <1>4, <2>1, <3>1, <3>2, <3>3 DEF Rebuild, sessionVars
  <2> QED
    BY <1>3, <1>4, <2>3, <2>4 DEF SlotOK, JobTypes
<1>5. CASE Finish /\ UNCHANGED sessionVars
  BY <1>3, <1>5, FinishOK DEF SlotOK, SessionOK, sessionVars
<1> QED
  BY <1>4, <1>5 DEF PublishCanonical

LEMMA CancelledOK == SlotOK /\ Cancelled => SlotOK'
<1> SUFFICES ASSUME SlotOK, Cancelled PROVE SlotOK'
  OBVIOUS
<1>1. live' = Unbound /\ Finish
  BY DEF Cancelled
<1>2. JobTypes' /\ LiveOK'
  BY <1>1, FinishOK DEF LiveOK, Unbound
<1>3. CASE Discard
  BY <1>2, <1>3, DiscardOK DEF SlotOK
<1>4. CASE (Synced \/ SyncFails(prompt) \/ UNCHANGED sessionVars) /\ UNCHANGED disk
  <2>1. SessionOK'
    BY <1>4, PrefilledOK
  <2> QED
    BY <1>2, <1>4, <2>1 DEF SlotOK, DiskOK
<1> QED
  BY <1>3, <1>4 DEF Cancelled

LEMMA RestartOK == SlotOK /\ (Shutdown \/ Killed) => SlotOK'
<1> SUFFICES ASSUME SlotOK, Shutdown \/ Killed PROVE SlotOK'
  OBVIOUS
<1>1. tokens' = <<>> /\ valid' = FALSE /\ live' = Unbound /\ Finish
  BY DEF Shutdown, Killed, Restart
<1>2. SessionOK' /\ JobTypes' /\ LiveOK'
  BY <1>1, EmptyOK, FinishOK DEF LiveOK, Unbound
<1>3. PICK key : key = StoreKey
  OBVIOUS
<1>4. key \in Histories
  BY <1>3, StoreKeyOK
<1>5. CASE disk' = Stored(key)
  BY <1>2, <1>4, <1>5, StoredOK DEF SlotOK
<1>6. CASE disk' = disk
  BY <1>2, <1>6 DEF SlotOK, DiskOK
<1> QED
  BY <1>3, <1>5, <1>6 DEF Shutdown, Killed

LEMMA UnavailableOK == SlotOK /\ Unavailable => SlotOK'
<1> SUFFICES ASSUME SlotOK, Unavailable PROVE SlotOK'
  OBVIOUS
<1>1. pc' = "idle" /\ req' = NoReq /\ UNCHANGED <<tokens, valid, live, disk, prompt, source, out>>
  BY DEF Unavailable, sessionVars
<1>2. NoReq \in RequestRecords
  BY Given DEF NoReq, RequestRecords, Apis
<1> QED
  BY <1>1, <1>2 DEF SlotOK, SessionOK, DiskOK, LiveOK, JobTypes

(* The session, the bindings, the store and the request are well typed and *)
(* the session never outgrows the context, whatever is left in it.         *)
THEOREM TypesCorrect == Spec => []TypeOK
<1> DEFINE Inv == SlotOK /\ {exactReplay, stopping, leftover} \subseteq BOOLEAN
<1>1. Init => Inv
  <2> SUFFICES ASSUME Init PROVE Inv
    OBVIOUS
  <2>1. IInv
    BY InitInv
  <2>2. SlotOK
    BY <2>1 DEF IInv, SessionTypes, DiskInv, LiveInv, WellMade, Starts, SlotOK, SessionOK, DiskOK, LiveOK
  <2> QED
    BY <2>2, BoundAssumption DEF Init
<1>2. Inv /\ [Next]_vars => Inv'
  <2> SUFFICES ASSUME Inv, [Next]_vars PROVE Inv'
    OBVIOUS
  <2>1. SlotOK'
    <3>1. CASE UNCHANGED vars \/ Stop
      BY <3>1 DEF vars, Stop, sessionVars, jobVars, SlotOK, SessionOK, DiskOK, LiveOK, JobTypes
    <3>2. CASE Arrive \/ Unavailable \/ ChooseResponsesVisible \/ ChooseThinking
               \/ \E b \in {"responses", "anthropic"} : ChooseToolOutput(b)
      BY <3>2, ArriveOK, UnavailableOK, ChooseLiveOK
    <3>3. CASE ChooseMemory \/ ChooseRewind \/ ChooseDisk
      BY <3>3, ChooseHeldOK, ChooseDiskOK
    <3>4. CASE SyncSlice \/ SyncOk \/ SyncFailed \/ Interrupted \/ Rewritten \/ RewriteFailed
      BY <3>4, SyncSliceOK, SyncOkOK, EndedOK
    <3>5. CASE StoreContinued \/ Evict \/ Cancelled \/ Shutdown \/ Killed
      BY <3>5, StoreContinuedOK, CancelledOK, RestartOK
    <3>6. CASE Decode \/ Publish \/ PublishStopped \/ PublishFailed \/ PublishCanonical
      BY <3>6, DecodeOK, PublishOK, PublishStoppedOK, PublishFailedOK, PublishCanonicalOK
    <3> QED
      BY <3>1, <3>2, <3>3, <3>4, <3>5, <3>6 DEF Next, Step
  <2>2. {exactReplay, stopping, leftover}' \subseteq BOOLEAN
    <3>1. CASE UNCHANGED <<exactReplay, stopping>> /\ (UNCHANGED leftover \/ LeavesPart)
      BY <3>1 DEF LeavesPart
    <3>2. CASE Stop \/ Shutdown \/ Killed
      BY <3>2, BoundAssumption DEF Stop, Shutdown, Killed, Restart
    <3> QED
      BY <3>1, <3>2 DEF Next, vars, processVars, SyncFailed, Interrupted, RewriteFailed
  <2> QED
    BY <2>1, <2>2
<1>3. Inv => TypeOK
  BY DEF SlotOK, SessionOK, DiskOK, LiveOK, JobTypes, BindingRecords, TypeOK
<1> QED
  BY <1>1, <1>2, <1>3, PTL DEF Spec
=============================================================================
