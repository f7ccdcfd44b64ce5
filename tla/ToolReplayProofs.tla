-------------------------- MODULE ToolReplayProofs --------------------------
(***************************************************************************)
(* Proofs about ToolReplay.  Of FoldLemmas it uses the facts about the     *)
(* library's folds, and leaves its one operation, Op, open.                *)
(***************************************************************************)
EXTENDS ToolReplay, FoldLemmas

-----------------------------------------------------------------------------
(* The bytes of the entries.                                                 *)

Weights(es) == IsFiniteSet(DOMAIN es) /\ \A k \in DOMAIN es : es[k].bytes \in Nat

(* f gives the bytes of every subset of the entries.                         *)
Sums(f, es) ==
    /\ f \in [SUBSET DOMAIN es -> Nat]
    /\ f[{}] = 0
    /\ \A s \in SUBSET DOMAIN es : \A k \in s : f[s] = es[k].bytes + f[s \ {k}]

(* Total adds the bytes of the entries, in whatever order it takes them.     *)
LEMMA TotalSums ==
  ASSUME NEW es, Weights(es)
  PROVE  \E f : Sums(f, es) /\ Total(es) = f[DOMAIN es]
<1> DEFINE D == DOMAIN es
           c == [s \in SUBSET D |-> CHOOSE k \in s : TRUE]
           h == [k \in D |-> [a \in Nat |-> es[k].bytes + a]]
           body(f, s) == IF s = {} THEN 0
                         ELSE es[CHOOSE k \in s : TRUE].bytes + f[s \ {CHOOSE k \in s : TRUE}]
           t == CHOOSE f : f = [s \in SUBSET D |-> body(f, s)]
<1>1. Total(es) = t[D]
  BY DEF Total, MapThenSumSet, MapThenFoldSet
<1>2. Chooses(c, D)
  BY DEF Chooses
<1>3. \E f \in [SUBSET D -> Nat] : Folds(f, D, 0, c, h)
  <2>1. Maps(h, D, Nat)
    BY DEF Weights, Maps
  <2>2. IsFiniteSet(D) /\ 0 \in Nat
    BY DEF Weights
  <2> HIDE DEF c, h, D
  <2>3. QED
    BY <1>2, <2>1, <2>2, FoldExists
<1>4. PICK g \in [SUBSET D -> Nat] : Folds(g, D, 0, c, h)
  BY <1>3
<1>5. ASSUME NEW s \in SUBSET D
      PROVE  g[s] = body(g, s)
  BY <1>4 DEF Folds
<1>6. g = [s \in SUBSET D |-> body(g, s)]
  BY <1>5
<1>7. t = [s \in SUBSET D |-> body(t, s)]
  BY <1>6
<1> HIDE DEF t, h
<1>8. \A s \in SUBSET D : t[s] = body(t, s)
  BY <1>7
<1>9. \A s \in SUBSET D : t[s] = g[s]
  <2>1. Follows(t, g, D, c)
    BY <1>5, <1>8 DEF Follows
  <2>2. IsFiniteSet(D)
    BY DEF Weights
  <2> HIDE DEF D, c
  <2>3. QED
    BY <1>2, <2>1, <2>2, FoldUnique
<1>10. Total(es) = g[D]
  BY <1>1, <1>9
<1> DEFINE P == {s \in SUBSET D : \A k \in s : g[s] = es[k].bytes + g[s \ {k}]}
<1>11. \A s \in SUBSET D : s \in P
  <2>1. ASSUME NEW s \in SUBSET D, \A k \in s : s \ {k} \in P, NEW k \in s
        PROVE  g[s] = es[k].bytes + g[s \ {k}]
    <3> DEFINE d == CHOOSE j \in s : TRUE
    <3>1. d \in s /\ g[s] = es[d].bytes + g[s \ {d}]
      BY <1>5
    <3> HIDE DEF d
    <3>2. CASE k = d
      BY <3>1, <3>2
    <3>3. CASE k # d
      <4>1. g[s \ {d}] = es[k].bytes + g[(s \ {d}) \ {k}]
        BY <2>1, <3>1, <3>3
      <4>2. g[s \ {k}] = es[d].bytes + g[(s \ {k}) \ {d}]
        BY <2>1, <3>1, <3>3
      <4>3. g[(s \ {d}) \ {k}] = g[(s \ {k}) \ {d}]
        <5>1. (s \ {d}) \ {k} = (s \ {k}) \ {d}
          OBVIOUS
        <5>2. QED
          BY <5>1
      <4>4. es[k].bytes \in Nat /\ es[d].bytes \in Nat /\ g[(s \ {k}) \ {d}] \in Nat
        BY <1>4, <3>1 DEF Weights
      <4>5. QED
        BY <3>1, <4>1, <4>2, <4>3, <4>4
    <3>4. QED
      BY <3>2, <3>3
  <2>2. Inductive(P, D)
    BY <2>1 DEF Inductive
  <2>3. IsFiniteSet(D)
    BY DEF Weights
  <2> HIDE DEF P, D
  <2>4. QED
    BY <2>2, <2>3, SubsetInduction
<1>12. Sums(g, es)
  <2>1. g[{}] = 0
    BY <1>5
  <2>2. QED
    BY <1>4, <1>11, <2>1 DEF Sums
<1>13. QED
  BY <1>10, <1>12

(* The bytes of a set of entries depend on those entries only.               *)
LEMMA SumsAgree ==
  ASSUME NEW es, Weights(es), NEW f, Sums(f, es),
         NEW others, NEW g, Sums(g, others),
         NEW D, D \subseteq DOMAIN es, D \subseteq DOMAIN others,
         \A k \in D : es[k].bytes = others[k].bytes
  PROVE  f[D] = g[D]
<1> DEFINE P == {s \in SUBSET D : f[s] = g[s]}
<1>1. ASSUME NEW s \in SUBSET D, \A k \in s : s \ {k} \in P
      PROVE  s \in P
  <2>1. CASE s = {}
    BY <2>1 DEF Sums
  <2>2. CASE s # {}
    <3>1. PICK k \in s : TRUE
      BY <2>2
    <3>2. f[s] = es[k].bytes + f[s \ {k}] /\ g[s] = others[k].bytes + g[s \ {k}]
      BY <3>1 DEF Sums
    <3>3. f[s \ {k}] = g[s \ {k}]
      BY <1>1, <3>1
    <3>4. QED
      BY <3>1, <3>2, <3>3
  <2>3. QED
    BY <2>1, <2>2
<1>2. Inductive(P, D)
  BY <1>1 DEF Inductive
<1>3. IsFiniteSet(D)
  BY FS_Subset DEF Weights
<1> HIDE DEF P
<1>4. \A s \in SUBSET D : s \in P
  BY <1>2, <1>3, SubsetInduction
<1>5. QED
  BY <1>4 DEF P

(* Entries with the same bytes have the same total.                          *)
LEMMA SameTotal ==
  ASSUME NEW es, Weights(es), NEW others, DOMAIN others = DOMAIN es,
         \A k \in DOMAIN es : others[k].bytes = es[k].bytes
  PROVE  Total(others) = Total(es)
<1>1. Weights(others)
  BY DEF Weights
<1>2. PICK f : Sums(f, es) /\ Total(es) = f[DOMAIN es]
  BY TotalSums
<1>3. PICK g : Sums(g, others) /\ Total(others) = g[DOMAIN others]
  BY <1>1, TotalSums
<1>4. f[DOMAIN es] = g[DOMAIN es]
  BY <1>2, <1>3, SumsAgree
<1>5. QED
  BY <1>2, <1>3, <1>4

LEMMA TotalType ==
  ASSUME NEW es, Weights(es)
  PROVE  Total(es) \in Nat /\ (DOMAIN es = {} => Total(es) = 0)
<1>1. PICK f : Sums(f, es) /\ Total(es) = f[DOMAIN es]
  BY TotalSums
<1>2. QED
  BY <1>1 DEF Sums

(* The entries that go and the entries that stay add up.                     *)
LEMMA TotalSplit ==
  ASSUME NEW es, Weights(es), NEW gone \in SUBSET DOMAIN es
  PROVE  /\ Weights(Only(es, gone)) /\ Weights(Without(es, gone))
         /\ Total(es) = Total(Only(es, gone)) + Total(Without(es, gone))
<1> DEFINE rest == DOMAIN es \ gone
<1>1. /\ DOMAIN Only(es, gone) = gone
      /\ \A k \in gone : Only(es, gone)[k] = es[k]
  BY DEF Only
<1>2. /\ DOMAIN Without(es, gone) = rest
      /\ \A k \in rest : Without(es, gone)[k] = es[k]
  BY DEF Without
<1>3. IsFiniteSet(gone) /\ IsFiniteSet(rest)
  BY FS_Subset DEF Weights
<1>4. Weights(Only(es, gone)) /\ Weights(Without(es, gone))
  BY <1>1, <1>2, <1>3 DEF Weights
<1>5. PICK f : Sums(f, es) /\ Total(es) = f[DOMAIN es]
  BY TotalSums
<1>6. Total(Only(es, gone)) = f[gone]
  <2>1. PICK g : Sums(g, Only(es, gone)) /\ Total(Only(es, gone)) = g[gone]
    BY <1>1, <1>4, TotalSums
  <2>2. QED
    BY <1>1, <1>5, <2>1, SumsAgree
<1>7. Total(Without(es, gone)) = f[rest]
  <2>1. PICK g : Sums(g, Without(es, gone)) /\ Total(Without(es, gone)) = g[rest]
    BY <1>2, <1>4, TotalSums
  <2>2. QED
    BY <1>2, <1>5, <2>1, SumsAgree
<1> DEFINE P == {s \in SUBSET gone : f[rest \cup s] = f[s] + f[rest]}
<1>8. ASSUME NEW s \in SUBSET gone, \A k \in s : s \ {k} \in P
      PROVE  s \in P
  <2>1. CASE s = {}
    <3>1. rest \cup s = rest /\ rest \in SUBSET DOMAIN es
      BY <2>1
    <3>2. f[s] = 0 /\ f[rest] \in Nat
      BY <1>5, <2>1, <3>1 DEF Sums
    <3> HIDE DEF rest
    <3>3. QED
      BY <3>1, <3>2
  <2>2. CASE s # {}
    <3>1. PICK k \in s : TRUE
      BY <2>2
    <3>2. rest \cup s \in SUBSET DOMAIN es /\ s \in SUBSET DOMAIN es /\ k \in rest \cup s
      BY <3>1
    <3>3. (rest \cup s) \ {k} = rest \cup (s \ {k})
      BY <3>1
    <3>4. f[rest \cup s] = es[k].bytes + f[rest \cup (s \ {k})]
      BY <1>5, <3>2, <3>3 DEF Sums
    <3>5. f[s] = es[k].bytes + f[s \ {k}]
      BY <1>5, <3>1, <3>2 DEF Sums
    <3>6. f[rest \cup (s \ {k})] = f[s \ {k}] + f[rest]
      BY <1>8, <3>1
    <3>7. es[k].bytes \in Nat /\ f[s \ {k}] \in Nat /\ f[rest] \in Nat
      <4>1. s \ {k} \in SUBSET DOMAIN es /\ rest \in SUBSET DOMAIN es
        OBVIOUS
      <4>2. QED
        BY <1>5, <3>1, <4>1 DEF Weights, Sums
    <3> HIDE DEF rest
    <3>8. f[rest \cup s] = f[s] + f[rest]
      BY <3>4, <3>5, <3>6, <3>7
    <3>9. QED
      BY <3>8
  <2>3. QED
    BY <2>1, <2>2
<1>9. Inductive(P, gone)
  BY <1>8 DEF Inductive
<1> HIDE DEF P
<1>10. gone \in P
  BY <1>3, <1>9, SubsetInduction
<1>11. rest \cup gone = DOMAIN es
  OBVIOUS
<1>12. f[DOMAIN es] = f[gone] + f[rest]
  BY <1>10, <1>11 DEF P
<1>13. QED
  BY <1>4, <1>5, <1>6, <1>7, <1>12

(* A new entry adds its bytes.                                               *)
LEMMA TotalWith ==
  ASSUME NEW es, Weights(es), NEW k, k \notin DOMAIN es, NEW v, v.bytes \in Nat
  PROVE  Weights(With(es, k, v)) /\ Total(With(es, k, v)) = Total(es) + v.bytes
<1> DEFINE more == With(es, k, v)
<1>1. DOMAIN more = DOMAIN es \cup {k} /\ \A j \in DOMAIN more : more[j] = IF j = k THEN v ELSE es[j]
  BY DEF With
<1>2. Weights(more)
  <2>1. IsFiniteSet(DOMAIN es \cup {k})
    BY FS_AddElement DEF Weights
  <2>2. QED
    BY <1>1, <2>1 DEF Weights
<1>3. PICK f : Sums(f, es) /\ Total(es) = f[DOMAIN es]
  BY TotalSums
<1> HIDE DEF more
<1>4. PICK g : Sums(g, more) /\ Total(more) = g[DOMAIN more]
  BY <1>2, TotalSums
<1>5. g[DOMAIN more] = more[k].bytes + g[DOMAIN more \ {k}]
  BY <1>1, <1>4 DEF Sums
<1>6. DOMAIN more \ {k} = DOMAIN es
  BY <1>1
<1>7. f[DOMAIN es] = g[DOMAIN es]
  <2>1. DOMAIN es \subseteq DOMAIN more /\ \A j \in DOMAIN es : es[j].bytes = more[j].bytes
    BY <1>1
  <2>2. QED
    BY <1>3, <1>4, <2>1, SumsAgree
<1>8. f[DOMAIN es] \in Nat
  BY <1>3 DEF Sums
<1>9. more[k].bytes = v.bytes
  BY <1>1
<1>10. Total(more) = Total(es) + v.bytes
  BY <1>3, <1>4, <1>5, <1>6, <1>7, <1>8, <1>9
<1>11. QED
  BY <1>2, <1>10 DEF more

-----------------------------------------------------------------------------
(* The folds over sequences.                                                 *)

(* The size of a list of items is the size of its items.                     *)
LEMMA EncodedType ==
  ASSUME NEW S, \A x \in S : Bytes(x) \in Nat, NEW items \in Seq(S)
  PROVE  Encoded(items) \in Nat
<1> DEFINE n == Len(items)
           D == 1..n
           h == [i \in D |-> [a \in Nat |-> a + Bytes(items[i])]]
           body(f, s) == IF s = {} THEN 0 ELSE f[s \ {Max(s)}] + Bytes(items[Max(s)])
           t == CHOOSE f : f = [s \in SUBSET D |-> body(f, s)]
<1>1. DOMAIN items = D /\ n \in Nat /\ \A i \in D : items[i] \in S
  OBVIOUS
<1>2. Encoded(items) = t[D]
  BY <1>1 DEF Encoded, FoldLeft, MapThenFoldSet
<1>3. Sequential(n, Nat, 0, h)
  BY <1>1 DEF Sequential, Maps
<1> HIDE DEF n, h
<1>4. IsFiniteSet(D) /\ Chooses(AtLast(n), D) /\ \E g, p : FoldsAlong(g, p, n, Nat, 0, h)
  BY <1>3, SequenceFold
<1>5. PICK g, p : FoldsAlong(g, p, n, Nat, 0, h)
  BY <1>4
<1>6. ASSUME NEW s \in SUBSET D
      PROVE  g[s] = body(g, s)
  <2>1. s # {} => Max(s) \in s /\ AtLast(n)[s] = Max(s)
    BY <1>1, Greatest DEF AtLast
  <2>2. s # {} => h[Max(s)][g[s \ {Max(s)}]] = g[s \ {Max(s)}] + Bytes(items[Max(s)])
    BY <1>5, <2>1 DEF h, FoldsAlong
  <2>3. QED
    BY <1>5, <2>1, <2>2 DEF Folds, FoldsAlong
<1>7. g = [s \in SUBSET D |-> body(g, s)]
  BY <1>5, <1>6 DEF FoldsAlong
<1>8. t = [s \in SUBSET D |-> body(t, s)]
  BY <1>7
<1> HIDE DEF t
<1>9. Follows(t, g, D, AtLast(n))
  BY <1>6, <1>8 DEF Follows, AtLast
<1>10. g[D] \in Nat
  BY <1>5 DEF FoldsAlong
<1> HIDE DEF D
<1>11. \A s \in SUBSET D : t[s] = g[s]
  BY <1>4, <1>9, FoldUnique
<1>12. QED
  BY <1>2, <1>10, <1>11

(* The elements at the places at, collected from the first place on.         *)
KeptAlong(p, input, at) ==
    /\ p \in [0..Len(input) -> Seq({input[i] : i \in at \cap DOMAIN input})]
    /\ p[0] = <<>>
    /\ \A i \in DOMAIN input : p[i] = IF i \in at THEN Append(p[i - 1], input[i]) ELSE p[i - 1]

LEMMA KeptFold ==
  ASSUME NEW T, NEW input \in Seq(T), NEW at
  PROVE  \E p : KeptAlong(p, input, at) /\ Kept(input, at) = p[Len(input)]
<1> DEFINE n == Len(input)
           D == 1..n
           S == {input[i] : i \in at \cap D}
           A == Seq(S)
           op(a, i) == IF i \in at THEN Append(a, input[i]) ELSE a
           h == [i \in D |-> [a \in A |-> op(a, i)]]
           body(f, s) == IF s = {} THEN <<>> ELSE op(f[s \ {Max(s)}], [i \in D |-> i][Max(s)])
           t == CHOOSE f : f = [s \in SUBSET D |-> body(f, s)]
<1>1. DOMAIN input = D /\ n \in Nat
  OBVIOUS
<1>2. Kept(input, at) = t[D]
  BY <1>1 DEF Kept, FoldLeftDomain, FoldLeft, MapThenFoldSet
<1>3. \A i \in D, a \in A : op(a, i) \in A
  BY <1>1
<1>4. <<>> \in A
  OBVIOUS
<1> HIDE DEF n, S, A, op
<1>5. Sequential(n, A, <<>>, h)
  BY <1>1, <1>3, <1>4 DEF Sequential, Maps
<1> HIDE DEF h
<1>6. IsFiniteSet(D) /\ Chooses(AtLast(n), D) /\ \E g, p : FoldsAlong(g, p, n, A, <<>>, h)
  BY <1>5, SequenceFold
<1>7. PICK g, p : FoldsAlong(g, p, n, A, <<>>, h)
  BY <1>6
<1>8. ASSUME NEW s \in SUBSET D
      PROVE  g[s] = body(g, s)
  <2>1. s # {} => Max(s) \in s /\ AtLast(n)[s] = Max(s)
    BY <1>1, Greatest DEF AtLast
  <2>2. s # {} => h[Max(s)][g[s \ {Max(s)}]] = op(g[s \ {Max(s)}], [i \in D |-> i][Max(s)])
    BY <1>7, <2>1 DEF h, FoldsAlong
  <2>3. QED
    BY <1>7, <2>1, <2>2 DEF Folds, FoldsAlong
<1>9. g = [s \in SUBSET D |-> body(g, s)]
  BY <1>7, <1>8 DEF FoldsAlong
<1>10. t = [s \in SUBSET D |-> body(t, s)]
  BY <1>9
<1> HIDE DEF t
<1>11. Follows(t, g, D, AtLast(n))
  BY <1>8, <1>10 DEF Follows, AtLast
<1>12. \A s \in SUBSET D : t[s] = g[s]
  <2> HIDE DEF D
  <2>1. QED
    BY <1>6, <1>11, FoldUnique
<1>13. Kept(input, at) = p[n]
  BY <1>2, <1>7, <1>12 DEF FoldsAlong
<1>14. KeptAlong(p, input, at)
  <2>1. p \in [0..n -> A] /\ p[0] = <<>>
    BY <1>7 DEF FoldsAlong
  <2>2. \A i \in D : p[i] = op(p[i - 1], i)
    <3>1. \A i \in D : i \in Int /\ i - 1 \in 0..n
      BY <1>1
    <3>2. QED
      BY <1>7, <2>1, <3>1 DEF FoldsAlong, h
  <2>3. QED
    BY <1>1, <2>1, <2>2 DEF KeptAlong, n, A, S, op
<1>15. QED
  BY <1>13, <1>14 DEF n

LEMMA KeptType ==
  ASSUME NEW T, NEW input \in Seq(T), NEW at
  PROVE  Kept(input, at) \in Seq({input[i] : i \in at \cap DOMAIN input})
<1>1. PICK p : KeptAlong(p, input, at) /\ Kept(input, at) = p[Len(input)]
  BY KeptFold
<1>2. Len(input) \in 0..Len(input)
  OBVIOUS
<1>3. QED
  BY <1>1, <1>2 DEF KeptAlong

LEMMA KeptAll ==
  ASSUME NEW T, NEW input \in Seq(T), NEW at, NEW n \in at \cap DOMAIN input
  PROVE  input[n] \in ToSet(Kept(input, at))
<1> DEFINE S == {input[i] : i \in at \cap DOMAIN input}
<1>1. PICK p : KeptAlong(p, input, at) /\ Kept(input, at) = p[Len(input)]
  BY KeptFold
<1>2. p \in [0..Len(input) -> Seq(S)]
  BY <1>1 DEF KeptAlong
<1>3. \A i \in at \cap DOMAIN input : input[i] \in S
  OBVIOUS
<1> HIDE DEF S
<1>4. ASSUME NEW i \in 1..Len(input)
      PROVE  /\ ToSet(p[i - 1]) \subseteq ToSet(p[i])
             /\ i \in at => input[i] \in ToSet(p[i])
  <2>1. i \in DOMAIN input /\ i - 1 \in 0..Len(input) /\ p[i - 1] \in Seq(S)
    BY <1>2
  <2>2. p[i] = IF i \in at THEN Append(p[i - 1], input[i]) ELSE p[i - 1]
    BY <1>1, <2>1 DEF KeptAlong
  <2>3. QED
    BY <1>3, <2>1, <2>2, AppendRange
<1>5. Len(input) \in Nat /\ n \in 0..Len(input) /\ n \in 1..Len(input)
  OBVIOUS
<1>6. ToSet(p[n]) \subseteq ToSet(p[Len(input)])
  BY <1>4, <1>5, Accumulates
<1>7. QED
  BY <1>1, <1>4, <1>5, <1>6

(* One element more.                                                         *)
LEMMA KeptAppend ==
  ASSUME NEW T, NEW s \in Seq(T), NEW x \in T, NEW at, NEW more,
         at \cap DOMAIN s = more \cap DOMAIN s
  PROVE  Kept(Append(s, x), more)
           = IF Len(s) + 1 \in more THEN Append(Kept(s, at), x) ELSE Kept(s, at)
<1> DEFINE t == Append(s, x)
           n == Len(s)
<1>1. /\ t \in Seq(T) /\ Len(t) = n + 1 /\ n \in Nat /\ n + 1 \in DOMAIN t /\ t[n + 1] = x
      /\ DOMAIN s = 1..n /\ \A i \in 1..n : i \in DOMAIN t /\ t[i] = s[i]
  OBVIOUS
<1>2. PICK p : KeptAlong(p, s, at) /\ Kept(s, at) = p[n]
  BY KeptFold
<1> HIDE DEF t
<1>3. PICK u : KeptAlong(u, t, more) /\ Kept(t, more) = u[n + 1]
  BY <1>1, KeptFold
<1> HIDE DEF n
<1> DEFINE P == {i \in Nat : i <= n => p[i] = u[i]}
<1>4. 0 \in P
  BY <1>2, <1>3 DEF KeptAlong
<1>5. ASSUME NEW i \in Nat, i \in P
      PROVE  i + 1 \in P
  <2> SUFFICES ASSUME i + 1 <= n
               PROVE  p[i + 1] = u[i + 1]
    OBVIOUS
  <2>1. i + 1 \in 1..n /\ (i + 1) - 1 = i /\ p[i] = u[i]
    BY <1>1, <1>5
  <2>2. p[i + 1] = IF i + 1 \in at THEN Append(p[i], s[i + 1]) ELSE p[i]
    BY <1>1, <1>2, <2>1 DEF KeptAlong
  <2>3. u[i + 1] = IF i + 1 \in more THEN Append(u[i], t[i + 1]) ELSE u[i]
    BY <1>1, <1>3, <2>1 DEF KeptAlong
  <2>4. i + 1 \in at <=> i + 1 \in more
    BY <1>1, <2>1
  <2>5. t[i + 1] = s[i + 1]
    BY <1>1, <2>1
  <2>6. QED
    BY <2>1, <2>2, <2>3, <2>4, <2>5
<1>6. Nat \subseteq P
  <2> HIDE DEF P
  <2>1. QED
    BY <1>4, <1>5, Induction
<1>7. p[n] = u[n]
  BY <1>1, <1>6
<1>8. u[n + 1] = IF n + 1 \in more THEN Append(u[n], x) ELSE u[n]
  <2>1. (n + 1) - 1 = n
    BY <1>1
  <2>2. QED
    BY <1>1, <1>3, <2>1 DEF KeptAlong
<1>9. QED
  BY <1>2, <1>3, <1>7, <1>8 DEF t, n

LEMMA KeptEmpty ==
  ASSUME NEW at
  PROVE  Kept(<<>>, at) = <<>>
<1>1. <<>> \in Seq({}) /\ Len(<<>>) = 0
  OBVIOUS
<1>2. PICK p : KeptAlong(p, <<>>, at) /\ Kept(<<>>, at) = p[Len(<<>>)]
  BY <1>1, KeptFold
<1>3. QED
  BY <1>1, <1>2 DEF KeptAlong

LEMMA NormalizeAppend ==
  ASSUME NEW T, NEW s \in Seq(T), NEW x \in T
  PROVE  /\ Normalize(Append(s, x)) = IF Replayable(x) THEN Append(Normalize(s), x) ELSE Normalize(s)
         /\ Calls(Append(s, x)) = IF x.type = "call" THEN Append(Calls(s), x) ELSE Calls(s)
<1> DEFINE t == Append(s, x)
<1>1. /\ DOMAIN t = DOMAIN s \cup {Len(s) + 1} /\ t[Len(s) + 1] = x
      /\ \A i \in DOMAIN s : t[i] = s[i]
  OBVIOUS
<1> HIDE DEF t
<1>2. Normalize(t) = IF Replayable(x) THEN Append(Normalize(s), x) ELSE Normalize(s)
  <2> DEFINE at == {n \in DOMAIN s : Replayable(s[n])}
             more == {n \in DOMAIN t : Replayable(t[n])}
  <2>1. at \cap DOMAIN s = more \cap DOMAIN s
    BY <1>1
  <2>2. Len(s) + 1 \in more <=> Replayable(x)
    BY <1>1
  <2>3. Normalize(t) = Kept(t, more) /\ Normalize(s) = Kept(s, at)
    BY DEF Normalize
  <2> HIDE DEF at, more
  <2>4. Kept(t, more) = IF Len(s) + 1 \in more THEN Append(Kept(s, at), x) ELSE Kept(s, at)
    BY <2>1, KeptAppend DEF t
  <2>5. QED
    BY <2>2, <2>3, <2>4
<1>3. Calls(t) = IF x.type = "call" THEN Append(Calls(s), x) ELSE Calls(s)
  <2> DEFINE at == {n \in DOMAIN s : s[n].type = "call"}
             more == {n \in DOMAIN t : t[n].type = "call"}
  <2>1. at \cap DOMAIN s = more \cap DOMAIN s
    BY <1>1
  <2>2. Len(s) + 1 \in more <=> x.type = "call"
    BY <1>1
  <2>3. Calls(t) = Kept(t, more) /\ Calls(s) = Kept(s, at)
    BY DEF Calls
  <2> HIDE DEF at, more
  <2>4. Kept(t, more) = IF Len(s) + 1 \in more THEN Append(Kept(s, at), x) ELSE Kept(s, at)
    BY <2>1, KeptAppend DEF t
  <2>5. QED
    BY <2>2, <2>3, <2>4
<1>4. QED
  BY <1>2, <1>3 DEF t

LEMMA NormalizeOne ==
  ASSUME NEW x
  PROVE  Normalize(<<x>>) = IF Replayable(x) THEN <<x>> ELSE <<>>
<1>1. Normalize(<<>>) = <<>>
  BY KeptEmpty DEF Normalize
<1>2. <<>> \in Seq({x}) /\ <<x>> = Append(<<>>, x)
  OBVIOUS
<1>3. Normalize(Append(<<>>, x)) = IF Replayable(x) THEN Append(Normalize(<<>>), x) ELSE Normalize(<<>>)
  BY <1>2, NormalizeAppend
<1>4. QED
  BY <1>1, <1>2, <1>3

(* Nothing that can be replayed is lost when the calls are picked out first. *)
LEMMA NormalizeCalls ==
  ASSUME NEW T, NEW s \in Seq(T)
  PROVE  Normalize(Calls(s)) = Normalize(s)
<1> DEFINE P == {i \in Nat : i <= Len(s) =>
                    /\ Calls(SubSeq(s, 1, i)) \in Seq(T)
                    /\ Normalize(Calls(SubSeq(s, 1, i))) = Normalize(SubSeq(s, 1, i))}
<1>1. 0 \in P
  <2>1. SubSeq(s, 1, 0) = <<>> /\ <<>> \in Seq(T)
    OBVIOUS
  <2>2. Calls(<<>>) = <<>>
    BY KeptEmpty DEF Calls
  <2>3. QED
    BY <2>1, <2>2
<1>2. ASSUME NEW i \in Nat, i \in P
      PROVE  i + 1 \in P
  <2> SUFFICES ASSUME i + 1 <= Len(s)
               PROVE  /\ Calls(SubSeq(s, 1, i + 1)) \in Seq(T)
                      /\ Normalize(Calls(SubSeq(s, 1, i + 1))) = Normalize(SubSeq(s, 1, i + 1))
    OBVIOUS
  <2> DEFINE x == s[i + 1]
             u == SubSeq(s, 1, i)
  <2>1. SubSeq(s, 1, i + 1) = Append(u, x) /\ u \in Seq(T) /\ x \in T
    OBVIOUS
  <2>2. Calls(u) \in Seq(T) /\ Normalize(Calls(u)) = Normalize(u)
    BY <1>2
  <2> HIDE DEF u, x
  <2>3. /\ Calls(Append(u, x)) = IF x.type = "call" THEN Append(Calls(u), x) ELSE Calls(u)
        /\ Normalize(Append(u, x)) = IF Replayable(x) THEN Append(Normalize(u), x) ELSE Normalize(u)
    BY <2>1, NormalizeAppend
  <2>4. Normalize(Append(Calls(u), x))
          = IF Replayable(x) THEN Append(Normalize(Calls(u)), x) ELSE Normalize(Calls(u))
    BY <2>1, <2>2, NormalizeAppend
  <2>5. Replayable(x) => x.type = "call"
    BY DEF Replayable
  <2>6. Append(Calls(u), x) \in Seq(T)
    BY <2>1, <2>2
  <2>7. QED
    BY <2>1, <2>2, <2>3, <2>4, <2>5, <2>6
<1>3. Nat \subseteq P
  <2> HIDE DEF P
  <2>1. QED
    BY <1>1, <1>2, Induction
<1>4. Len(s) \in Nat /\ SubSeq(s, 1, Len(s)) = s
  OBVIOUS
<1>5. Normalize(Calls(SubSeq(s, 1, Len(s)))) = Normalize(SubSeq(s, 1, Len(s)))
  BY <1>3, <1>4
<1>6. QED
  BY <1>4, <1>5

(* The calls that are put back are among the candidates.                     *)
LEMMA MissingType ==
  ASSUME NEW T, NEW candidates \in Seq(T), NEW input
  PROVE  MissingCalls(input, candidates) \in Seq({x \in ToSet(candidates) : x.type = "call"})
<1> DEFINE n == Len(candidates)
           D == 1..n
           S == {x \in ToSet(candidates) : x.type = "call"}
           A == Seq(S)
           lacks(acc, x) ==
             IF x.type = "call" /\ x.call \in CallIds(input, "output") \ CallIds(input \o acc, "call")
             THEN Append(acc, x) ELSE acc
           op(a, i) == lacks(a, candidates[i])
           h == [i \in D |-> [a \in A |-> op(a, i)]]
           body(f, s) == IF s = {} THEN <<>> ELSE op(f[s \ {Max(s)}], Max(s))
           t == CHOOSE f : f = [s \in SUBSET D |-> body(f, s)]
<1>1. DOMAIN candidates = D /\ n \in Nat
  OBVIOUS
<1>2. MissingCalls(input, candidates) = t[D]
  BY <1>1 DEF MissingCalls, FoldLeft, MapThenFoldSet
<1>3. \A i \in D, a \in A : op(a, i) \in A
  <2> TAKE i \in D, a \in A
  <2>1. candidates[i].type = "call" => candidates[i] \in S
    BY <1>1 DEF ToSet
  <2>2. op(a, i) = a \/ (candidates[i].type = "call" /\ op(a, i) = Append(a, candidates[i]))
    OBVIOUS
  <2> HIDE DEF op, lacks, S
  <2>3. QED
    BY <2>1, <2>2
<1>4. <<>> \in A
  OBVIOUS
<1> HIDE DEF n, S, A, op, lacks
<1>5. Sequential(n, A, <<>>, h)
  BY <1>1, <1>3, <1>4 DEF Sequential, Maps
<1> HIDE DEF h
<1>6. IsFiniteSet(D) /\ Chooses(AtLast(n), D) /\ \E g, p : FoldsAlong(g, p, n, A, <<>>, h)
  BY <1>5, SequenceFold
<1>7. PICK g, p : FoldsAlong(g, p, n, A, <<>>, h)
  BY <1>6
<1>8. ASSUME NEW s \in SUBSET D
      PROVE  g[s] = body(g, s)
  <2>1. s # {} => Max(s) \in s /\ AtLast(n)[s] = Max(s)
    BY <1>1, Greatest DEF AtLast
  <2>2. s # {} => h[Max(s)][g[s \ {Max(s)}]] = op(g[s \ {Max(s)}], Max(s))
    BY <1>7, <2>1 DEF h, FoldsAlong
  <2>3. QED
    BY <1>7, <2>1, <2>2 DEF Folds, FoldsAlong
<1>9. g = [s \in SUBSET D |-> body(g, s)]
  BY <1>7, <1>8 DEF FoldsAlong
<1>10. t = [s \in SUBSET D |-> body(t, s)]
  BY <1>9
<1> HIDE DEF t
<1>11. Follows(t, g, D, AtLast(n))
  BY <1>8, <1>10 DEF Follows, AtLast
<1>12. g[D] \in A
  BY <1>7 DEF FoldsAlong
<1>13. \A s \in SUBSET D : t[s] = g[s]
  <2> HIDE DEF D
  <2>1. QED
    BY <1>6, <1>11, FoldUnique
<1>14. QED
  BY <1>2, <1>12, <1>13 DEF A, S

(* What a completed answer leaves to be put in the cache: the entries of its *)
(* calls, and one for each of them.                                          *)
Entry(tenant, kind, name, items) == [key |-> Key(tenant, kind, name), items |-> items]
ItemEntries(q, calls) == {Entry(q.body.tenant, "item", x.id, <<x>>) : x \in ToSet(calls)}

Leaves(q, id, output) ==
    {Entry(q.body.tenant, "prev", id, Calls(output)),
     Entry(q.body.tenant, "cache", q.body.key, Calls(output))}
    \cup ItemEntries(q, Calls(output))

LEMMA ToPutType ==
  ASSUME NEW S, NEW tenant, NEW kind, NEW name, NEW items, Entry(tenant, kind, name, items) \in S
  PROVE  /\ ToPut(tenant, kind, name, items) \in Seq(S)
         /\ name # "" => Entry(tenant, kind, name, items) \in ToSet(ToPut(tenant, kind, name, items))
<1> DEFINE e == Entry(tenant, kind, name, items)
<1>1. ToPut(tenant, kind, name, items) = IF name = "" THEN <<>> ELSE <<e>>
  BY DEF ToPut, Entry
<1> HIDE DEF e
<1>2. <<>> \in Seq(S) /\ \A x \in S : <<x>> \in Seq(S)
  OBVIOUS
<1>3. e \in ToSet(<<e>>)
  <2>1. 1 \in DOMAIN <<e>> /\ <<e>>[1] = e
    OBVIOUS
  <2>2. QED
    BY <2>1 DEF ToSet
<1>4. e \in S
  BY DEF e
<1>5. QED
  BY <1>1, <1>2, <1>3, <1>4 DEF e

Single(q, x) == ToPut(q.body.tenant, "item", x.id, <<x>>)

Singles(q, calls) ==
    FoldLeft(LAMBDA acc, x : acc \o ToPut(q.body.tenant, "item", x.id, <<x>>), <<>>, calls)

SinglesAlong(p, q, calls) ==
    /\ p \in [0..Len(calls) -> Seq(ItemEntries(q, calls))]
    /\ p[0] = <<>>
    /\ \A i \in 1..Len(calls) : p[i] = p[i - 1] \o Single(q, calls[i])

LEMMA SinglesFold ==
  ASSUME NEW T, NEW calls \in Seq(T), NEW q
  PROVE  \E p : /\ SinglesAlong(p, q, calls)
                /\ Singles(q, calls) = p[Len(calls)]
<1> DEFINE n == Len(calls)
           D == 1..n
           S == ItemEntries(q, calls)
           A == Seq(S)
           op(a, i) == a \o ToPut(q.body.tenant, "item", calls[i].id, <<calls[i]>>)
           h == [i \in D |-> [a \in A |-> op(a, i)]]
           body(f, s) == IF s = {} THEN <<>> ELSE op(f[s \ {Max(s)}], Max(s))
           t == CHOOSE f : f = [s \in SUBSET D |-> body(f, s)]
           singles == Singles(q, calls)
<1>1. DOMAIN calls = D /\ n \in Nat
  OBVIOUS
<1>2. singles = t[D]
  BY <1>1 DEF Singles, FoldLeft, MapThenFoldSet
<1>3. \A i \in D, a \in A : op(a, i) \in A
  <2> TAKE i \in D, a \in A
  <2>1. calls[i] \in ToSet(calls)
    BY <1>1 DEF ToSet
  <2>2. Entry(q.body.tenant, "item", calls[i].id, <<calls[i]>>) \in S
    BY <2>1 DEF ItemEntries
  <2>3. ToPut(q.body.tenant, "item", calls[i].id, <<calls[i]>>) \in A
    BY <2>2, ToPutType
  <2> HIDE DEF S
  <2>4. QED
    BY <2>3
<1>4. <<>> \in A
  OBVIOUS
<1> HIDE DEF n, S, A, op
<1>5. Sequential(n, A, <<>>, h)
  BY <1>1, <1>3, <1>4 DEF Sequential, Maps
<1> HIDE DEF h
<1>6. IsFiniteSet(D) /\ Chooses(AtLast(n), D) /\ \E g, p : FoldsAlong(g, p, n, A, <<>>, h)
  BY <1>5, SequenceFold
<1>7. PICK g, p : FoldsAlong(g, p, n, A, <<>>, h)
  BY <1>6
<1>8. ASSUME NEW s \in SUBSET D
      PROVE  g[s] = body(g, s)
  <2>1. s # {} => Max(s) \in s /\ AtLast(n)[s] = Max(s)
    BY <1>1, Greatest DEF AtLast
  <2>2. s # {} => h[Max(s)][g[s \ {Max(s)}]] = op(g[s \ {Max(s)}], Max(s))
    BY <1>7, <2>1 DEF h, FoldsAlong
  <2>3. QED
    BY <1>7, <2>1, <2>2 DEF Folds, FoldsAlong
<1>9. g = [s \in SUBSET D |-> body(g, s)]
  BY <1>7, <1>8 DEF FoldsAlong
<1>10. t = [s \in SUBSET D |-> body(t, s)]
  BY <1>9
<1> HIDE DEF t
<1>11. Follows(t, g, D, AtLast(n))
  BY <1>8, <1>10 DEF Follows, AtLast
<1>12. \A s \in SUBSET D : t[s] = g[s]
  <2> HIDE DEF D
  <2>1. QED
    BY <1>6, <1>11, FoldUnique
<1>13. singles = p[n]
  BY <1>2, <1>7, <1>12 DEF FoldsAlong
<1> HIDE DEF singles
<1>14. SinglesAlong(p, q, calls)
  <2>1. p \in [0..n -> A] /\ p[0] = <<>>
    BY <1>7 DEF FoldsAlong
  <2>2. \A i \in D : p[i] = op(p[i - 1], i)
    <3>1. \A i \in D : i \in Int /\ i - 1 \in 0..n
      BY <1>1
    <3>2. QED
      BY <1>7, <2>1, <3>1 DEF FoldsAlong, h
  <2>3. QED
    BY <1>1, <2>1, <2>2 DEF SinglesAlong, Single, n, A, S, op
<1>15. QED
  BY <1>13, <1>14 DEF n, singles

(* All of it and nothing else is put, unless it has no name.                 *)
LEMMA RememberType ==
  ASSUME NEW T, NEW output \in Seq(T), NEW q, NEW id
  PROVE  LET todo == RememberCompleted(q, id, output) IN
         /\ todo \in Seq(Leaves(q, id, output))
         /\ id # "" /\ Calls(output) # <<>> =>
               Entry(q.body.tenant, "prev", id, Calls(output)) \in ToSet(todo)
         /\ \A x \in ToSet(Calls(output)) : x.id # "" =>
               Entry(q.body.tenant, "item", x.id, <<x>>) \in ToSet(todo)
<1> DEFINE calls == Calls(output)
           S == Leaves(q, id, output)
           A == Seq(S)
           todo == RememberCompleted(q, id, output)
           answer == ToPut(q.body.tenant, "prev", id, calls)
           session == ToPut(q.body.tenant, "cache", q.body.key, calls)
           singles == Singles(q, calls)
           n == Len(calls)
<1>1. todo = IF calls = <<>> THEN <<>> ELSE answer \o session \o singles
  BY DEF RememberCompleted, Singles
<1>2. PICK U : calls \in Seq(U)
  BY KeptType DEF Calls
<1>3. /\ Entry(q.body.tenant, "prev", id, calls) \in S
      /\ Entry(q.body.tenant, "cache", q.body.key, calls) \in S
      /\ ItemEntries(q, calls) \subseteq S
  BY DEF Leaves
<1> HIDE DEF singles, todo
<1>4. PICK p : SinglesAlong(p, q, calls) /\ singles = p[n]
  <2> HIDE DEF calls
  <2>1. QED
    BY <1>2, SinglesFold DEF singles
<1> HIDE DEF calls, S
<1>0. n \in Nat /\ \A i \in 1..n : i \in 0..n
  BY <1>2
<1>5. DOMAIN calls = 1..n
  BY <1>2
<1>6. p \in [0..n -> A]
  <2>1. Seq(ItemEntries(q, calls)) \subseteq Seq(S)
    BY <1>3
  <2>2. QED
    BY <1>4, <2>1 DEF SinglesAlong
<1>7. /\ answer \in A /\ session \in A
      /\ id # "" => Entry(q.body.tenant, "prev", id, calls) \in ToSet(answer)
  BY <1>3, ToPutType
<1>8. singles \in A
  BY <1>0, <1>4, <1>6
<1> HIDE DEF n
<1>9. ASSUME NEW i \in 1..n
      PROVE  /\ ToSet(p[i - 1]) \subseteq ToSet(p[i])
             /\ calls[i].id # "" =>
                   Entry(q.body.tenant, "item", calls[i].id, <<calls[i]>>) \in ToSet(p[i])
  <2> DEFINE x == calls[i]
             one == Entry(q.body.tenant, "item", x.id, <<x>>)
  <2>1. p[i] = p[i - 1] \o Single(q, x)
    BY <1>4 DEF SinglesAlong, n
  <2>2. one \in S
    BY <1>3, <1>5 DEF ItemEntries, ToSet
  <2>3. Single(q, x) \in A /\ (x.id # "" => one \in ToSet(Single(q, x)))
    BY <2>2, ToPutType DEF Single
  <2>4. i - 1 \in 0..n /\ p[i - 1] \in A
    BY <1>0, <1>6
  <2> HIDE DEF x, one
  <2>5. ToSet(p[i - 1]) \subseteq ToSet(p[i]) /\ ToSet(Single(q, x)) \subseteq ToSet(p[i])
    BY <2>1, <2>3, <2>4, ConcatRange
  <2>6. QED
    BY <2>3, <2>5 DEF x, one
<1>10. \A i \in 0..n : ToSet(p[i]) \subseteq ToSet(p[n])
  BY <1>0, <1>9, Accumulates
<1>11. \A x \in ToSet(calls) : x.id # "" =>
          Entry(q.body.tenant, "item", x.id, <<x>>) \in ToSet(singles)
  <2> SUFFICES ASSUME NEW i \in 1..n, calls[i].id # ""
               PROVE  Entry(q.body.tenant, "item", calls[i].id, <<calls[i]>>) \in ToSet(singles)
    BY <1>5 DEF ToSet
  <2>1. i \in 0..n
    BY <1>0
  <2>2. QED
    BY <1>4, <1>9, <1>10, <2>1
<1> HIDE DEF answer, session
<1>12. /\ answer \o session \o singles \in A
       /\ ToSet(answer) \subseteq ToSet(answer \o session \o singles)
       /\ ToSet(singles) \subseteq ToSet(answer \o session \o singles)
  <2>1. answer \o session \in A
    <3>1. answer \in A /\ session \in A
      BY <1>7
    <3>2. QED
      BY <3>1
  <2>2. (answer \o session) \o singles \in A
    BY <1>8, <2>1
  <2>3. ToSet(answer) \subseteq ToSet(answer \o session)
    BY <1>7, ConcatRange
  <2>4. /\ ToSet(answer \o session) \subseteq ToSet((answer \o session) \o singles)
        /\ ToSet(singles) \subseteq ToSet((answer \o session) \o singles)
    BY <1>8, <2>1, ConcatRange
  <2>5. QED
    BY <2>2, <2>3, <2>4
<1>13. calls = <<>> => ToSet(calls) = {}
  BY DEF ToSet
<1>14. <<>> \in A
  OBVIOUS
<1> HIDE DEF A
<1>15. todo \in A
  BY <1>1, <1>12, <1>14
<1>16. id # "" /\ calls # <<>> => Entry(q.body.tenant, "prev", id, calls) \in ToSet(todo)
  BY <1>1, <1>7, <1>12
<1>17. \A x \in ToSet(calls) : x.id # "" => Entry(q.body.tenant, "item", x.id, <<x>>) \in ToSet(todo)
  BY <1>1, <1>11, <1>12, <1>13
<1>18. QED
  BY <1>15, <1>16, <1>17 DEF A, S, calls, todo

-----------------------------------------------------------------------------
(* The accounts of the cache.                                                *)

EntryFields == {"items", "store", "bytes", "expired"}

Accounts ==
    /\ IsFiniteSet(DOMAIN entries)
    /\ \A k \in DOMAIN entries :
          /\ DOMAIN entries[k] = EntryFields
          /\ entries[k].items \in Seq(Elements) /\ entries[k].items # <<>>
          /\ entries[k].bytes = Encoded(entries[k].items)
    /\ bytes = Total(entries) /\ bytes <= MaxBytes
    /\ Cardinality(DOMAIN entries) <= MaxEntries

(* What a step that puts nothing does, and one that puts items under k.      *)
KeepsCache ==
    /\ \A j \in DOMAIN entries' : j \in DOMAIN entries /\ entries'[j].items = entries[j].items
    /\ \A j \in DOMAIN entries : j \in DOMAIN entries' \/ j \in lost'
    /\ lost \subseteq lost'

PutsAt(k, items) ==
    /\ \A j \in DOMAIN entries' \ {k} : j \in DOMAIN entries /\ entries'[j].items = entries[j].items
    /\ \A j \in DOMAIN entries : j \in DOMAIN entries' \/ j \in lost'
    /\ lost \ {k} \subseteq lost'
    /\ k \in DOMAIN entries' /\ entries'[k].items = Normalize(items)

LEMMA NormalizeType ==
  ASSUME NEW T, NEW items \in Seq(T)
  PROVE  Normalize(items) \in Seq(T)
<1> DEFINE at == {n \in DOMAIN items : Replayable(items[n])}
           S == {items[i] : i \in at \cap DOMAIN items}
<1>1. Normalize(items) \in Seq(S)
  BY KeptType DEF Normalize
<1>2. S \subseteq T
  OBVIOUS
<1> HIDE DEF S
<1>3. QED
  BY <1>1, <1>2

LEMMA EntriesWeights ==
  ASSUME Accounts
  PROVE  Weights(entries)
<1>1. ASSUME NEW k \in DOMAIN entries
      PROVE  entries[k].bytes \in Nat
  <2>1. \A x \in Elements : Bytes(x) \in Nat
    BY ReplayAssumption
  <2>2. entries[k].items \in Seq(Elements) /\ entries[k].bytes = Encoded(entries[k].items)
    BY DEF Accounts
  <2>3. QED
    BY <2>1, <2>2, EncodedType
<1>2. QED
  BY <1>1 DEF Accounts, Weights

LEMMA ReadAccounts ==
  ASSUME Accounts, NEW k, Read(k)
  PROVE  Accounts' /\ KeepsCache
<1>1. CASE Has(k) \/ k \notin DOMAIN entries
  <2>1. DOMAIN entries' = DOMAIN entries /\ \A j \in DOMAIN entries : entries'[j] = entries[j]
    BY <1>1 DEF Read, Without
  <2>2. bytes' = bytes /\ lost' = lost
    BY <1>1 DEF Read, Has
  <2>3. Total(entries') = Total(entries)
    BY <2>1, EntriesWeights, SameTotal
  <2>4. QED
    BY <2>1, <2>2, <2>3 DEF Accounts, KeepsCache
<1>2. CASE k \in DOMAIN entries /\ ~Has(k)
  <2> DEFINE rest == Without(entries, {k})
  <2>1. entries' = rest /\ bytes' = bytes - entries[k].bytes /\ lost' = lost \cup {k}
    BY <1>2 DEF Read
  <2>2. DOMAIN rest = DOMAIN entries \ {k} /\ \A j \in DOMAIN rest : rest[j] = entries[j]
    BY DEF Without
  <2>3. PICK f : Sums(f, entries) /\ Total(entries) = f[DOMAIN entries]
    BY EntriesWeights, TotalSums
  <2>4. Weights(rest)
    BY EntriesWeights, TotalSplit, <1>2
  <2> HIDE DEF rest
  <2>5. Total(entries) = entries[k].bytes + Total(rest)
    <3>1. PICK g : Sums(g, rest) /\ Total(rest) = g[DOMAIN rest]
      BY <2>4, TotalSums
    <3>2. f[DOMAIN rest] = g[DOMAIN rest]
      <4>1. Weights(entries) /\ Sums(f, entries) /\ Sums(g, rest)
        BY <2>3, <3>1, EntriesWeights
      <4>2. /\ DOMAIN rest \subseteq DOMAIN entries
            /\ \A j \in DOMAIN rest : entries[j].bytes = rest[j].bytes
        BY <2>2
      <4>3. QED
        BY <4>1, <4>2, SumsAgree
    <3>3. f[DOMAIN entries] = entries[k].bytes + f[DOMAIN rest]
      <4>1. f[DOMAIN entries] = entries[k].bytes + f[DOMAIN entries \ {k}]
        BY <1>2, <2>3 DEF Sums
      <4>2. QED
        BY <2>2, <4>1
    <3>4. QED
      BY <2>3, <3>1, <3>2, <3>3
  <2>6. Total(rest) \in Nat /\ entries[k].bytes \in Nat
    BY <1>2, <2>4, TotalType, EntriesWeights DEF Weights
  <2>7. IsFiniteSet(DOMAIN rest) /\ Cardinality(DOMAIN rest) <= Cardinality(DOMAIN entries)
    BY <2>2, FS_Subset DEF Accounts
  <2>8. /\ Cardinality(DOMAIN rest) \in Nat /\ Cardinality(DOMAIN entries) \in Nat
        /\ MaxEntries \in Nat /\ MaxBytes \in Nat
    BY <2>7, FS_CardinalityType, ReplayAssumption DEF Accounts
  <2>9. bytes' = Total(rest) /\ bytes' <= MaxBytes /\ Cardinality(DOMAIN rest) <= MaxEntries
    BY <2>1, <2>5, <2>6, <2>7, <2>8 DEF Accounts
  <2>10. Accounts'
    BY <2>1, <2>2, <2>7, <2>9 DEF Accounts
  <2>11. KeepsCache
    BY <2>1, <2>2 DEF KeepsCache
  <2>12. QED
    BY <2>10, <2>11
<1>3. QED
  BY <1>1, <1>2

LEMMA ExpireAccounts ==
  ASSUME Accounts, NEW k, Expire(k)
  PROVE  Accounts' /\ KeepsCache
<1>1. DOMAIN entries' = DOMAIN entries /\ k \in DOMAIN entries
  BY DEF Expire, Has
<1>2. \A j \in DOMAIN entries : /\ DOMAIN entries'[j] = EntryFields
                                /\ entries'[j].items = entries[j].items
                                /\ entries'[j].bytes = entries[j].bytes
  BY DEF Expire, Has, Accounts, EntryFields
<1>3. Total(entries') = Total(entries)
  BY <1>1, <1>2, EntriesWeights, SameTotal
<1>4. bytes' = bytes /\ lost' = lost
  BY DEF Expire
<1>5. QED
  BY <1>1, <1>2, <1>3, <1>4 DEF Accounts, KeepsCache

(* Entries that fit beside another of this size.                             *)
Fits(es, size) == Cardinality(DOMAIN es) < MaxEntries /\ Total(es) + size <= MaxBytes

(* The random evictions stop when there is room, at the latest when nothing  *)
(* is left.                                                                  *)
LEMMA EvictionsFit ==
  ASSUME NEW es, Weights(es), NEW size \in Nat, size <= MaxBytes,
         NEW gone \in Evictions(es, Total(es), size)
  PROVE  gone \subseteq DOMAIN es /\ Fits(Without(es, gone), size)
<1>1. gone \in SUBSET DOMAIN es
  BY DEF Evictions
<1>2. DOMAIN Without(es, gone) = DOMAIN es \ gone
  BY DEF Without
<1>3. /\ Weights(Without(es, gone)) /\ Weights(Only(es, gone))
      /\ Total(es) = Total(Only(es, gone)) + Total(Without(es, gone))
  BY <1>1, TotalSplit
<1>4. Total(Only(es, gone)) \in Nat /\ Total(Without(es, gone)) \in Nat
  BY <1>3, TotalType
<1>5. CASE gone = DOMAIN es
  <2>1. DOMAIN Without(es, gone) = {}
    BY <1>2, <1>5
  <2>2. Total(Without(es, gone)) = 0 /\ Cardinality(DOMAIN Without(es, gone)) = 0
    BY <1>3, <2>1, TotalType, FS_EmptySet
  <2>3. MaxEntries \in Nat \ {0} /\ MaxBytes \in Nat
    BY ReplayAssumption
  <2>4. QED
    BY <1>1, <2>2, <2>3 DEF Fits
<1>6. CASE gone # DOMAIN es
  <2>1. /\ Cardinality(DOMAIN es \ gone) < MaxEntries
        /\ Total(es) - Total(Only(es, gone)) + size =< MaxBytes
    BY <1>6 DEF Evictions
  <2>2. Total(es) - Total(Only(es, gone)) = Total(Without(es, gone))
    BY <1>3, <1>4
  <2>3. QED
    BY <1>1, <1>2, <2>1, <2>2 DEF Fits
<1>7. QED
  BY <1>5, <1>6

LEMMA PutAccounts ==
  ASSUME Accounts, NEW k, NEW items \in Seq(Elements), NEW store, Put(k, items, store)
  PROVE  /\ Accounts'
         /\ \/ /\ Normalize(items) = <<>> \/ Encoded(Normalize(items)) > MaxBytes
               /\ UNCHANGED <<entries, lost>>
            \/ PutsAt(k, items)
<1> DEFINE norm == Normalize(items)
           size == Encoded(norm)
           others == Without(entries, {k})
           used == bytes - Total(Only(entries, DOMAIN entries \cap {k}))
           expired == IF Cardinality(DOMAIN others) >= MaxEntries
                      THEN {x \in DOMAIN others : others[x].expired} ELSE {}
           live == Without(others, expired)
           left == used - Total(Only(others, expired))
           new == [items |-> norm, store |-> store, bytes |-> size, expired |-> FALSE]
<1>1. norm \in Seq(Elements) /\ size \in Nat
  BY NormalizeType, EncodedType, ReplayAssumption
<1>2. DOMAIN others = DOMAIN entries \ {k} /\ \A j \in DOMAIN others : others[j] = entries[j]
  BY DEF Without
<1>3. Weights(others) /\ used = Total(others)
  <2>1. Without(entries, DOMAIN entries \cap {k}) = others
    BY DEF Without
  <2>2. /\ Weights(others) /\ Weights(Only(entries, DOMAIN entries \cap {k}))
        /\ Total(entries) = Total(Only(entries, DOMAIN entries \cap {k})) + Total(others)
    BY <2>1, EntriesWeights, TotalSplit
  <2>3. Total(others) \in Nat /\ Total(Only(entries, DOMAIN entries \cap {k})) \in Nat
    BY <2>2, TotalType
  <2> HIDE DEF others
  <2>4. QED
    BY <2>2, <2>3 DEF Accounts
<1>4. CASE norm = <<>> \/ size > MaxBytes
  <2>1. UNCHANGED <<entries, bytes, lost>>
    BY <1>4 DEF Put, PutBeside
  <2>2. Accounts'
    BY <2>1 DEF Accounts
  <2>3. QED
    BY <1>4, <2>1, <2>2
<1>5. CASE norm # <<>> /\ ~(size > MaxBytes)
  <2>1. PICK gone \in Evictions(live, left, size) :
          /\ entries' = With(Without(live, gone), k, new)
          /\ bytes' = left - Total(Only(live, gone)) + size
          /\ lost' = (lost \cup expired \cup gone) \ {k}
    BY <1>5 DEF Put, PutBeside
  <2>2. expired \in SUBSET DOMAIN others
    OBVIOUS
  <2> HIDE DEF expired, others, used, new, norm, size
  <2>3. DOMAIN live = DOMAIN others \ expired /\ \A j \in DOMAIN live : live[j] = others[j]
    BY DEF Without
  <2>4. Weights(live) /\ left = Total(live)
    <3>1. /\ Weights(live) /\ Weights(Only(others, expired))
          /\ Total(others) = Total(Only(others, expired)) + Total(live)
      BY <1>3, <2>2, TotalSplit
    <3>2. Total(live) \in Nat /\ Total(Only(others, expired)) \in Nat
      BY <3>1, TotalType
    <3> HIDE DEF live
    <3>3. QED
      BY <1>3, <3>1, <3>2
  <2> DEFINE kept == Without(live, gone)
  <2> HIDE DEF live, left
  <2>5. gone \in SUBSET DOMAIN live /\ Fits(kept, size)
    <3>1. size <= MaxBytes
      BY <1>1, <1>5, ReplayAssumption
    <3>2. QED
      BY <1>1, <2>1, <2>4, <3>1, EvictionsFit
  <2>6. DOMAIN kept = DOMAIN live \ gone /\ \A j \in DOMAIN kept : kept[j] = live[j]
    BY DEF Without
  <2>7. Weights(kept) /\ left - Total(Only(live, gone)) = Total(kept)
    <3>1. /\ Weights(kept) /\ Weights(Only(live, gone))
          /\ Total(live) = Total(Only(live, gone)) + Total(kept)
      BY <2>4, <2>5, TotalSplit
    <3>2. Total(kept) \in Nat /\ Total(Only(live, gone)) \in Nat
      BY <3>1, TotalType
    <3> HIDE DEF kept
    <3>3. QED
      BY <2>4, <3>1, <3>2
  <2>8. entries' = With(kept, k, new) /\ bytes' = Total(kept) + size
    BY <2>1, <2>7
  <2>9. k \notin DOMAIN kept
    BY <1>2, <2>3, <2>6
  <2>10. new.bytes = size /\ new.items = norm /\ DOMAIN new = EntryFields
    BY DEF new, EntryFields
  <2>11. /\ DOMAIN entries' = DOMAIN kept \cup {k}
         /\ \A j \in DOMAIN entries' : entries'[j] = IF j = k THEN new ELSE kept[j]
    BY <2>8 DEF With
  <2>12. \A j \in DOMAIN kept : j \in DOMAIN entries /\ kept[j] = entries[j]
    BY <1>2, <2>3, <2>6
  <2> HIDE DEF kept
  <2>13. Total(entries') = bytes'
    BY <1>1, <2>7, <2>8, <2>9, <2>10, TotalWith
  <2>14. bytes' <= MaxBytes
    BY <2>5, <2>8 DEF Fits
  <2>15. IsFiniteSet(DOMAIN entries') /\ Cardinality(DOMAIN entries') <= MaxEntries
    <3>1. IsFiniteSet(DOMAIN kept) /\ Cardinality(DOMAIN kept) < MaxEntries
      BY <2>5, <2>7 DEF Fits, Weights
    <3>2. Cardinality(DOMAIN kept \cup {k}) = Cardinality(DOMAIN kept) + 1
      BY <2>9, <3>1, FS_AddElement
    <3>3. IsFiniteSet(DOMAIN kept \cup {k}) /\ Cardinality(DOMAIN kept) \in Nat /\ MaxEntries \in Nat
      BY <3>1, FS_AddElement, FS_CardinalityType, ReplayAssumption
    <3>4. QED
      BY <2>11, <3>1, <3>2, <3>3
  <2>16. \A j \in DOMAIN entries' :
           /\ DOMAIN entries'[j] = EntryFields
           /\ entries'[j].items \in Seq(Elements) /\ entries'[j].items # <<>>
           /\ entries'[j].bytes = Encoded(entries'[j].items)
    <3>1. norm \in Seq(Elements) /\ norm # <<>> /\ size = Encoded(norm)
      BY <1>1, <1>5 DEF size
    <3>2. QED
      BY <2>10, <2>11, <2>12, <3>1 DEF Accounts
  <2>17. Accounts'
    BY <2>13, <2>14, <2>15, <2>16 DEF Accounts
  <2>18. PutsAt(k, items)
    <3>1. \A j \in DOMAIN entries : j \in DOMAIN entries' \/ j \in lost'
      BY <1>2, <2>1, <2>3, <2>6, <2>11
    <3>2. lost \ {k} \subseteq lost'
      BY <2>1
    <3>3. k \in DOMAIN entries' /\ entries'[k].items = Normalize(items)
      BY <2>10, <2>11 DEF norm
    <3>4. QED
      BY <2>11, <2>12, <3>1, <3>2, <3>3 DEF PutsAt
  <2>19. QED
    BY <2>17, <2>18
<1>6. QED
  BY <1>4, <1>5

-----------------------------------------------------------------------------
(* The inductive invariant.                                                  *)

Fields == {"pc", "body", "input", "at", "prev", "known", "stateful", "store",
           "sent", "items", "todo", "done", "told", "completed"}
Statuses == {"arriving", "looking", "expanding", "applying", "rendering",
             "answering", "remembering", "ended"}

(* The calls that may be remembered under a key: those of answers to its     *)
(* tenant and, for a response, of that response.                             *)
From(k) ==
    {x \in Elements : \E a \in Requests :
        /\ x \in ToSet(Turns[a]) /\ req[a].body.tenant = k[1]
        /\ k[2] = "prev" => k[3] = ResponseId(a)}

(* The calls that may be put back in the input of a request.                 *)
HasReference(r) == \E y \in ToSet(req[r].body.input) : y.type = "reference"
Allowed(r) ==
    {x \in Elements : \E a \in Requests :
        /\ x \in ToSet(Turns[a]) /\ req[a].body.tenant = req[r].body.tenant
        /\ req[r].body.prev = "" \/ HasReference(r) \/ req[r].body.prev = ResponseId(a)}
Known(r) == ToSet(req[r].body.input) \cup Allowed(r)

(* q is a state that request r can be in.                                    *)
Fine(r, q) ==
    /\ DOMAIN q = Fields
    /\ q.pc \in Statuses
    /\ q.body = req[r].body
    /\ q.at \in Nat \ {0}
    /\ q.done \in Nat /\ q.done <= Len(Turns[r])
    /\ q.items \in Seq(ToSet(Turns[r]))
    /\ q.todo \in Seq(ToSet(q.todo))
    /\ \A e \in ToSet(q.todo) : e.items \in Seq(From(e.key))
    /\ q.input \in Seq(Known(r)) /\ q.sent \in Seq(Known(r))
    /\ q.pc \in {"looking", "expanding"} =>
          HasReference(r) \/ ToSet(q.input) \subseteq ToSet(q.body.input)

Request(r) == req[r].body \in Bodies[r] /\ Fine(r, req[r])

Home == \A k \in DOMAIN entries : entries[k].items \in Seq(From(k))

Requested == DOMAIN req = Requests /\ \A r \in Requests : Request(r)

Inv == Accounts /\ Home /\ Requested

-----------------------------------------------------------------------------
(* What the requests make of their inputs.                                   *)

(* A replay adds nothing but candidates.                                     *)
LEMMA ReplayType ==
  ASSUME NEW S, NEW input \in Seq(S), NEW candidates \in Seq(S),
         CallIds(input, "output") # {}
  PROVE  Replay(input, candidates).input \in Seq(S)
<1> DEFINE missing == MissingCalls(input, candidates)
           n == InsertionPoint(input, missing)
           before == SubSeq(input, 1, n - 1)
           after == SubSeq(input, n, Len(input))
<1>1. missing \in Seq(S)
  <2>1. missing \in Seq({x \in ToSet(candidates) : x.type = "call"})
    BY MissingType
  <2>2. {x \in ToSet(candidates) : x.type = "call"} \subseteq S
    BY DEF ToSet
  <2> HIDE DEF missing
  <2>3. QED
    BY <2>1, <2>2
<1>2. n \in DOMAIN input
  <2> DEFINE outputs == {i \in DOMAIN input : input[i].type = "output"}
             answered == {i \in outputs : input[i].call \in CallIds(missing, "call") \cup {""}}
             places == IF answered = {} THEN outputs ELSE answered
  <2>1. outputs # {}
    BY DEF CallIds, ToSet
  <2>2. places # {} /\ places \subseteq DOMAIN input
    BY <2>1
  <2>3. n = Min(places)
    BY DEF InsertionPoint
  <2> HIDE DEF places, n
  <2>4. places \subseteq Nat
    BY <2>2
  <2>5. \E i \in places : \A j \in places : i <= j
    BY <2>2, <2>4, LeastElement
  <2>6. Min(places) \in places
    BY <2>5 DEF Min
  <2>7. QED
    BY <2>2, <2>3, <2>6
<1> HIDE DEF missing, n
<1>3. before \in Seq(S)
  BY <1>2, Part
<1>4. after \in Seq(S)
  BY <1>2, Part
<1>5. before \o missing \o after \in Seq(S)
  <2> HIDE DEF before, after
  <2>1. QED
    BY <1>1, <1>3, <1>4
<1>6. Replay(input, candidates).input \in {input, before \o missing \o after}
  BY DEF Replay, missing, n
<1>7. QED
  BY <1>5, <1>6

LEMMA CleanType ==
  ASSUME NEW S, NEW input \in Seq(S), NEW prev
  PROVE  CleanNativeInput(input, prev) \in Seq(S) /\ RenderInput(input) \in Seq(S)
<1>1. ASSUME NEW at
      PROVE  Kept(input, at) \in Seq(S)
  <2> DEFINE T == {input[i] : i \in at \cap DOMAIN input}
  <2>1. Kept(input, at) \in Seq(T)
    BY KeptType
  <2>2. T \subseteq S
    OBVIOUS
  <2> HIDE DEF T
  <2>3. QED
    BY <2>1, <2>2
<1>2. QED
  BY <1>1 DEF CleanNativeInput, RenderInput

-----------------------------------------------------------------------------
(* The steps of a request.                                                   *)

BodiesStay == \A a \in Requests : req'[a].body = req[a].body

LEMMA SameFrom ==
  ASSUME BodiesStay, NEW k
  PROVE  From(k)' = From(k)
BY DEF BodiesStay, From

LEMMA SameKnown ==
  ASSUME BodiesStay, NEW r \in Requests
  PROVE  Known(r)' = Known(r) /\ HasReference(r)' = HasReference(r)
BY DEF BodiesStay, Known, Allowed, HasReference

LEMMA FineStays ==
  ASSUME BodiesStay, NEW r \in Requests, NEW q, Fine(r, q), req'[r] = q
  PROVE  Fine(r, req[r])'
<1>1. Known(r)' = Known(r) /\ HasReference(r)' = HasReference(r)
  BY SameKnown
<1>2. \A k : From(k)' = From(k)
  BY SameFrom
<1>3. (\A e \in ToSet(req[r].todo) : e.items \in Seq(From(e.key)))'
  <2>1. \A e \in ToSet(q.todo) : e.items \in Seq(From(e.key))
    BY DEF Fine
  <2>2. QED
    BY <1>2, <2>1
<1>4. QED
  BY <1>1, <1>3 DEF Fine, BodiesStay

LEMMA StepFine ==
  ASSUME Requested, NEW r \in Requests, NEW q, Fine(r, q), Step(r, q)
  PROVE  Requested' /\ BodiesStay
<1>1. DOMAIN req' = Requests /\ req'[r] = q /\ \A a \in Requests \ {r} : req'[a] = req[a]
  BY DEF Requested, Step
<1>2. BodiesStay
  BY <1>1 DEF Fine, BodiesStay
<1>3. ASSUME NEW a \in Requests
      PROVE  Request(a)'
  <2>1. Fine(a, req'[a])
    BY <1>1 DEF Requested, Request
  <2>2. Fine(a, req[a])'
    BY <1>2, <2>1, FineStays
  <2>3. (req[a].body \in Bodies[a])'
    BY <1>2 DEF Requested, Request, BodiesStay
  <2>4. QED
    BY <2>2, <2>3 DEF Request
<1>4. QED
  BY <1>1, <1>2, <1>3 DEF Requested

LEMMA NothingChanges ==
  ASSUME Accounts, UNCHANGED <<entries, bytes, lost>>
  PROVE  Accounts' /\ KeepsCache
BY DEF Accounts, KeepsCache

LEMMA ArriveStep ==
  ASSUME Inv, NEW r \in Requests, Arrive(r)
  PROVE  Accounts' /\ KeepsCache /\ Requested' /\ BodiesStay
<1> DEFINE b == req[r].body
           q == [req[r] EXCEPT !.input = b.input, !.prev = b.prev,
                    !.pc = IF b.native THEN "rendering"
                           ELSE IF b.prev = "" THEN "expanding" ELSE "looking"]
<1>1. Request(r)
  BY DEF Inv, Requested
<1>2. Step(r, q) /\ UNCHANGED <<entries, bytes, lost>>
  BY DEF Arrive
<1>3. b.input \in Seq(ToSet(b.input))
  BY <1>1, ReplayAssumption DEF Request
<1>4. b.input \in Seq(Known(r))
  BY <1>3, Wider DEF Known
<1>5. Fine(r, q)
  BY <1>1, <1>4 DEF Request, Fine, Fields, Statuses
<1> HIDE DEF q
<1>6. QED
  BY <1>2, <1>5, StepFine, NothingChanges DEF Inv

LEMMA LookUpPreviousStep ==
  ASSUME Inv, NEW r \in Requests, LookUpPrevious(r)
  PROVE  Accounts' /\ KeepsCache /\ Requested' /\ BodiesStay
<1> DEFINE stateful == Has(Prev(r)) /\ entries[Prev(r)].store
           q == [req[r] EXCEPT !.known = Has(Prev(r)), !.stateful = stateful,
                               !.pc = IF stateful THEN "applying" ELSE "expanding"]
<1>1. Request(r)
  BY DEF Inv, Requested
<1>2. Step(r, q) /\ Read(Prev(r)) /\ req[r].pc = "looking"
  BY DEF LookUpPrevious
<1> HIDE DEF stateful
<1>3. Fine(r, q)
  BY <1>1, <1>2 DEF Request, Fine, Fields, Statuses
<1> HIDE DEF q
<1>4. QED
  BY <1>2, <1>3, StepFine, ReadAccounts DEF Inv

(* What is read in the cache was made by an answer to the tenant.            *)
LEMMA ItemsHome ==
  ASSUME Inv, NEW k
  PROVE  Items(k) \in Seq(From(k))
BY DEF Inv, Home, Items, Has

LEMMA ExpandStep ==
  ASSUME Inv, NEW r \in Requests, Expand(r)
  PROVE  Accounts' /\ KeepsCache /\ Requested' /\ BodiesStay
<1> DEFINE x == req[r].input[req[r].at]
           k == Key(req[r].body.tenant, "item", x.id)
           found == IF Items(k) = <<>> THEN <<x>> ELSE Items(k)
           before == SubSeq(req[r].input, 1, req[r].at - 1)
           after == SubSeq(req[r].input, req[r].at + 1, Len(req[r].input))
           q == [req[r] EXCEPT !.input = before \o found \o after, !.at = @ + Len(found)]
           next == [req[r] EXCEPT !.at = @ + 1]
<1>1. Request(r) /\ req[r].pc = "expanding" /\ req[r].at <= Len(req[r].input)
  BY DEF Inv, Requested, Expand
<1>2. \/ x.type = "reference" /\ Read(k) /\ Step(r, q)
      \/ Step(r, next) /\ UNCHANGED <<entries, bytes, lost>>
  BY DEF Expand
<1>3. req[r].input \in Seq(Known(r)) /\ req[r].at \in DOMAIN req[r].input /\ req[r].at \in Nat
  BY <1>1 DEF Request, Fine
<1>4. CASE x.type = "reference" /\ Read(k) /\ Step(r, q)
  <2>1. HasReference(r)
    <3>1. x \in ToSet(req[r].input)
      BY <1>3 DEF ToSet
    <3>2. HasReference(r) \/ ToSet(req[r].input) \subseteq ToSet(req[r].body.input)
      BY <1>1 DEF Request, Fine
    <3> HIDE DEF x
    <3>3. QED
      BY <1>4, <3>1, <3>2 DEF HasReference
  <2>2. From(k) \subseteq Allowed(r)
    BY <2>1 DEF From, Allowed, Key
  <2>3. Items(k) \in Seq(Known(r))
    <3>1. Items(k) \in Seq(From(k)) /\ From(k) \subseteq Known(r)
      BY <2>2, ItemsHome DEF Known
    <3> HIDE DEF k
    <3>2. QED
      BY <3>1
  <2>4. x \in Known(r)
    BY <1>3
  <2> HIDE DEF x, k
  <2>5. found \in Seq(Known(r)) /\ Len(found) \in Nat
    BY <2>3, <2>4
  <2>6. before \in Seq(Known(r)) /\ after \in Seq(Known(r))
    BY <1>3, Part
  <2> HIDE DEF found, before, after
  <2>7. before \o found \o after \in Seq(Known(r))
    BY <2>5, <2>6
  <2>8. Fine(r, q)
    BY <1>1, <2>1, <2>5, <2>7, SMTT(20) DEF Request, Fine, Fields, Statuses
  <2> HIDE DEF q
  <2>9. QED
    BY <1>4, <2>8, StepFine, ReadAccounts DEF Inv
<1>5. CASE Step(r, next) /\ UNCHANGED <<entries, bytes, lost>>
  <2>1. Fine(r, next)
    BY <1>1 DEF Request, Fine, Fields, Statuses
  <2> HIDE DEF next
  <2>2. QED
    BY <1>5, <2>1, StepFine, NothingChanges DEF Inv
<1>6. QED
  BY <1>2, <1>4, <1>5

LEMMA ExpandedStep ==
  ASSUME Inv, NEW r \in Requests, Expanded(r)
  PROVE  Accounts' /\ KeepsCache /\ Requested' /\ BodiesStay
<1>1. Request(r)
  BY DEF Inv, Requested
<1>2. Step(r, Goto(r, "applying")) /\ UNCHANGED <<entries, bytes, lost>>
  BY DEF Expanded
<1>3. Fine(r, Goto(r, "applying"))
  BY <1>1 DEF Request, Fine, Fields, Statuses, Goto
<1>4. QED
  BY <1>2, <1>3, StepFine, NothingChanges DEF Inv

LEMMA ApplyStep ==
  ASSUME Inv, NEW r \in Requests, Apply(r)
  PROVE  Accounts' /\ KeepsCache /\ Requested' /\ BodiesStay
<1> DEFINE q == req[r]
           session == Key(q.body.tenant, "cache", q.body.key)
           refused == [ok |-> FALSE, input |-> q.input]
<1>1. Request(r) /\ q.input \in Seq(Known(r))
  BY DEF Inv, Requested, Request, Fine
<1>2. ASSUME NEW replay, replay.input \in Seq(Known(r)), Step(r, Prepared(q, replay))
      PROVE  Requested' /\ BodiesStay
  <2>1. Fine(r, Prepared(q, replay))
    BY <1>1, <1>2 DEF Request, Fine, Fields, Statuses, Prepared
  <2>2. QED
    BY <1>2, <2>1, StepFine DEF Inv
<1>3. ASSUME NEW k, From(k) \subseteq Allowed(r), CallIds(q.input, "output") # {}
      PROVE  Replay(q.input, Items(k)).input \in Seq(Known(r))
  <2>1. Items(k) \in Seq(From(k)) /\ From(k) \subseteq Known(r)
    BY <1>3, ItemsHome DEF Known
  <2>2. Items(k) \in Seq(Known(r))
    BY <2>1
  <2>3. QED
    BY <1>1, <1>3, <2>2, ReplayType
<1>4. refused.input \in Seq(Known(r))
  BY <1>1
<1>5. CASE /\ CallIds(q.input, "output") # {} /\ Read(Prev(r))
           /\ \/ Step(r, Prepared(q, Replay(q.input, Items(Prev(r)))))
              \/ Step(r, Prepared(q, refused))
  <2>1. From(Prev(r)) \subseteq Allowed(r)
    BY DEF From, Allowed, Prev, Key
  <2>2. Replay(q.input, Items(Prev(r))).input \in Seq(Known(r))
    BY <1>3, <1>5, <2>1
  <2>3. Requested' /\ BodiesStay
    BY <1>2, <1>4, <1>5, <2>2
  <2>4. QED
    BY <1>5, <2>3, ReadAccounts DEF Inv
<1>6. CASE /\ CallIds(q.input, "output") # {} /\ q.body.prev = "" /\ Read(session)
           /\ Step(r, Prepared(q, Replay(q.input, Items(session))))
  <2>1. From(session) \subseteq Allowed(r)
    BY <1>6 DEF From, Allowed, Key
  <2>2. Replay(q.input, Items(session)).input \in Seq(Known(r))
    BY <1>3, <1>6, <2>1
  <2>3. Requested' /\ BodiesStay
    BY <1>2, <1>6, <2>2
  <2>4. QED
    BY <1>6, <2>3, ReadAccounts DEF Inv
<1>7. CASE Step(r, Prepared(q, refused)) /\ UNCHANGED <<entries, bytes, lost>>
  <2>1. Requested' /\ BodiesStay
    BY <1>2, <1>4, <1>7
  <2>2. QED
    BY <1>7, <2>1, NothingChanges DEF Inv
<1>8. QED
  BY <1>5, <1>6, <1>7 DEF Apply

LEMMA RenderStep ==
  ASSUME Inv, NEW r \in Requests, Render(r)
  PROVE  Accounts' /\ KeepsCache /\ Requested' /\ BodiesStay
<1> DEFINE native == req[r].body.up = "responses"
           sent == IF native THEN CleanNativeInput(req[r].input, req[r].prev)
                   ELSE RenderInput(req[r].input)
           store == native /\ (req[r].body.store = "yes"
                               \/ (req[r].body.store = "unset" /\ ~req[r].body.native))
           q == [req[r] EXCEPT !.sent = sent, !.store = store,
                               !.prev = IF native THEN @ ELSE "",
                               !.pc = IF sent = <<>> THEN "ended" ELSE "answering"]
<1>1. Request(r)
  BY DEF Inv, Requested
<1>2. Step(r, q) /\ UNCHANGED <<entries, bytes, lost>>
  BY DEF Render
<1>3. sent \in Seq(Known(r))
  BY <1>1, CleanType DEF Request, Fine
<1> HIDE DEF native, sent, store
<1>4. Fine(r, q)
  BY <1>1, <1>3 DEF Request, Fine, Fields, Statuses
<1> HIDE DEF q
<1>5. QED
  BY <1>2, <1>4, StepFine, NothingChanges DEF Inv

(* The items of an answer are among those its keys may hold.                 *)
LEMMA TurnType ==
  ASSUME NEW r \in Requests
  PROVE  Turns[r] \in Seq(ToSet(Turns[r])) /\ Len(Turns[r]) \in Nat
BY InRange, ReplayAssumption

LEMMA TurnHome ==
  ASSUME NEW r \in Requests, NEW kind, NEW name, kind = "prev" => name = ResponseId(r)
  PROVE  ToSet(Turns[r]) \subseteq From(Key(req[r].body.tenant, kind, name))
<1> SUFFICES ASSUME NEW x \in ToSet(Turns[r])
             PROVE  x \in From(Key(req[r].body.tenant, kind, name))
  OBVIOUS
<1>1. x \in Elements
  BY DEF Elements
<1>2. QED
  BY <1>1 DEF From, Key

LEMMA ItemDoneStep ==
  ASSUME Inv, NEW r \in Requests, ItemDone(r)
  PROVE  Accounts' /\ KeepsCache /\ Requested' /\ BodiesStay
<1> DEFINE x == Turns[r][req[r].done + 1]
           k == Key(req[r].body.tenant, "item", x.id)
           todo == IF x.type = "call" /\ Normalize(<<x>>) # <<>>
                   THEN ToPut(req[r].body.tenant, "item", x.id, <<x>>) ELSE <<>>
           items == IF x.type = "call" THEN Append(req[r].items, x) ELSE req[r].items
           q == [req[r] EXCEPT !.done = @ + 1, !.pc = "remembering",
                               !.items = items, !.todo = todo]
<1>1. Request(r) /\ req[r].done < Len(Turns[r])
  BY DEF Inv, Requested, ItemDone
<1>2. Step(r, q) /\ UNCHANGED <<entries, bytes, lost>>
  BY DEF ItemDone
<1>3. req[r].done + 1 \in DOMAIN Turns[r] /\ req[r].done \in Nat /\ Len(Turns[r]) \in Nat
  BY <1>1, TurnType DEF Request, Fine
<1>4. x \in ToSet(Turns[r])
  BY <1>3 DEF ToSet
<1> HIDE DEF x
<1>5. <<x>> \in Seq(From(k))
  <2>1. x \in From(k)
    BY <1>4, TurnHome
  <2> HIDE DEF k
  <2>2. QED
    BY <2>1
<1>6. todo \in Seq(ToSet(todo)) /\ \A e \in ToSet(todo) : e.items \in Seq(From(e.key))
  <2> DEFINE S == {Entry(req[r].body.tenant, "item", x.id, <<x>>)}
  <2>1. todo \in Seq(S)
    <3>1. Entry(req[r].body.tenant, "item", x.id, <<x>>) \in S
      OBVIOUS
    <3> HIDE DEF S
    <3>2. ToPut(req[r].body.tenant, "item", x.id, <<x>>) \in Seq(S)
      BY <3>1, ToPutType
    <3>3. QED
      BY <3>2
  <2>2. \A e \in S : e.items \in Seq(From(e.key))
    <3> DEFINE e == Entry(req[r].body.tenant, "item", x.id, <<x>>)
    <3>1. e.items = <<x>> /\ e.key = k
      BY DEF Entry
    <3>2. e.items \in Seq(From(e.key))
      BY <1>5, <3>1
    <3>3. QED
      BY <3>2
  <2> HIDE DEF todo, S
  <2>3. QED
    BY <2>1, <2>2, InRange
<1>7. items \in Seq(ToSet(Turns[r]))
  <2> DEFINE T == ToSet(Turns[r])
  <2>1. req[r].items \in Seq(T) /\ x \in T
    BY <1>1, <1>4 DEF Request, Fine
  <2> HIDE DEF T
  <2>2. items \in Seq(T)
    BY <2>1
  <2>3. QED
    BY <2>2 DEF T
<1> HIDE DEF items, todo
<1>8. Fine(r, q)
  BY <1>1, <1>3, <1>6, <1>7, SMTT(20) DEF Request, Fine, Fields, Statuses
<1> HIDE DEF q
<1>9. QED
  BY <1>2, <1>8, StepFine, NothingChanges DEF Inv

LEMMA CompletedStep ==
  ASSUME Inv, NEW r \in Requests, Completed(r)
  PROVE  Accounts' /\ KeepsCache /\ Requested' /\ BodiesStay
<1> DEFINE id == ResponseId(r)
           next(todo) == [req[r] EXCEPT !.todo = todo, !.done = Len(Turns[r]),
                                        !.completed = TRUE, !.pc = "remembering"]
<1>1. Request(r)
  BY DEF Inv, Requested
<1>2. PICK output \in {Turns[r], req[r].items} :
          Step(r, next(RememberCompleted(req[r], id, output)))
  BY DEF Completed
<1>3. UNCHANGED <<entries, bytes, lost>>
  BY DEF Completed
<1> DEFINE T == ToSet(Turns[r])
           todo == RememberCompleted(req[r], id, output)
           q == next(todo)
           S == Leaves(req[r], id, output)
<1>4. output \in Seq(T)
  BY <1>1, TurnType DEF Request, Fine
<1>5. Calls(output) \in Seq(T)
  <2> DEFINE at == {n \in DOMAIN output : output[n].type = "call"}
             U == {output[i] : i \in at \cap DOMAIN output}
  <2> HIDE DEF T
  <2>1. Calls(output) \in Seq(U)
    BY <1>4, KeptType DEF Calls
  <2>2. U \subseteq T
    BY <1>4
  <2> HIDE DEF U
  <2>3. QED
    BY <2>1, <2>2
<1>6. ASSUME NEW kind, NEW name, NEW items \in Seq(T), kind = "prev" => name = id
      PROVE  LET e == Entry(req[r].body.tenant, kind, name, items) IN
             e.items \in Seq(From(e.key))
  <2>1. T \subseteq From(Key(req[r].body.tenant, kind, name))
    BY <1>6, TurnHome
  <2>2. items \in Seq(From(Key(req[r].body.tenant, kind, name)))
    BY <2>1, Wider
  <2>3. QED
    BY <2>2 DEF Entry
<1>7. \A x \in ToSet(Calls(output)) : <<x>> \in Seq(T)
  <2>1. ToSet(Calls(output)) \subseteq T
    BY <1>5, InRange
  <2> HIDE DEF T
  <2>2. QED
    BY <2>1
<1> HIDE DEF T, id, next
<1>8. \A e \in S : e.items \in Seq(From(e.key))
  BY <1>5, <1>6, <1>7 DEF Leaves, ItemEntries
<1>9. todo \in Seq(S)
  BY <1>4, RememberType
<1>10. todo \in Seq(ToSet(todo)) /\ \A e \in ToSet(todo) : e.items \in Seq(From(e.key))
  <2> HIDE DEF todo, S
  <2>1. QED
    BY <1>8, <1>9, InRange
<1> HIDE DEF todo
<1>11. Fine(r, q)
  BY <1>1, <1>10, TurnType DEF Request, Fine, Fields, Statuses, next
<1>12. Step(r, q)
  BY <1>2 DEF todo
<1> HIDE DEF q
<1>13. QED
  BY <1>3, <1>11, <1>12, StepFine, NothingChanges DEF Inv

LEMMA TellStep ==
  ASSUME Inv, NEW r \in Requests, Tell(r) \/ Fail(r)
  PROVE  Accounts' /\ KeepsCache /\ Requested' /\ BodiesStay
<1>1. Request(r)
  BY DEF Inv, Requested
<1>2. CASE Tell(r)
  <2> DEFINE q == [req[r] EXCEPT !.told = req[r].done,
                                 !.pc = IF req[r].completed THEN "ended" ELSE "answering"]
  <2>1. Step(r, q) /\ UNCHANGED <<entries, bytes, lost>>
    BY <1>2 DEF Tell
  <2>2. Fine(r, q)
    BY <1>1 DEF Request, Fine, Fields, Statuses
  <2> HIDE DEF q
  <2>3. QED
    BY <2>1, <2>2, StepFine, NothingChanges DEF Inv
<1>3. CASE Fail(r)
  <2> DEFINE q == [req[r] EXCEPT !.pc = "ended", !.completed = FALSE]
  <2>1. Step(r, q) /\ UNCHANGED <<entries, bytes, lost>>
    BY <1>3 DEF Fail
  <2>2. Fine(r, q)
    BY <1>1 DEF Request, Fine, Fields, Statuses
  <2> HIDE DEF q
  <2>3. QED
    BY <2>1, <2>2, StepFine, NothingChanges DEF Inv
<1>4. QED
  BY <1>2, <1>3

(* The first of the items to be put is put; they are items of its key.       *)
LEMMA RememberStep ==
  ASSUME Inv, NEW r \in Requests, Remember(r)
  PROVE  /\ Accounts' /\ Requested' /\ BodiesStay
         /\ LET e == Head(req[r].todo) IN
            /\ e \in ToSet(req[r].todo)
            /\ Normalize(e.items) \in Seq(From(e.key))
            /\ \/ /\ Normalize(e.items) = <<>> \/ Encoded(Normalize(e.items)) > MaxBytes
                  /\ UNCHANGED <<entries, lost>>
               \/ PutsAt(e.key, e.items)
<1> DEFINE e == Head(req[r].todo)
           q == [req[r] EXCEPT !.todo = Tail(@)]
<1>1. Request(r)
  BY DEF Inv, Requested
<1>2. Step(r, q) /\ Put(e.key, e.items, req[r].store) /\ req[r].todo # <<>>
  BY DEF Remember
<1>3. /\ e \in ToSet(req[r].todo) /\ Tail(req[r].todo) \in Seq(ToSet(Tail(req[r].todo)))
      /\ ToSet(Tail(req[r].todo)) \subseteq ToSet(req[r].todo)
  <2>1. req[r].todo \in Seq(ToSet(req[r].todo))
    BY <1>1 DEF Request, Fine
  <2>2. QED
    BY <1>2, <2>1, TailRange
<1> HIDE DEF e
<1>4. Fine(r, q)
  BY <1>1, <1>3 DEF Request, Fine, Fields, Statuses
<1>5. e.items \in Seq(From(e.key)) /\ From(e.key) \subseteq Elements
  BY <1>1, <1>3 DEF Request, Fine, From
<1>6. e.items \in Seq(Elements) /\ Normalize(e.items) \in Seq(From(e.key))
  BY <1>5, Wider, NormalizeType
<1> HIDE DEF q
<1>7. Requested' /\ BodiesStay
  BY <1>2, <1>4, StepFine DEF Inv
<1>8. /\ Accounts'
      /\ \/ /\ Normalize(e.items) = <<>> \/ Encoded(Normalize(e.items)) > MaxBytes
            /\ UNCHANGED <<entries, lost>>
         \/ PutsAt(e.key, e.items)
  BY <1>2, <1>6, PutAccounts DEF Inv
<1>9. QED
  BY <1>3, <1>6, <1>7, <1>8 DEF e

-----------------------------------------------------------------------------
(* The theorems.                                                             *)

LEMMA InvInit ==
  ASSUME Init
  PROVE  Inv
<1>1. entries = <<>> /\ bytes = 0 /\ DOMAIN entries = {}
  BY DEF Init
<1>2. Accounts
  <2>1. IsFiniteSet({}) /\ Cardinality({}) = 0
    BY FS_EmptySet
  <2>2. Weights(entries)
    BY <1>1, <2>1 DEF Weights
  <2>3. Total(entries) = 0
    BY <1>1, <2>2, TotalType
  <2>4. MaxEntries \in Nat /\ MaxBytes \in Nat
    BY ReplayAssumption
  <2>5. QED
    BY <1>1, <2>1, <2>3, <2>4 DEF Accounts
<1>3. Home
  BY <1>1 DEF Home
<1>4. ASSUME NEW r \in Requests
      PROVE  Request(r)
  <2>1. PICK b : req[r] = NewRequest(b)
    BY DEF Init
  <2>2. req[r].body \in Bodies[r]
    BY DEF Init
  <2>3. Len(Turns[r]) \in Nat
    BY TurnType
  <2>4. Fine(r, req[r])
    <3>1. ToSet(<<>>) = {} /\ \A S : <<>> \in Seq(S)
      BY DEF ToSet
    <3>2. DOMAIN req[r] = Fields
      BY <2>1 DEF NewRequest, Fields
    <3>3. /\ req[r].pc = "arriving" /\ req[r].at = 1 /\ req[r].done = 0
          /\ req[r].items = <<>> /\ req[r].todo = <<>>
          /\ req[r].input = <<>> /\ req[r].sent = <<>>
      <4> DEFINE q == NewRequest(b)
      <4>1. q.pc = "arriving" /\ q.at = 1 /\ q.done = 0
        BY DEF NewRequest
      <4>2. q.items = <<>> /\ q.todo = <<>> /\ q.input = <<>> /\ q.sent = <<>>
        BY DEF NewRequest
      <4> HIDE DEF q
      <4>3. QED
        BY <2>1, <4>1, <4>2 DEF q
    <3>4. QED
      BY <2>3, <3>1, <3>2, <3>3 DEF Fine, Statuses
  <2>5. QED
    BY <2>2, <2>4 DEF Request
<1>5. DOMAIN req = Requests
  BY DEF Init
<1>6. QED
  BY <1>2, <1>3, <1>4, <1>5 DEF Inv, Requested

LEMMA RequestsStay ==
  ASSUME Requested, UNCHANGED req
  PROVE  Requested' /\ BodiesStay
<1>1. BodiesStay
  BY DEF BodiesStay
<1>2. ASSUME NEW r \in Requests
      PROVE  Request(r)'
  <2>1. Fine(r, req[r])'
    BY <1>1, FineStays DEF Requested, Request
  <2>2. QED
    BY <2>1 DEF Requested, Request
<1>3. QED
  BY <1>1, <1>2 DEF Requested

LEMMA HomeStays ==
  ASSUME Home, BodiesStay, KeepsCache
  PROVE  Home'
<1>1. \A k : From(k)' = From(k)
  BY SameFrom
<1>2. \A j \in DOMAIN entries' : entries'[j].items \in Seq(From(j))
  BY DEF Home, KeepsCache
<1>3. QED
  BY <1>1, <1>2 DEF Home

LEMMA InvNext ==
  ASSUME Inv, [Next]_vars
  PROVE  Inv'
<1>1. CASE UNCHANGED vars
  <2>1. UNCHANGED <<entries, bytes, lost>> /\ UNCHANGED req
    BY <1>1 DEF vars
  <2>2. QED
    BY <2>1, RequestsStay, NothingChanges, HomeStays DEF Inv
<1>2. ASSUME NEW r \in Requests,
             \/ Arrive(r) \/ LookUpPrevious(r) \/ Expand(r) \/ Expanded(r) \/ Apply(r) \/ Render(r)
             \/ ItemDone(r) \/ Completed(r) \/ Tell(r) \/ Fail(r)
      PROVE  Inv'
  <2>1. Accounts' /\ KeepsCache /\ Requested' /\ BodiesStay
    BY <1>2, ArriveStep, LookUpPreviousStep, ExpandStep, ExpandedStep, ApplyStep, RenderStep,
       ItemDoneStep, CompletedStep, TellStep
  <2>2. QED
    BY <2>1, HomeStays DEF Inv
<1>3. ASSUME NEW r \in Requests, Remember(r)
      PROVE  Inv'
  <2> DEFINE e == Head(req[r].todo)
  <2>1. /\ Accounts' /\ Requested' /\ BodiesStay
        /\ Normalize(e.items) \in Seq(From(e.key))
        /\ UNCHANGED entries \/ PutsAt(e.key, e.items)
    BY <1>3, RememberStep
  <2> HIDE DEF e
  <2>2. \A k : From(k)' = From(k)
    BY <2>1, SameFrom
  <2>3. \A j \in DOMAIN entries' : entries'[j].items \in Seq(From(j))
    BY <2>1 DEF Inv, Home, PutsAt
  <2>4. Home'
    BY <2>2, <2>3 DEF Home
  <2>5. QED
    BY <2>1, <2>4 DEF Inv
<1>4. ASSUME NEW k, Expire(k)
      PROVE  Inv'
  <2>1. UNCHANGED req
    BY <1>4 DEF Expire
  <2>2. Requested' /\ BodiesStay
    BY <2>1, RequestsStay DEF Inv
  <2>3. QED
    BY <1>4, <2>2, ExpireAccounts, HomeStays DEF Inv
<1>5. QED
  BY <1>1, <1>2, <1>3, <1>4 DEF Next, Idle

(* The invariant holds in every behaviour.                                   *)
THEOREM InvHolds == Spec => []Inv
<1>1. Init => Inv
  BY InvInit
<1>2. Inv /\ [Next]_vars => Inv'
  BY InvNext
<1>3. QED
  BY <1>1, <1>2, PTL DEF Spec

(* The cache counts the bytes of exactly the entries it holds, and neither   *)
(* of its limits is ever exceeded, whatever the size of its entries, however *)
(* they are replaced, evicted at random or expire.  [putForTenant,           *)
(* getRecordForTenant]                                                       *)
THEOREM BudgetHolds == Spec => []CacheWithinBudget
<1>1. ASSUME Inv
      PROVE  CacheWithinBudget
  BY <1>1 DEF Inv, Accounts, Requested, Request, Fine, Statuses, CacheWithinBudget
<1>2. QED
  BY <1>1, InvHolds, PTL

(* A call that is put back in a request was made in an answer to the same    *)
(* tenant, and in the response the client continues when it names one and    *)
(* no single item.  [toolReplayKey, PrepareResponsesReplayWithTenant]        *)
THEOREM ReplayHome == Spec => []ReplayStaysHome
<1>1. ASSUME Inv
      PROVE  ReplayStaysHome
  <2> SUFFICES ASSUME NEW r \in Requests, NEW x \in PutBack(r)
               PROVE  x \in Allowed(r)
    BY DEF ReplayStaysHome, Allowed, HasReference
  <2>1. req[r].sent \in Seq(Known(r))
    BY <1>1 DEF Inv, Requested, Request, Fine
  <2>2. x \in Known(r)
    <3>1. ToSet(req[r].sent) \subseteq Known(r)
      BY <2>1, InRange
    <3>2. QED
      BY <3>1 DEF PutBack
  <2>3. QED
    BY <2>2 DEF PutBack, Known
<1>2. QED
  BY <1>1, InvHolds, PTL

-----------------------------------------------------------------------------
(* What a client was told it can continue from.                              *)

ResponseOf(r) == Entry(req[r].body.tenant, "prev", ResponseId(r), Normalize(Turns[r]))
ItemOf(r, n) == Entry(req[r].body.tenant, "item", Turns[r][n].id, <<Turns[r][n]>>)

(* The names of the responses tell them apart, and within a tenant those of  *)
(* the calls do.                                                             *)
SameTenant(a, b) == \E c \in Bodies[a], d \in Bodies[b] : c.tenant = d.tenant
DistinctNames ==
    /\ \A r \in Requests : ResponseId(r) # ""
    /\ \A a, b \in Requests : ResponseId(a) = ResponseId(b) => a = b
    /\ \A a, b \in Requests : \A x \in ToSet(Turns[a]), y \in ToSet(Turns[b]) :
          SameTenant(a, b) /\ Replayable(x) /\ Replayable(y) /\ x.id = y.id /\ x.id # "" => x = y

(* The entries that the answer of r promises: all its calls under its name,  *)
(* and each of them under its own.                                           *)
HasCalls(r) == Normalize(Turns[r]) # <<>>
HasCall(r, n) == Replayable(Turns[r][n]) /\ Turns[r][n].id # ""
IsPledge(r, p) ==
    \/ HasCalls(r) /\ p = ResponseOf(r)
    \/ \E n \in DOMAIN Turns[r] : HasCall(r, n) /\ p = ItemOf(r, n)

(* Whoever promises an entry under this key promises these items.            *)
Proper(k, items) ==
    \A a \in Requests :
        /\ HasCalls(a) /\ ResponseOf(a).key = k => ResponseOf(a).items = items
        /\ \A n \in DOMAIN Turns[a] : HasCall(a, n) /\ ItemOf(a, n).key = k => ItemOf(a, n).items = items

Cached(p) == InCache(p.key, p.items)
Pending(q, p) == Cached(p) \/ \E e \in ToSet(q.todo) : e.key = p.key /\ Normalize(e.items) = p.items

(* What is done of an answer is in the cache or about to be put in it, and   *)
(* what its client was told is in the cache.                                 *)
Promises(r, q) ==
    /\ \A e \in ToSet(q.todo) : Normalize(e.items) # <<>> => Proper(e.key, Normalize(e.items))
    /\ q.pc # "remembering" => q.todo = <<>>
    /\ q.told \in Nat /\ q.told <= q.done
    /\ q.body.stream => Normalize(q.items) = Normalize(SubSeq(Turns[r], 1, q.done))
    /\ q.completed /\ HasCalls(r) => Pending(q, ResponseOf(r))
    /\ \A n \in 1..q.done : HasCall(r, n) => Pending(q, ItemOf(r, n))
    /\ \A n \in 1..q.told : HasCall(r, n) => Cached(ItemOf(r, n))

Promised == \A r \in Requests : Promises(r, req[r])

(* Nothing that r promised leaves the cache unnoticed.                       *)
CacheKeeps(r) ==
    /\ HasCalls(r) /\ Cached(ResponseOf(r)) => Cached(ResponseOf(r))'
    /\ \A n \in DOMAIN Turns[r] : HasCall(r, n) /\ Cached(ItemOf(r, n)) => Cached(ItemOf(r, n))'

LEMMA SamePledges ==
  ASSUME BodiesStay, NEW r \in Requests
  PROVE  /\ ResponseOf(r)' = ResponseOf(r)
         /\ \A n : ItemOf(r, n)' = ItemOf(r, n)
BY DEF BodiesStay, ResponseOf, ItemOf, Entry, Key

LEMMA SameProper ==
  ASSUME BodiesStay, NEW k, NEW items, Proper(k, items)
  PROVE  Proper(k, items)'
BY SamePledges DEF Proper

LEMMA KeepsPledges ==
  ASSUME BodiesStay, KeepsCache, NEW r \in Requests
  PROVE  CacheKeeps(r)
<1>1. ASSUME NEW k, NEW items, InCache(k, items)
      PROVE  InCache(k, items)'
  BY <1>1 DEF KeepsCache, InCache
<1>2. QED
  BY <1>1, SamePledges DEF CacheKeeps, Cached

LEMMA PutsPledges ==
  ASSUME BodiesStay, NEW k, NEW items, PutsAt(k, items), Proper(k, Normalize(items)),
         NEW r \in Requests
  PROVE  CacheKeeps(r)
<1>1. ASSUME NEW j, NEW pledged, InCache(j, pledged), j = k => Normalize(items) = pledged
      PROVE  InCache(j, pledged)'
  BY <1>1 DEF PutsAt, InCache
<1>2. QED
  BY <1>1, SamePledges DEF CacheKeeps, Cached, Proper

(* The entries of an answer are proper.                                      *)
LEMMA ProperEntries ==
  ASSUME Requested, DistinctNames, NEW r \in Requests
  PROVE  /\ Proper(Key(req[r].body.tenant, "prev", ResponseId(r)), Normalize(Turns[r]))
         /\ \A name, items : Proper(Key(req[r].body.tenant, "cache", name), items)
         /\ \A x \in ToSet(Turns[r]) : Replayable(x) =>
               Proper(Key(req[r].body.tenant, "item", x.id), <<x>>)
<1>1. Proper(Key(req[r].body.tenant, "prev", ResponseId(r)), Normalize(Turns[r]))
  BY DEF Proper, ResponseOf, ItemOf, Entry, Key, DistinctNames
<1>2. \A name, items : Proper(Key(req[r].body.tenant, "cache", name), items)
  BY DEF Proper, ResponseOf, ItemOf, Entry, Key
<1>3. ASSUME NEW x \in ToSet(Turns[r]), Replayable(x)
      PROVE  Proper(Key(req[r].body.tenant, "item", x.id), <<x>>)
  <2> SUFFICES ASSUME NEW a \in Requests, NEW n \in DOMAIN Turns[a], HasCall(a, n),
                      ItemOf(a, n).key = Key(req[r].body.tenant, "item", x.id)
               PROVE  ItemOf(a, n).items = <<x>>
    BY DEF Proper, ResponseOf, Entry, Key
  <2> DEFINE y == Turns[a][n]
  <2>1. y.id = x.id /\ req[a].body.tenant = req[r].body.tenant
    BY DEF ItemOf, Entry, Key
  <2>2. SameTenant(a, r)
    BY <2>1 DEF SameTenant, Requested, Request
  <2>3. y \in ToSet(Turns[a]) /\ Replayable(y) /\ y.id # ""
    BY DEF HasCall, ToSet
  <2>4. y = x
    BY <1>3, <2>1, <2>2, <2>3 DEF DistinctNames
  <2>5. QED
    BY <2>4 DEF ItemOf, Entry
<1>4. QED
  BY <1>1, <1>2, <1>3

(* A step that leaves the answer of r alone.                                 *)
Quiet(r) ==
    /\ req'[r].todo = req[r].todo /\ req'[r].items = req[r].items /\ req'[r].done = req[r].done
    /\ req'[r].told = req[r].told /\ req'[r].completed = req[r].completed
    /\ req'[r].pc # "remembering" => req'[r].todo = <<>>

LEMMA QuietStep ==
  ASSUME Requested, BodiesStay, NEW r \in Requests, CacheKeeps(r), Promises(r, req[r]), Quiet(r)
  PROVE  Promises(r, req[r])'
<1> DEFINE q == req[r]
<1>1. /\ ResponseOf(r)' = ResponseOf(r)
      /\ \A n : ItemOf(r, n)' = ItemOf(r, n)
  BY SamePledges
<1>2. \A e \in ToSet(q.todo) : Normalize(e.items) # <<>> => Proper(e.key, Normalize(e.items))'
  BY SameProper DEF Promises
<1>3. \A n \in 1..q.done : n \in DOMAIN Turns[r]
  BY TurnType DEF Requested, Request, Fine
<1>4. q.completed /\ HasCalls(r) => Pending(q, ResponseOf(r))'
  <2>1. q.completed /\ HasCalls(r) => Pending(q, ResponseOf(r))
    BY DEF Promises
  <2>2. QED
    BY <1>1, <2>1 DEF CacheKeeps, Pending, Quiet
<1>5. \A n \in 1..q.done : HasCall(r, n) => Pending(q, ItemOf(r, n))'
  <2>1. \A n \in 1..q.done : HasCall(r, n) => Pending(q, ItemOf(r, n))
    BY DEF Promises
  <2>2. QED
    BY <1>1, <1>3, <2>1 DEF CacheKeeps, Pending, Quiet
<1>6. \A n \in 1..q.told : HasCall(r, n) => Cached(ItemOf(r, n))'
  <2>1. \A n \in 1..q.told : HasCall(r, n) => Cached(ItemOf(r, n)) /\ n \in DOMAIN Turns[r]
    BY <1>3 DEF Promises, Requested, Request, Fine
  <2>2. QED
    BY <2>1 DEF CacheKeeps
<1>7. QED
  BY <1>2, <1>4, <1>5, <1>6 DEF Promises, Quiet, BodiesStay

OthersAlone(r) == \A a \in Requests \ {r} : req'[a] = req[a]

LEMMA OthersPromised ==
  ASSUME Requested, Promised, BodiesStay, NEW r \in Requests, OthersAlone(r),
         \A a \in Requests : CacheKeeps(a), Promises(r, req[r])'
  PROVE  Promised'
<1>1. ASSUME NEW a \in Requests \ {r}
      PROVE  Promises(a, req[a])'
  <2>1. Quiet(a)
    BY DEF OthersAlone, Quiet, Promised, Promises
  <2>2. QED
    BY <2>1, QuietStep DEF Promised
<1>2. QED
  BY <1>1 DEF Promised

(* Until it is answered, a request promises nothing.                         *)
LEMMA AskingQuiet ==
  ASSUME Requested, Promised, NEW r \in Requests,
         \/ Arrive(r) \/ LookUpPrevious(r) \/ Expand(r) \/ Expanded(r) \/ Apply(r) \/ Render(r)
  PROVE  Quiet(r) /\ OthersAlone(r)
<1>1. /\ DOMAIN req = Requests /\ DOMAIN req[r] = Fields
      /\ req[r].pc # "remembering" => req[r].todo = <<>>
  BY DEF Requested, Request, Fine, Promised, Promises
<1>2. CASE Arrive(r)
  BY <1>1, <1>2 DEF Arrive, Step, Quiet, OthersAlone, Fields
<1>3. CASE LookUpPrevious(r)
  BY <1>1, <1>3 DEF LookUpPrevious, Step, Quiet, OthersAlone, Fields
<1>4. CASE Expand(r)
  BY <1>1, <1>4 DEF Expand, Step, Quiet, OthersAlone, Fields
<1>5. CASE Expanded(r)
  BY <1>1, <1>5 DEF Expanded, Step, Goto, Quiet, OthersAlone, Fields
<1>6. CASE Apply(r)
  <2>1. PICK replay : Step(r, Prepared(req[r], replay)) /\ req[r].pc = "applying"
    BY <1>6 DEF Apply
  <2>2. QED
    BY <1>1, <2>1 DEF Prepared, Step, Quiet, OthersAlone, Fields
<1>7. CASE Render(r)
  BY <1>1, <1>7 DEF Render, Step, Quiet, OthersAlone, Fields
<1>8. QED
  BY <1>2, <1>3, <1>4, <1>5, <1>6, <1>7

LEMMA ItemDonePromises ==
  ASSUME Inv, Promised, DistinctNames, BodiesStay, KeepsCache, NEW r \in Requests, ItemDone(r)
  PROVE  Promises(r, req[r])' /\ OthersAlone(r)
<1> DEFINE x == Turns[r][req[r].done + 1]
           item == Entry(req[r].body.tenant, "item", x.id, <<x>>)
           todo == IF x.type = "call" /\ Normalize(<<x>>) # <<>>
                   THEN ToPut(req[r].body.tenant, "item", x.id, <<x>>) ELSE <<>>
           items == IF x.type = "call" THEN Append(req[r].items, x) ELSE req[r].items
           n == req[r].done + 1
           T == ToSet(Turns[r])
<1>1. Requested /\ Request(r) /\ Promises(r, req[r])
  BY DEF Inv, Requested, Promised
<1>2. /\ req[r].pc = "answering" /\ req[r].body.stream /\ req[r].done < Len(Turns[r])
      /\ req[r].done \in Nat /\ Turns[r] \in Seq(T) /\ req[r].items \in Seq(T)
      /\ n \in DOMAIN Turns[r] /\ req[r].todo = <<>>
  BY <1>1, TurnType DEF ItemDone, Request, Fine, Promises
<1>3. /\ req'[r].todo = todo /\ req'[r].items = items /\ req'[r].done = n
      /\ req'[r].told = req[r].told /\ req'[r].completed = req[r].completed
      /\ req'[r].pc = "remembering" /\ req'[r].body = req[r].body /\ OthersAlone(r)
  BY <1>1 DEF ItemDone, Step, Requested, Request, Fine, Fields, OthersAlone
<1>4. x \in T
  BY <1>2 DEF ToSet
<1>5. Normalize(items) = Normalize(SubSeq(Turns[r], 1, n))
  <2>1. /\ SubSeq(Turns[r], 1, n) = Append(SubSeq(Turns[r], 1, req[r].done), x)
        /\ SubSeq(Turns[r], 1, req[r].done) \in Seq(T)
    <3>1. \A s \in Seq(T) : \A d \in Nat : d < Len(s) =>
            SubSeq(s, 1, d + 1) = Append(SubSeq(s, 1, d), s[d + 1]) /\ SubSeq(s, 1, d) \in Seq(T)
      OBVIOUS
    <3>2. QED
      BY <1>2, <3>1
  <2>2. Normalize(req[r].items) = Normalize(SubSeq(Turns[r], 1, req[r].done))
    BY <1>1, <1>2 DEF Promises
  <2>3. Replayable(x) => x.type = "call"
    BY DEF Replayable
  <2> HIDE DEF x, n, T
  <2>4. Normalize(Append(req[r].items, x))
          = IF Replayable(x) THEN Append(Normalize(req[r].items), x) ELSE Normalize(req[r].items)
    BY <1>2, <1>4, NormalizeAppend
  <2>5. Normalize(Append(SubSeq(Turns[r], 1, req[r].done), x))
          = IF Replayable(x) THEN Append(Normalize(SubSeq(Turns[r], 1, req[r].done)), x)
            ELSE Normalize(SubSeq(Turns[r], 1, req[r].done))
    BY <1>4, <2>1, NormalizeAppend
  <2>6. QED
    BY <2>1, <2>2, <2>3, <2>4, <2>5
<1> HIDE DEF items, x
<1>6. ToSet(todo) \subseteq {item} /\ (HasCall(r, n) => item \in ToSet(todo))
  <2> DEFINE S == {item}
  <2>1. item \in S
    OBVIOUS
  <2> HIDE DEF S
  <2> DEFINE put == ToPut(req[r].body.tenant, "item", x.id, <<x>>)
  <2>2. put \in Seq(S) /\ (x.id # "" => item \in ToSet(put))
    BY <2>1, ToPutType
  <2>3. ToSet(put) \subseteq {item} /\ ToSet(<<>>) = {}
    <3> HIDE DEF item, put
    <3>1. ToSet(<<>>) = {}
      BY DEF ToSet
    <3>2. QED
      BY <2>2, <3>1, InRange DEF S
  <2>4. HasCall(r, n) => x.type = "call" /\ Normalize(<<x>>) # <<>> /\ x.id # ""
    <3>1. <<x>> # <<>>
      OBVIOUS
    <3>2. QED
      BY <3>1, NormalizeOne DEF HasCall, Replayable, x
  <2> HIDE DEF item, put
  <2>5. QED
    BY <2>2, <2>3, <2>4 DEF put
<1>7. item.key = Key(req[r].body.tenant, "item", x.id) /\ item.items = <<x>> /\ item = ItemOf(r, n)
  BY DEF Entry, ItemOf, x
<1> HIDE DEF item, todo, n
<1>8. \A e \in ToSet(todo) : Normalize(e.items) # <<>> => Proper(e.key, Normalize(e.items))'
  <2>1. Normalize(item.items) # <<>> => Replayable(x) /\ Normalize(item.items) = <<x>>
    BY <1>7, NormalizeOne
  <2>2. Replayable(x) => Proper(item.key, <<x>>)
    BY <1>1, <1>4, <1>7, ProperEntries
  <2>3. QED
    BY <1>6, <2>1, <2>2, SameProper
<1>9. CacheKeeps(r) /\ ResponseOf(r)' = ResponseOf(r) /\ \A m : ItemOf(r, m)' = ItemOf(r, m)
  BY KeepsPledges, SamePledges
<1>10. \A p : Pending(req[r], p) => Cached(p)
  BY <1>2 DEF Pending, ToSet
<1>11. \A m \in 1..req[r].done : m \in DOMAIN Turns[r]
  BY <1>2
<1>12. (req[r].completed /\ HasCalls(r) => Pending(req[r], ResponseOf(r)))'
  <2>1. req[r].completed /\ HasCalls(r) => Cached(ResponseOf(r))
    BY <1>1, <1>10 DEF Promises
  <2>2. QED
    BY <1>3, <1>9, <2>1 DEF CacheKeeps, Pending
<1>13. \A m \in 1..req[r].done : HasCall(r, m) => Cached(ItemOf(r, m))'
  <2>1. \A m \in 1..req[r].done : HasCall(r, m) => Cached(ItemOf(r, m))
    BY <1>1, <1>10 DEF Promises
  <2>2. QED
    BY <1>9, <1>11, <2>1 DEF CacheKeeps
<1>14. (\A m \in 1..req[r].done : HasCall(r, m) => Pending(req[r], ItemOf(r, m)))'
  <2>1. ASSUME NEW m \in 1..n, HasCall(r, m)
        PROVE  Pending(req[r], ItemOf(r, m))'
    <3>1. CASE m = n
      <4>1. HasCall(r, n) => Normalize(<<x>>) = <<x>>
        BY NormalizeOne DEF HasCall, x, n
      <4>2. \E e \in ToSet(todo) : e.key = ItemOf(r, m).key /\ Normalize(e.items) = ItemOf(r, m).items
        BY <1>6, <1>7, <2>1, <3>1, <4>1
      <4>3. QED
        BY <1>3, <1>9, <4>2 DEF Pending
    <3>2. CASE m # n
      <4>1. m \in 1..req[r].done
        BY <1>2, <2>1, <3>2 DEF n
      <4>2. QED
        BY <1>13, <2>1, <4>1 DEF Pending
    <3>3. QED
      BY <3>1, <3>2
  <2>2. QED
    BY <1>3, <2>1
<1>15. (\A m \in 1..req[r].told : HasCall(r, m) => Cached(ItemOf(r, m)))'
  <2>1. \A m \in 1..req[r].told : m \in 1..req[r].done
    BY <1>1, <1>2 DEF Promises
  <2>2. QED
    BY <1>3, <1>13, <2>1
<1>16. req[r].told \in Nat /\ req[r].told <= n
  BY <1>1, <1>2 DEF Promises, n
<1>17. QED
  BY <1>3, <1>5, <1>8, <1>12, <1>14, <1>15, <1>16 DEF Promises

LEMMA CompletedPromises ==
  ASSUME Inv, Promised, DistinctNames, BodiesStay, KeepsCache, NEW r \in Requests, Completed(r)
  PROVE  Promises(r, req[r])' /\ OthersAlone(r)
<1> DEFINE id == ResponseId(r)
           T == ToSet(Turns[r])
           tenant == req[r].body.tenant
<1>1. Requested /\ Request(r) /\ Promises(r, req[r])
  BY DEF Inv, Requested, Promised
<1>2. PICK output \in {Turns[r]} \cup (IF req[r].body.stream THEN {req[r].items} ELSE {}) :
        Step(r, [req[r] EXCEPT !.todo = RememberCompleted(req[r], id, output),
                               !.done = Len(Turns[r]), !.completed = TRUE, !.pc = "remembering"])
  BY DEF Completed
<1> DEFINE todo == RememberCompleted(req[r], id, output)
<1>3. /\ req'[r].todo = todo /\ req'[r].items = req[r].items /\ req'[r].done = Len(Turns[r])
      /\ req'[r].told = req[r].told /\ req'[r].completed
      /\ req'[r].pc = "remembering" /\ req'[r].body = req[r].body /\ OthersAlone(r)
  BY <1>1, <1>2 DEF Step, Requested, Request, Fine, Fields, OthersAlone
<1>4. /\ req[r].pc = "answering" /\ (req[r].body.stream => req[r].done = Len(Turns[r]))
      /\ req[r].todo = <<>> /\ req[r].done \in Nat /\ req[r].done <= Len(Turns[r])
      /\ Len(Turns[r]) \in Nat /\ Turns[r] \in Seq(T) /\ req[r].items \in Seq(T)
      /\ req[r].told \in Nat /\ req[r].told <= req[r].done
  BY <1>1, TurnType DEF Completed, Request, Fine, Promises
<1>5. output \in Seq(T) /\ Normalize(output) = Normalize(Turns[r])
  <2>1. SubSeq(Turns[r], 1, Len(Turns[r])) = Turns[r]
    BY <1>4
  <2>2. req[r].body.stream => Normalize(req[r].items) = Normalize(Turns[r])
    BY <1>1, <1>4, <2>1 DEF Promises
  <2>3. QED
    BY <1>2, <1>4, <2>2
<1>6. Normalize(Calls(output)) = Normalize(Turns[r])
  BY <1>5, NormalizeCalls
<1>7. ToSet(Calls(output)) \subseteq T
  <2> DEFINE at == {n \in DOMAIN output : output[n].type = "call"}
             U == {output[i] : i \in at \cap DOMAIN output}
  <2> HIDE DEF T
  <2>1. Calls(output) \in Seq(U)
    BY <1>5, KeptType DEF Calls
  <2>2. U \subseteq T
    BY <1>5
  <2> HIDE DEF U
  <2>3. QED
    BY <2>1, <2>2, InRange
<1>8. /\ todo \in Seq(Leaves(req[r], id, output))
      /\ id # "" /\ Calls(output) # <<>> => Entry(tenant, "prev", id, Calls(output)) \in ToSet(todo)
      /\ \A x \in ToSet(Calls(output)) : x.id # "" => Entry(tenant, "item", x.id, <<x>>) \in ToSet(todo)
  BY <1>5, RememberType
<1>9. \A e \in ToSet(todo) : Normalize(e.items) # <<>> => Proper(e.key, Normalize(e.items))'
  <2>1. ASSUME NEW e \in Leaves(req[r], id, output), Normalize(e.items) # <<>>
        PROVE  Proper(e.key, Normalize(e.items))
    <3>1. CASE e = Entry(tenant, "prev", id, Calls(output))
      <4>1. e.key = Key(tenant, "prev", id) /\ e.items = Calls(output)
        BY <3>1 DEF Entry
      <4>2. QED
        BY <1>1, <1>6, <4>1, ProperEntries
    <3>2. CASE e = Entry(tenant, "cache", req[r].body.key, Calls(output))
      <4>1. e.key = Key(tenant, "cache", req[r].body.key)
        BY <3>2 DEF Entry
      <4>2. QED
        BY <1>1, <4>1, ProperEntries
    <3>3. ASSUME NEW x \in ToSet(Calls(output)), e = Entry(tenant, "item", x.id, <<x>>)
          PROVE  Proper(e.key, Normalize(e.items))
      <4>1. e.key = Key(tenant, "item", x.id) /\ e.items = <<x>>
        BY <3>3 DEF Entry
      <4>2. Replayable(x) /\ Normalize(e.items) = <<x>>
        BY <2>1, <4>1, NormalizeOne
      <4>3. QED
        BY <1>1, <1>7, <4>1, <4>2, ProperEntries
    <3>4. QED
      BY <3>1, <3>2, <3>3 DEF Leaves, ItemEntries
  <2>2. ToSet(todo) \subseteq Leaves(req[r], id, output)
    BY <1>8, InRange
  <2> HIDE DEF todo
  <2>3. QED
    BY <2>1, <2>2, SameProper
<1> HIDE DEF todo, T
<1>10. CacheKeeps(r) /\ ResponseOf(r)' = ResponseOf(r) /\ \A m : ItemOf(r, m)' = ItemOf(r, m)
  BY KeepsPledges, SamePledges
<1>11. HasCalls(r) => Pending(req[r], ResponseOf(r))'
  <2> SUFFICES ASSUME HasCalls(r)
               PROVE  \E e \in ToSet(todo) : e.key = ResponseOf(r).key /\ Normalize(e.items) = ResponseOf(r).items
    BY <1>3, <1>10 DEF Pending
  <2> DEFINE e == Entry(tenant, "prev", id, Calls(output))
  <2>1. Normalize(<<>>) = <<>>
    BY KeptEmpty DEF Normalize
  <2>2. Calls(output) # <<>> /\ id # ""
    BY <1>6, <2>1 DEF HasCalls, DistinctNames
  <2>3. e.key = ResponseOf(r).key /\ e.items = Calls(output) /\ ResponseOf(r).items = Normalize(Turns[r])
    BY DEF Entry, ResponseOf
  <2> HIDE DEF e
  <2>4. e \in ToSet(todo)
    BY <1>8, <2>2 DEF e
  <2>5. QED
    BY <1>6, <2>3, <2>4
<1>12. \A m \in 1..req[r].done : HasCall(r, m) => Cached(ItemOf(r, m))'
  <2>1. \A m \in 1..req[r].done : m \in DOMAIN Turns[r]
    BY <1>4
  <2>2. \A p : Pending(req[r], p) => Cached(p)
    BY <1>4 DEF Pending, ToSet
  <2>3. \A m \in 1..req[r].done : HasCall(r, m) => Cached(ItemOf(r, m))
    BY <1>1, <2>2 DEF Promises
  <2>4. QED
    BY <1>10, <2>1, <2>3 DEF CacheKeeps
<1>13. (\A m \in 1..req[r].done : HasCall(r, m) => Pending(req[r], ItemOf(r, m)))'
  <2>1. ASSUME NEW m \in 1..Len(Turns[r]), HasCall(r, m)
        PROVE  Pending(req[r], ItemOf(r, m))'
    <3>1. CASE req[r].body.stream
      BY <1>4, <1>12, <2>1, <3>1 DEF Pending
    <3>2. CASE ~req[r].body.stream
      <4> DEFINE x == Turns[r][m]
                 e == Entry(tenant, "item", x.id, <<x>>)
      <4>1. output = Turns[r]
        BY <1>2, <3>2
      <4>2. x \in ToSet(Calls(output))
        <5> DEFINE at == {n \in DOMAIN output : output[n].type = "call"}
        <5>1. m \in at \cap DOMAIN output
          <6>1. DOMAIN Turns[r] = 1..Len(Turns[r])
            BY <1>4
          <6>2. Turns[r][m].type = "call"
            BY <2>1 DEF HasCall, Replayable
          <6>3. QED
            BY <2>1, <4>1, <6>1, <6>2
        <5> HIDE DEF at
        <5>2. output[m] \in ToSet(Kept(output, at))
          BY <1>5, <5>1, KeptAll
        <5>3. QED
          BY <4>1, <5>2 DEF Calls, at
      <4>3. e \in ToSet(todo) /\ Normalize(<<x>>) = <<x>>
        BY <1>8, <2>1, <4>2, NormalizeOne DEF HasCall
      <4>4. e.key = ItemOf(r, m).key /\ e.items = <<x>> /\ ItemOf(r, m).items = <<x>>
        BY DEF Entry, ItemOf
      <4> HIDE DEF e, x
      <4>5. QED
        BY <1>3, <1>10, <4>3, <4>4 DEF Pending
    <3>3. QED
      BY <3>1, <3>2
  <2>2. QED
    BY <1>3, <2>1
<1>14. (\A m \in 1..req[r].told : HasCall(r, m) => Cached(ItemOf(r, m)))'
  <2>1. \A m \in 1..req[r].told : m \in 1..req[r].done
    BY <1>4
  <2>2. QED
    BY <1>3, <1>12, <2>1
<1>15. req[r].body.stream => Normalize(req[r].items) = Normalize(SubSeq(Turns[r], 1, Len(Turns[r])))
  BY <1>1, <1>4 DEF Promises
<1>16. req[r].told <= Len(Turns[r])
  BY <1>4
<1>17. QED
  BY <1>3, <1>4, <1>9, <1>11, <1>13, <1>14, <1>15, <1>16 DEF Promises

(* What is put is put under its key; nothing else that was promised goes     *)
(* without being noted.                                                      *)
LEMMA RememberPromises ==
  ASSUME Inv, Promised, NEW r \in Requests, Remember(r)
  PROVE  BodiesStay /\ Promises(r, req[r])' /\ OthersAlone(r) /\ \A a \in Requests : CacheKeeps(a)
<1>0. PICK e : e = Head(req[r].todo)
  OBVIOUS
<1> DEFINE norm == Normalize(e.items)
<1>1. Requested /\ Request(r) /\ Promises(r, req[r])
  BY DEF Inv, Requested, Promised
<1>2. /\ Accounts' /\ Requested' /\ BodiesStay /\ e \in ToSet(req[r].todo)
      /\ \/ (norm = <<>> \/ Encoded(norm) > MaxBytes) /\ UNCHANGED <<entries, lost>>
         \/ PutsAt(e.key, e.items)
  BY <1>0, RememberStep
<1>3. /\ req'[r].todo = Tail(req[r].todo) /\ req'[r].items = req[r].items
      /\ req'[r].done = req[r].done /\ req'[r].told = req[r].told
      /\ req'[r].completed = req[r].completed /\ req'[r].pc = "remembering"
      /\ req'[r].body = req[r].body /\ OthersAlone(r) /\ req[r].todo # <<>>
  BY <1>1 DEF Remember, Step, Requested, Request, Fine, Fields, OthersAlone
<1>4. ToSet(req[r].todo) = {e} \cup ToSet(Tail(req[r].todo))
  <2>1. req[r].todo \in Seq(ToSet(req[r].todo))
    BY <1>1 DEF Request, Fine
  <2>2. QED
    BY <1>0, <1>3, <2>1, TailRange
<1>5. PutsAt(e.key, e.items) => norm # <<>>
  BY <1>2 DEF PutsAt, Accounts
<1>6. norm # <<>> => Proper(e.key, norm)
  BY <1>1, <1>2 DEF Promises
<1>7. \A a \in Requests : CacheKeeps(a)
  <2>1. CASE UNCHANGED <<entries, lost>>
    <3>1. KeepsCache
      BY <2>1 DEF KeepsCache
    <3>2. QED
      BY <1>2, <3>1, KeepsPledges
  <2>2. CASE PutsAt(e.key, e.items)
    BY <1>2, <1>5, <1>6, <2>2, PutsPledges
  <2>3. QED
    BY <1>2, <2>1, <2>2
<1>8. norm # <<>> => InCache(e.key, norm)'
  <2>1. CASE UNCHANGED <<entries, lost>> /\ Encoded(norm) > MaxBytes
    BY <2>1 DEF InCache
  <2>2. CASE PutsAt(e.key, e.items)
    BY <2>2 DEF InCache, PutsAt
  <2>3. QED
    BY <1>2, <2>1, <2>2
<1>9. \A f \in ToSet(req'[r].todo) : Normalize(f.items) # <<>> => Proper(f.key, Normalize(f.items))'
  <2>1. \A f \in ToSet(req'[r].todo) : Normalize(f.items) # <<>> => Proper(f.key, Normalize(f.items))
    BY <1>1, <1>3, <1>4 DEF Promises
  <2>2. QED
    BY <1>2, <2>1, SameProper
<1>10. /\ ResponseOf(r)' = ResponseOf(r) /\ \A m : ItemOf(r, m)' = ItemOf(r, m)
       /\ ResponseOf(r).items = Normalize(Turns[r])
       /\ \A m : ItemOf(r, m).items = <<Turns[r][m]>> /\ ItemOf(r, m).items # <<>>
  BY <1>2, SamePledges DEF ResponseOf, ItemOf, Entry
<1>11. ASSUME NEW p, p.items # <<>>, Pending(req[r], p), Cached(p) => InCache(p.key, p.items)'
       PROVE  InCache(p.key, p.items)' \/ \E f \in ToSet(req'[r].todo) : f.key = p.key /\ Normalize(f.items) = p.items
  <2>1. CASE Cached(p)
    BY <1>11, <2>1
  <2>2. CASE \E f \in ToSet(req[r].todo) : f.key = p.key /\ Normalize(f.items) = p.items
    <3>1. PICK f \in ToSet(req[r].todo) : f.key = p.key /\ Normalize(f.items) = p.items
      BY <2>2
    <3>2. CASE f = e
      BY <1>8, <1>11, <3>1, <3>2
    <3>3. CASE f # e
      BY <1>3, <1>4, <3>1, <3>3
    <3>4. QED
      BY <3>2, <3>3
  <2>3. QED
    BY <1>11, <2>1, <2>2 DEF Pending
<1>12. \A m \in 1..req[r].done : m \in DOMAIN Turns[r]
  BY <1>1, TurnType DEF Request, Fine
<1>13. (req[r].completed /\ HasCalls(r) => Pending(req[r], ResponseOf(r)))'
  <2> SUFFICES ASSUME req[r].completed, HasCalls(r)
               PROVE  Pending(req[r], ResponseOf(r))'
    BY <1>3 DEF HasCalls
  <2>1. Pending(req[r], ResponseOf(r)) /\ ResponseOf(r).items # <<>>
    BY <1>1, <1>10 DEF Promises, HasCalls
  <2>2. Cached(ResponseOf(r)) => InCache(ResponseOf(r).key, ResponseOf(r).items)'
    BY <1>7, <1>10 DEF CacheKeeps, Cached
  <2>3. QED
    BY <1>10, <1>11, <2>1, <2>2 DEF Pending, Cached
<1>14. (\A m \in 1..req[r].done : HasCall(r, m) => Pending(req[r], ItemOf(r, m)))'
  <2> SUFFICES ASSUME NEW m \in 1..req[r].done, HasCall(r, m)
               PROVE  Pending(req[r], ItemOf(r, m))'
    BY <1>3 DEF HasCall
  <2>1. Pending(req[r], ItemOf(r, m)) /\ ItemOf(r, m).items # <<>>
    BY <1>1, <1>10 DEF Promises
  <2>2. Cached(ItemOf(r, m)) => InCache(ItemOf(r, m).key, ItemOf(r, m).items)'
    BY <1>7, <1>10, <1>12 DEF CacheKeeps, Cached
  <2>3. QED
    BY <1>10, <1>11, <2>1, <2>2 DEF Pending, Cached
<1>15. (\A m \in 1..req[r].told : HasCall(r, m) => Cached(ItemOf(r, m)))'
  <2>1. \A m \in 1..req[r].told : m \in DOMAIN Turns[r] /\ (HasCall(r, m) => Cached(ItemOf(r, m)))
    BY <1>1, <1>12 DEF Promises, Request, Fine
  <2>2. QED
    BY <1>3, <1>7, <2>1 DEF CacheKeeps
<1>16. QED
  BY <1>1, <1>2, <1>3, <1>7, <1>9, <1>13, <1>14, <1>15 DEF Promises

LEMMA TellPromises ==
  ASSUME Inv, Promised, BodiesStay, KeepsCache, NEW r \in Requests, Tell(r) \/ Fail(r)
  PROVE  Promises(r, req[r])' /\ OthersAlone(r)
<1>1. Requested /\ Request(r) /\ Promises(r, req[r]) /\ req[r].todo = <<>>
  BY DEF Inv, Requested, Promised, Tell, Fail
<1>2. /\ req'[r].todo = <<>> /\ req'[r].items = req[r].items /\ req'[r].done = req[r].done
      /\ req'[r].told \in {req[r].told, req[r].done}
      /\ req'[r].completed => req[r].completed
      /\ req'[r].body = req[r].body /\ OthersAlone(r)
  <2>1. DOMAIN req = Requests /\ DOMAIN req[r] = Fields
    BY <1>1 DEF Requested, Request, Fine
  <2>2. CASE Tell(r)
    BY <1>1, <2>1, <2>2 DEF Tell, Step, Fields, OthersAlone
  <2>3. CASE Fail(r)
    BY <1>1, <2>1, <2>3 DEF Fail, Step, Fields, OthersAlone
  <2>4. QED
    BY <2>2, <2>3
<1>3. CacheKeeps(r) /\ ResponseOf(r)' = ResponseOf(r) /\ \A m : ItemOf(r, m)' = ItemOf(r, m)
  BY KeepsPledges, SamePledges
<1>4. \A p : Pending(req[r], p) => Cached(p)
  BY <1>1 DEF Pending, ToSet
<1>5. req[r].done \in Nat /\ \A m \in 1..req[r].done : m \in DOMAIN Turns[r]
  BY <1>1, TurnType DEF Request, Fine
<1>6. req[r].completed /\ HasCalls(r) => Cached(ResponseOf(r))'
  BY <1>1, <1>3, <1>4 DEF Promises, CacheKeeps
<1>7. \A m \in 1..req[r].done : HasCall(r, m) => Cached(ItemOf(r, m))'
  BY <1>1, <1>3, <1>4, <1>5 DEF Promises, CacheKeeps
<1>8. req[r].told \in Nat /\ req[r].told <= req[r].done
  BY <1>1 DEF Promises
<1>9. (req[r].told \in Nat /\ req[r].told <= req[r].done)'
  BY <1>2, <1>5, <1>8
<1>10. (req[r].completed /\ HasCalls(r) => Pending(req[r], ResponseOf(r)))'
  BY <1>2, <1>6 DEF Pending, HasCalls
<1>11. (\A m \in 1..req[r].done : HasCall(r, m) => Pending(req[r], ItemOf(r, m)))'
  BY <1>2, <1>7 DEF Pending, HasCall
<1>12. (\A m \in 1..req[r].told : HasCall(r, m) => Cached(ItemOf(r, m)))'
  <2>1. \A m \in 1..req'[r].told : m \in 1..req[r].done
    BY <1>2, <1>5, <1>9
  <2>2. QED
    BY <1>7, <2>1
<1>13. ToSet(<<>>) = {}
  BY DEF ToSet
<1>14. req[r].body.stream => Normalize(req[r].items) = Normalize(SubSeq(Turns[r], 1, req[r].done))
  BY <1>1 DEF Promises
<1>15. QED
  BY <1>2, <1>9, <1>10, <1>11, <1>12, <1>13, <1>14 DEF Promises

LEMMA PromisedInit ==
  ASSUME Init
  PROVE  Promised
<1> SUFFICES ASSUME NEW r \in Requests
             PROVE  Promises(r, req[r])
  BY DEF Promised
<1>1. PICK b : req[r] = NewRequest(b)
  BY DEF Init
<1> DEFINE q == NewRequest(b)
<1>2. q.done = 0 /\ q.told = 0 /\ ~q.completed /\ q.todo = <<>> /\ q.items = <<>>
  BY DEF NewRequest
<1>3. ToSet(<<>>) = {} /\ SubSeq(Turns[r], 1, 0) = <<>>
  <2>1. Turns[r] \in Seq(ToSet(Turns[r]))
    BY TurnType
  <2>2. QED
    BY <2>1 DEF ToSet
<1> HIDE DEF q
<1>4. Normalize(q.items) = Normalize(SubSeq(Turns[r], 1, q.done))
  BY <1>2, <1>3
<1>5. 1..q.done = {} /\ 1..q.told = {} /\ q.told \in Nat /\ q.told <= q.done
  BY <1>2
<1>6. Promises(r, q)
  BY <1>2, <1>3, <1>4, <1>5 DEF Promises
<1>7. QED
  BY <1>1, <1>6 DEF q

LEMMA PromisedNext ==
  ASSUME Inv, Promised, DistinctNames, [Next]_vars
  PROVE  Promised'
<1>0. Requested
  BY DEF Inv
<1>1. CASE UNCHANGED <<entries, lost, req>>
  <2>1. BodiesStay /\ KeepsCache
    BY <1>1 DEF BodiesStay, KeepsCache
  <2>2. \A r \in Requests : Quiet(r)
    BY <1>1 DEF Quiet, Promised, Promises
  <2>3. QED
    BY <1>0, <2>1, <2>2, KeepsPledges, QuietStep DEF Promised
<1>2. ASSUME NEW r \in Requests,
             \/ Arrive(r) \/ LookUpPrevious(r) \/ Expand(r) \/ Expanded(r) \/ Apply(r) \/ Render(r)
      PROVE  Promised'
  <2>1. KeepsCache /\ BodiesStay
    BY <1>2, ArriveStep, LookUpPreviousStep, ExpandStep, ExpandedStep, ApplyStep, RenderStep
  <2>2. Quiet(r) /\ OthersAlone(r)
    BY <1>0, <1>2, AskingQuiet
  <2>3. \A a \in Requests : CacheKeeps(a)
    BY <2>1, KeepsPledges
  <2>4. Promises(r, req[r])'
    BY <1>0, <2>1, <2>2, <2>3, QuietStep DEF Promised
  <2>5. QED
    BY <1>0, <2>1, <2>2, <2>3, <2>4, OthersPromised
<1>3. ASSUME NEW r \in Requests, ItemDone(r) \/ Completed(r) \/ Tell(r) \/ Fail(r)
      PROVE  Promised'
  <2>1. KeepsCache /\ BodiesStay
    BY <1>3, ItemDoneStep, CompletedStep, TellStep
  <2>2. Promises(r, req[r])' /\ OthersAlone(r)
    BY <1>3, <2>1, ItemDonePromises, CompletedPromises, TellPromises
  <2>3. \A a \in Requests : CacheKeeps(a)
    BY <2>1, KeepsPledges
  <2>4. QED
    BY <1>0, <2>1, <2>2, <2>3, OthersPromised
<1>4. ASSUME NEW r \in Requests, Remember(r)
      PROVE  Promised'
  BY <1>0, <1>4, RememberPromises, OthersPromised
<1>5. ASSUME NEW k, Expire(k)
      PROVE  Promised'
  <2>1. UNCHANGED req
    BY <1>5 DEF Expire
  <2>2. BodiesStay /\ KeepsCache
    BY <1>5, <2>1, ExpireAccounts DEF BodiesStay, Inv
  <2>3. \A r \in Requests : Quiet(r)
    BY <2>1 DEF Quiet, Promised, Promises
  <2>4. QED
    BY <1>0, <2>2, <2>3, KeepsPledges, QuietStep DEF Promised
<1>6. QED
  BY <1>1, <1>2, <1>3, <1>4, <1>5 DEF Next, Idle, vars

(* What a client was told it can continue from is in the cache before it is  *)
(* told, under the name of the response and under that of each of its calls, *)
(* and stays there until it is evicted or expires.  It rests on what the     *)
(* upstream owes: names that tell responses apart, and the calls that one    *)
(* tenant was given.  [streamToolReplayState.handle before writeRawSSE]      *)
THEOREM Remembered ==
  ASSUME DistinctNames
  PROVE  Spec => []RememberedBeforeTold
<1>1. Init => Inv /\ Promised
  BY InvInit, PromisedInit
<1>2. Inv /\ Promised /\ [Next]_vars => (Inv /\ Promised)'
  BY InvNext, PromisedNext
<1>3. Inv /\ Promised => RememberedBeforeTold
  <2> SUFFICES ASSUME Inv, Promised, NEW r \in Requests
               PROVE  LET calls == Normalize(Turns[r]) tenant == req[r].body.tenant IN
                      /\ Finished(r) /\ calls # <<>> => InCache(Key(tenant, "prev", ResponseId(r)), calls)
                      /\ \A n \in 1..req[r].told : LET x == Turns[r][n] IN
                            Normalize(<<x>>) # <<>> /\ x.id # "" => InCache(Key(tenant, "item", x.id), <<x>>)
    BY DEF RememberedBeforeTold
  <2>1. Promises(r, req[r])
    BY DEF Promised
  <2>2. Finished(r) /\ Normalize(Turns[r]) # <<>> => Cached(ResponseOf(r))
    BY <2>1 DEF Promises, Finished, HasCalls, Pending, ToSet
  <2>3. \A n \in 1..req[r].told : HasCall(r, n) => Cached(ItemOf(r, n))
    BY <2>1 DEF Promises
  <2>4. \A n : Normalize(<<Turns[r][n]>>) # <<>> => Replayable(Turns[r][n])
    BY NormalizeOne
  <2>5. QED
    BY <2>2, <2>3, <2>4 DEF Cached, ResponseOf, ItemOf, Entry, HasCall
<1>4. QED
  BY <1>1, <1>2, <1>3, PTL DEF Spec
=============================================================================
