----------------------------- MODULE FoldLemmas -----------------------------
(***************************************************************************)
(* What the folds of the community modules compute.  The induction         *)
(* principles here take sets where those of the library take operators:    *)
(* the set of the arguments for which the claim holds.  The last part is   *)
(* about one operation that is folded over a sequence; a proof about a     *)
(* fold instantiates the module with its operation.                        *)
(***************************************************************************)
EXTENDS SequencesExt, FiniteSetTheorems, NaturalsInduction, WellFoundedInduction, TLAPS

CONSTANTS
    Op(_,_),        \* takes the value so far and an element
    Good(_)         \* what is claimed of the value so far

(* A set of natural numbers that is not empty has a least element.           *)
LEMMA LeastElement ==
  ASSUME NEW S, S \subseteq Nat, S # {}
  PROVE  \E v \in S : \A w \in S : v <= w
<1>1. \E v \in S : \A w \in S : ~ (<<w, v>> \in OpToRel(<, Nat))
  BY NatLessThanWellFounded, WFMin
<1>2. \E v \in S : \A w \in S : ~(w < v)
  BY <1>1 DEF OpToRel
<1>3. PICK v \in S : \A w \in S : ~(w < v)
  BY <1>2
<1>4. \A w \in S : v <= w
  BY <1>3
<1>5. QED
  BY <1>4

(* Induction over the natural numbers.                                       *)
LEMMA Induction ==
  ASSUME NEW P, 0 \in P, \A n \in Nat : n \in P => n + 1 \in P
  PROVE  Nat \subseteq P
<1> SUFFICES ASSUME Nat \ P # {}
             PROVE  FALSE
  OBVIOUS
<1>1. PICK v \in Nat \ P : \A w \in Nat \ P : v <= w
  BY LeastElement
<1>2. v # 0 /\ v - 1 \in Nat /\ v - 1 \in P
  BY <1>1
<1>3. QED
  BY <1>1, <1>2

(* Induction over the subsets of a finite set.                               *)
Inductive(P, D) == \A s \in SUBSET D : (\A x \in s : s \ {x} \in P) => s \in P

LEMMA SubsetInduction ==
  ASSUME NEW D, IsFiniteSet(D), NEW P, Inductive(P, D)
  PROVE  \A s \in SUBSET D : s \in P
<1> DEFINE Q == {n \in Nat : \A s \in SUBSET D : Cardinality(s) = n => s \in P}
<1>1. \A s \in SUBSET D : IsFiniteSet(s) /\ Cardinality(s) \in Nat
  BY FS_Subset, FS_CardinalityType
<1>2. 0 \in Q
  <2>1. \A s \in SUBSET D : Cardinality(s) = 0 => s = {}
    BY <1>1, FS_EmptySet
  <2>2. {} \in P
    BY DEF Inductive
  <2>3. QED
    BY <2>1, <2>2
<1>3. ASSUME NEW n \in Nat, n \in Q
      PROVE  n + 1 \in Q
  <2> SUFFICES ASSUME NEW s \in SUBSET D, Cardinality(s) = n + 1
               PROVE  s \in P
    OBVIOUS
  <2>1. ASSUME NEW x \in s
        PROVE  s \ {x} \in P
    <3>1. Cardinality(s \ {x}) = n
      BY <1>1, FS_RemoveElement
    <3>2. QED
      BY <1>3, <3>1
  <2>2. QED
    BY <2>1 DEF Inductive
<1>4. Nat \subseteq Q
  <2> HIDE DEF Q
  <2>1. QED
    BY <1>2, <1>3, Induction
<1>5. ASSUME NEW s \in SUBSET D
      PROVE  s \in P
  BY <1>1, <1>4
<1>6. QED
  BY <1>5

(* A recursion over the subsets of a finite set that removes one element     *)
(* after the other has a solution: c says which element, h what it does to   *)
(* the value for the rest.                                                   *)
Chooses(c, D) == \A s \in SUBSET D : s # {} => c[s] \in s
Maps(h, D, A) == \A x \in D, a \in A : h[x][a] \in A
Folds(f, D, base, c, h) ==
    \A s \in SUBSET D : f[s] = IF s = {} THEN base ELSE h[c[s]][f[s \ {c[s]}]]

LEMMA FoldExists ==
  ASSUME NEW D, IsFiniteSet(D), NEW A, NEW base \in A,
         NEW c, Chooses(c, D), NEW h, Maps(h, D, A)
  PROVE  \E f \in [SUBSET D -> A] : Folds(f, D, base, c, h)
<1> USE DEF Chooses, Maps
<1> DEFINE Solves(f, n) ==
             \A s \in SUBSET D : Cardinality(s) <= n =>
                f[s] = IF s = {} THEN base ELSE h[c[s]][f[s \ {c[s]}]]
           Q == {n \in Nat : \E f \in [SUBSET D -> A] : Solves(f, n)}
<1>1. \A s \in SUBSET D : IsFiniteSet(s) /\ Cardinality(s) \in Nat
  BY FS_Subset, FS_CardinalityType
<1>2. 0 \in Q
  <2> DEFINE f == [s \in SUBSET D |-> base]
  <2>1. \A s \in SUBSET D : Cardinality(s) <= 0 => s = {}
    BY <1>1, FS_EmptySet
  <2>2. f \in [SUBSET D -> A] /\ Solves(f, 0)
    BY <2>1
  <2>3. QED
    BY <2>2
<1>3. ASSUME NEW n \in Nat, n \in Q
      PROVE  n + 1 \in Q
  <2>1. PICK f \in [SUBSET D -> A] : Solves(f, n)
    BY <1>3
  <2> DEFINE step(s) == IF s = {} THEN base ELSE h[c[s]][f[s \ {c[s]}]]
             g == [s \in SUBSET D |-> IF Cardinality(s) <= n THEN f[s] ELSE step(s)]
  <2>2. g \in [SUBSET D -> A]
    <3>1. \A s \in SUBSET D : s # {} => c[s] \in D /\ f[s \ {c[s]}] \in A
      OBVIOUS
    <3>2. \A s \in SUBSET D : step(s) \in A
      BY <3>1
    <3> HIDE DEF step
    <3>3. QED
      BY <3>2
  <2>3. ASSUME NEW s \in SUBSET D, s # {}, Cardinality(s) <= n + 1
        PROVE  /\ s \ {c[s]} \in SUBSET D
               /\ Cardinality(s \ {c[s]}) <= n
    <3>1. IsFiniteSet(s) /\ Cardinality(s) \in Nat /\ c[s] \in s
      BY <1>1, <2>3
    <3> DEFINE x == c[s]
    <3> HIDE DEF x
    <3>2. Cardinality(s \ {x}) = Cardinality(s) - 1
      <4>1. x \in s /\ IsFiniteSet(s)
        BY <3>1 DEF x
      <4>2. QED
        BY <4>1, FS_RemoveElement
    <3>3. QED
      BY <2>3, <3>1, <3>2 DEF x
  <2>4. ASSUME NEW s \in SUBSET D, Cardinality(s) <= n + 1
        PROVE  g[s] = IF s = {} THEN base ELSE h[c[s]][g[s \ {c[s]}]]
    <3>1. g[s] = step(s)
      BY <2>1
    <3>2. s # {} => g[s \ {c[s]}] = f[s \ {c[s]}]
      BY <2>3, <2>4
    <3> HIDE DEF g
    <3>3. QED
      BY <3>1, <3>2
  <2>5. Solves(g, n + 1)
    BY <2>4
  <2> HIDE DEF g, Solves
  <2>6. QED
    BY <2>2, <2>5
<1>4. Nat \subseteq Q
  <2> HIDE DEF Q
  <2>1. QED
    BY <1>2, <1>3, Induction
<1>5. PICK f \in [SUBSET D -> A] : Solves(f, Cardinality(D))
  BY <1>1, <1>4
<1>6. \A s \in SUBSET D : Cardinality(s) <= Cardinality(D)
  BY FS_Subset
<1>7. QED
  BY <1>5, <1>6 DEF Folds

-----------------------------------------------------------------------------
(* Folds over sequences take the greatest place first.                       *)
LEMMA Greatest ==
  ASSUME NEW n \in Nat, NEW s, s \subseteq 1..n, s # {}
  PROVE  Max(s) \in s /\ \A m \in s : m <= Max(s)
<1> DEFINE gaps == {n - m : m \in s}
<1>0. \A m \in s : m \in Int /\ m <= n
  OBVIOUS
<1>1. gaps \subseteq Nat /\ gaps # {}
  <2>1. \A m \in s : n - m \in Nat
    BY <1>0
  <2>2. QED
    BY <2>1
<1>2. \E v \in gaps : \A w \in gaps : v <= w
  <2> HIDE DEF gaps
  <2>1. QED
    BY <1>1, LeastElement
<1>3. PICK x \in s : \A w \in gaps : n - x <= w
  BY <1>2
<1>4. ASSUME NEW m \in s
      PROVE  x >= m
  <2>1. n - x <= n - m
    BY <1>3
  <2>2. x \in Int /\ m \in Int
    BY <1>0, <1>3, <1>4
  <2>3. QED
    BY <2>1, <2>2
<1>5. \E y \in s : \A m \in s : y >= m
  BY <1>4
<1>6. Max(s) \in s /\ \A m \in s : Max(s) >= m
  BY <1>5 DEF Max
<1>7. QED
  BY <1>6

LEMMA LastPlace ==
  ASSUME NEW n \in Nat, NEW i \in 1..n
  PROVE  Max(1..i) = i /\ (1..i) \ {Max(1..i)} = 1..(i - 1)
<1>1. Max(1..i) \in 1..i /\ \A m \in 1..i : m <= Max(1..i)
  <2>1. i \in Nat /\ 1..i # {} /\ 1..i \subseteq 1..i
    OBVIOUS
  <2>2. QED
    BY <2>1, Greatest
<1>2. Max(1..i) = i
  BY <1>1
<1>3. (1..i) \ {i} = 1..(i - 1)
  OBVIOUS
<1>4. QED
  BY <1>2, <1>3

(* Two such recursions that agree on what they do agree everywhere.          *)
Follows(t, g, D, c) ==
    \A s \in SUBSET D : (s # {} => t[s \ {c[s]}] = g[s \ {c[s]}]) => t[s] = g[s]

LEMMA FoldUnique ==
  ASSUME NEW D, IsFiniteSet(D), NEW c, Chooses(c, D), NEW t, NEW g, Follows(t, g, D, c)
  PROVE  \A s \in SUBSET D : t[s] = g[s]
<1> DEFINE P == {s \in SUBSET D : t[s] = g[s]}
<1>1. ASSUME NEW s \in SUBSET D, \A x \in s : s \ {x} \in P
      PROVE  s \in P
  BY <1>1 DEF Chooses, Follows
<1>2. Inductive(P, D)
  BY <1>1 DEF Inductive
<1> HIDE DEF P
<1>3. \A s \in SUBSET D : s \in P
  BY <1>2, SubsetInduction
<1>4. QED
  BY <1>3 DEF P

(* The recursion of a fold over the places of a sequence, and the values it  *)
(* goes through from the first place to the last.                            *)
AtLast(n) == [s \in SUBSET (1..n) |-> Max(s)]
FoldsAlong(g, p, n, A, base, h) ==
    /\ g \in [SUBSET (1..n) -> A] /\ Folds(g, 1..n, base, AtLast(n), h)
    /\ p \in [0..n -> A] /\ p[n] = g[1..n]
    /\ p[0] = base /\ \A i \in 1..n : p[i] = h[i][p[i - 1]]
Sequential(n, A, base, h) == n \in Nat /\ base \in A /\ Maps(h, 1..n, A)

LEMMA SequenceFold ==
  ASSUME NEW n, NEW A, NEW base, NEW h, Sequential(n, A, base, h)
  PROVE  /\ IsFiniteSet(1..n) /\ Chooses(AtLast(n), 1..n)
         /\ \E g, p : FoldsAlong(g, p, n, A, base, h)
<1>0. n \in Nat /\ base \in A /\ Maps(h, 1..n, A)
  BY DEF Sequential
<1>1. IsFiniteSet(1..n)
  BY <1>0, FS_Interval
<1>2. Chooses(AtLast(n), 1..n)
  BY <1>0, Greatest DEF Chooses, AtLast
<1>3. PICK g \in [SUBSET (1..n) -> A] : Folds(g, 1..n, base, AtLast(n), h)
  BY <1>0, <1>1, <1>2, FoldExists
<1> DEFINE p == [i \in 0..n |-> g[1..i]]
<1>4. p \in [0..n -> A] /\ p[n] = g[1..n]
  BY <1>0
<1>5. p[0] = base
  <2>1. g[{}] = base
    BY <1>3 DEF Folds
  <2>2. 1..0 = {} /\ p[0] = g[1..0]
    BY <1>0
  <2>3. QED
    BY <2>1, <2>2
<1>6. ASSUME NEW i \in 1..n
      PROVE  p[i] = h[i][p[i - 1]]
  <2>1. AtLast(n)[1..i] = i /\ (1..i) \ {i} = 1..(i - 1)
    BY <1>0, LastPlace DEF AtLast
  <2>2. 1..i \in SUBSET (1..n) /\ 1..i # {}
    <3>1. n \in Nat
      BY <1>0
    <3>2. QED
      BY <3>1
  <2>3. g[1..i] = h[i][g[1..(i - 1)]]
    BY <1>3, <2>1, <2>2 DEF Folds
  <2>4. QED
    BY <1>0, <2>3
<1> HIDE DEF p
<1>7. FoldsAlong(g, p, n, A, base, h)
  BY <1>3, <1>4, <1>5, <1>6 DEF FoldsAlong
<1>8. QED
  BY <1>1, <1>2, <1>7

-----------------------------------------------------------------------------
(* Sequences and the sets of their elements.                                 *)

LEMMA Part ==
  ASSUME NEW S, NEW s \in Seq(S), NEW m \in Nat \ {0}, NEW n \in Nat, n <= Len(s)
  PROVE  SubSeq(s, m, n) \in Seq(S)
OBVIOUS

LEMMA InRange ==
  ASSUME NEW S, NEW s \in Seq(S)
  PROVE  ToSet(s) \subseteq S /\ s \in Seq(ToSet(s))
BY DEF ToSet

LEMMA Wider ==
  ASSUME NEW S, NEW T, S \subseteq T, NEW s \in Seq(S)
  PROVE  s \in Seq(T)
OBVIOUS

LEMMA TailRange ==
  ASSUME NEW S, NEW s \in Seq(S), s # <<>>
  PROVE  /\ Head(s) \in ToSet(s) /\ Tail(s) \in Seq(ToSet(Tail(s)))
         /\ ToSet(s) = {Head(s)} \cup ToSet(Tail(s))
<1>1. /\ Head(s) = s[1] /\ 1 \in DOMAIN s
      /\ Tail(s) \in Seq(S) /\ DOMAIN Tail(s) = 1..(Len(s) - 1)
      /\ \A i \in 1..(Len(s) - 1) : Tail(s)[i] = s[i + 1]
  OBVIOUS
<1>2. \A i \in DOMAIN s : i = 1 \/ (i - 1 \in 1..(Len(s) - 1) /\ s[i] = Tail(s)[i - 1])
  BY <1>1
<1>3. \A i \in 1..(Len(s) - 1) : i + 1 \in DOMAIN s
  OBVIOUS
<1> DEFINE t == Tail(s)
<1>4. ToSet(s) \subseteq {Head(s)} \cup ToSet(t)
  <2> SUFFICES ASSUME NEW i \in DOMAIN s, i # 1
               PROVE  s[i] \in ToSet(t)
    BY <1>1 DEF ToSet
  <2>1. i - 1 \in DOMAIN t /\ s[i] = t[i - 1]
    BY <1>1, <1>2
  <2> HIDE DEF t
  <2>2. QED
    BY <2>1 DEF ToSet
<1>5. {Head(s)} \cup ToSet(t) \subseteq ToSet(s)
  BY <1>1, <1>3 DEF ToSet
<1>6. QED
  BY <1>1, <1>4, <1>5, InRange

LEMMA AppendRange ==
  ASSUME NEW S, NEW s \in Seq(S), NEW x \in S
  PROVE  x \in ToSet(Append(s, x)) /\ ToSet(s) \subseteq ToSet(Append(s, x))
<1> DEFINE t == Append(s, x)
<1>1. /\ DOMAIN s \subseteq DOMAIN t /\ \A i \in DOMAIN s : t[i] = s[i]
      /\ Len(s) + 1 \in DOMAIN t /\ t[Len(s) + 1] = x
  OBVIOUS
<1> HIDE DEF t
<1>2. x \in ToSet(t) /\ ToSet(s) \subseteq ToSet(t)
  BY <1>1 DEF ToSet
<1>3. QED
  BY <1>2 DEF t

LEMMA ConcatRange ==
  ASSUME NEW S, NEW s \in Seq(S), NEW u \in Seq(S)
  PROVE  ToSet(s) \subseteq ToSet(s \o u) /\ ToSet(u) \subseteq ToSet(s \o u)
<1> DEFINE t == s \o u
<1>1. /\ DOMAIN s \subseteq DOMAIN t /\ \A i \in DOMAIN s : t[i] = s[i]
      /\ \A i \in DOMAIN u : i + Len(s) \in DOMAIN t /\ t[i + Len(s)] = u[i]
  OBVIOUS
<1> HIDE DEF t
<1>2. ToSet(s) \subseteq ToSet(t) /\ ToSet(u) \subseteq ToSet(t)
  BY <1>1 DEF ToSet
<1>3. QED
  BY <1>2 DEF t

(* What a fold has collected stays.                                          *)
LEMMA Accumulates ==
  ASSUME NEW n \in Nat, NEW p, \A i \in 1..n : ToSet(p[i - 1]) \subseteq ToSet(p[i])
  PROVE  \A i \in 0..n : ToSet(p[i]) \subseteq ToSet(p[n])
<1> DEFINE P == {d \in Nat : \A i \in 0..n : n - i = d => ToSet(p[i]) \subseteq ToSet(p[n])}
<1>1. 0 \in P
  <2>1. \A i \in 0..n : n - i = 0 => i = n
    OBVIOUS
  <2>2. QED
    BY <2>1
<1>2. ASSUME NEW d \in Nat, d \in P
      PROVE  d + 1 \in P
  <2> SUFFICES ASSUME NEW i \in 0..n, n - i = d + 1
               PROVE  ToSet(p[i]) \subseteq ToSet(p[n])
    OBVIOUS
  <2>1. i + 1 \in 1..n /\ i + 1 \in 0..n /\ n - (i + 1) = d /\ (i + 1) - 1 = i
    OBVIOUS
  <2>2. ToSet(p[i + 1]) \subseteq ToSet(p[n])
    BY <1>2, <2>1
  <2>3. ToSet(p[i]) \subseteq ToSet(p[i + 1])
    BY <2>1
  <2>4. QED
    BY <2>2, <2>3
<1>3. Nat \subseteq P
  <2> HIDE DEF P
  <2>1. QED
    BY <1>1, <1>2, Induction
<1>4. ASSUME NEW i \in 0..n
      PROVE  ToSet(p[i]) \subseteq ToSet(p[n])
  <2>1. n - i \in Nat
    OBVIOUS
  <2>2. QED
    BY <1>3, <2>1
<1>5. QED
  BY <1>4

-----------------------------------------------------------------------------
(* The fold of Op over a sequence, as FoldLeft defines it.                   *)
Left(base, seq) ==
    LET iter[s \in SUBSET DOMAIN seq] ==
            IF s = {} THEN base
            ELSE LET x == Max(s) IN Op(iter[s \ {x}], seq[x])
    IN  iter[DOMAIN seq]

(* It goes through one value for each place.                                 *)
Along(p, base, seq) == p[0] = base /\ \A i \in 1..Len(seq) : p[i] = Op(p[i - 1], seq[i])

LEMMA LeftFold ==
  ASSUME NEW base, NEW T, NEW seq \in Seq(T)
  PROVE  \E p : Along(p, base, seq) /\ Left(base, seq) = p[Len(seq)]
<1> DEFINE n == Len(seq)
           D == 1..n
           Value(g, s) == IF s = {} THEN base ELSE Op(g[s \ {Max(s)}], seq[Max(s)])
           Solves(g, k) == \A s \in SUBSET D : Cardinality(s) <= k => g[s] = Value(g, s)
           Q == {k \in Nat : \E g : Solves(g, k)}
<1>0. n \in Nat /\ DOMAIN seq = D
  OBVIOUS
<1>1. \A s \in SUBSET D : IsFiniteSet(s) /\ Cardinality(s) \in Nat /\ Cardinality(s) <= n
  <2>1. IsFiniteSet(D) /\ Cardinality(D) = n
    BY <1>0, FS_Interval
  <2> HIDE DEF D, n
  <2>2. QED
    BY <2>1, FS_Subset, FS_CardinalityType
<1>2. \A s \in SUBSET D : s # {} => Max(s) \in s
  BY <1>0, Greatest
<1>3. 0 \in Q
  <2> DEFINE g == [s \in SUBSET D |-> base]
  <2>1. \A s \in SUBSET D : Cardinality(s) <= 0 => s = {}
    BY <1>1, FS_EmptySet
  <2>2. Solves(g, 0)
    BY <2>1
  <2>3. QED
    BY <2>2
<1>4. ASSUME NEW k \in Nat, k \in Q
      PROVE  k + 1 \in Q
  <2>1. PICK g : Solves(g, k)
    BY <1>4
  <2> DEFINE h == [s \in SUBSET D |-> IF Cardinality(s) <= k THEN g[s] ELSE Value(g, s)]
  <2>2. ASSUME NEW s \in SUBSET D, s # {}, Cardinality(s) <= k + 1
        PROVE  s \ {Max(s)} \in SUBSET D /\ Cardinality(s \ {Max(s)}) <= k
    <3> DEFINE x == Max(s)
    <3>1. x \in s /\ IsFiniteSet(s) /\ Cardinality(s) \in Nat
      BY <1>1, <1>2, <2>2
    <3> HIDE DEF x
    <3>2. Cardinality(s \ {x}) = Cardinality(s) - 1
      BY <3>1, FS_RemoveElement
    <3>3. Cardinality(s \ {x}) <= k
      BY <2>2, <3>1, <3>2
    <3>4. QED
      BY <2>2, <3>3 DEF x
  <2>3. ASSUME NEW s \in SUBSET D, Cardinality(s) <= k + 1
        PROVE  h[s] = Value(h, s)
    <3>1. h[s] = Value(g, s)
      BY <2>1
    <3>2. s # {} => h[s \ {Max(s)}] = g[s \ {Max(s)}]
      BY <2>2, <2>3
    <3> HIDE DEF h
    <3>3. QED
      BY <3>1, <3>2
  <2>4. Solves(h, k + 1)
    BY <2>3
  <2> HIDE DEF h, Solves
  <2>5. QED
    BY <2>4
<1>5. Nat \subseteq Q
  <2> HIDE DEF Q
  <2>1. QED
    BY <1>3, <1>4, Induction
<1>6. PICK g : Solves(g, n)
  BY <1>0, <1>5
<1> DEFINE Iterates(f) == f = [s \in SUBSET D |-> Value(f, s)]
<1>7. Iterates([s \in SUBSET D |-> g[s]])
  <2> DEFINE f == [s \in SUBSET D |-> g[s]]
  <2>1. \A s \in SUBSET D : f[s] = Value(f, s)
    <3> SUFFICES ASSUME NEW s \in SUBSET D
                 PROVE  f[s] = Value(f, s)
      OBVIOUS
    <3>1. f[s] = Value(g, s)
      BY <1>1, <1>6
    <3>2. f[s \ {Max(s)}] = g[s \ {Max(s)}]
      OBVIOUS
    <3> HIDE DEF f
    <3>3. QED
      BY <3>1, <3>2
  <2>2. QED
    BY <2>1
<1> DEFINE iter == CHOOSE f : Iterates(f)
<1>8. Iterates(iter)
  <2> HIDE DEF Iterates
  <2>1. QED
    BY <1>7
<1>9. Left(base, seq) = iter[1..n]
  BY <1>0 DEF Left
<1> HIDE DEF iter
<1> DEFINE p == [i \in 0..n |-> iter[1..i]]
<1>10. p[0] = base
  <2>1. 1..0 = {} /\ {} \in SUBSET D /\ 0 \in 0..n
    BY <1>0
  <2>2. iter[{}] = base
    BY <1>8, <2>1
  <2>3. QED
    BY <2>1, <2>2
<1>11. ASSUME NEW i \in 1..n
       PROVE  p[i] = Op(p[i - 1], seq[i])
  <2>1. Max(1..i) = i /\ (1..i) \ {Max(1..i)} = 1..(i - 1)
    BY <1>0, LastPlace
  <2>2. 1..i \in SUBSET D /\ 1..i # {} /\ i \in 0..n /\ i - 1 \in 0..n
    <3>1. i \in Nat /\ i >= 1 /\ i <= n /\ n \in Nat
      BY <1>0
    <3>2. 1 \in 1..i /\ i \in 0..n /\ i - 1 \in 0..n
      BY <3>1
    <3>3. \A k \in 1..i : k \in 1..n
      BY <3>1
    <3>4. QED
      BY <1>0, <3>2, <3>3
  <2>3. iter[1..i] = Value(iter, 1..i)
    BY <1>8, <2>2
  <2>4. iter[1..i] = Op(iter[1..(i - 1)], seq[i])
    BY <2>1, <2>2, <2>3
  <2>5. QED
    BY <2>2, <2>4
<1>12. n \in 0..n
  BY <1>0
<1> HIDE DEF p
<1>13. Along(p, base, seq)
  BY <1>10, <1>11 DEF Along
<1>14. p[n] = iter[1..n]
  BY <1>12 DEF p
<1>15. QED
  BY <1>9, <1>13, <1>14

(* What holds of the base and is kept by every step holds of the fold.       *)
LEMMA LeftInvariant ==
  ASSUME NEW base, NEW T, NEW seq \in Seq(T), Good(base),
         \A r : Good(r) => \A x \in T : Good(Op(r, x))
  PROVE  Good(Left(base, seq))
<1>1. PICK p : Along(p, base, seq) /\ Left(base, seq) = p[Len(seq)]
  BY LeftFold
<1> DEFINE P == {i \in Nat : i <= Len(seq) => Good(p[i])}
<1>2. 0 \in P
  BY <1>1 DEF Along
<1>3. ASSUME NEW i \in Nat, i \in P
      PROVE  i + 1 \in P
  <2> SUFFICES ASSUME i + 1 <= Len(seq)
               PROVE  Good(p[i + 1])
    OBVIOUS
  <2>1. Len(seq) \in Nat /\ i + 1 \in 1..Len(seq) /\ (i + 1) - 1 = i /\ seq[i + 1] \in T
    OBVIOUS
  <2>2. p[i + 1] = Op(p[i], seq[i + 1])
    BY <1>1, <2>1 DEF Along
  <2>3. Good(p[i])
    BY <1>3, <2>1
  <2>4. QED
    BY <2>1, <2>2, <2>3
<1>4. Nat \subseteq P
  <2> HIDE DEF P
  <2>1. QED
    BY <1>2, <1>3, Induction
<1>5. Len(seq) \in P
  BY <1>4
<1>6. QED
  BY <1>1, <1>5
=============================================================================
