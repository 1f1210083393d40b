----------------------------- MODULE FoldLemmas -----------------------------
(***************************************************************************)
(* Induction over the natural numbers and over finite sets, stated of sets *)
(* instead of predicates; what a fold over a finite set or a sequence      *)
(* needs, that its recursion has a solution, and what of it is then known; *)
(* and what is in a list that was filtered.                                *)
(***************************************************************************)
EXTENDS Selection, Integers, FiniteSetsExt, FiniteSetTheorems, SequenceTheorems, WellFoundedInduction, TLAPS

LEMMA Least ==
  ASSUME NEW T \in SUBSET Nat, T # {}
  PROVE  \E x \in T : \A y \in T : x <= y
<1> DEFINE R == OpToRel(<, Nat)
<1>1. IsWellFoundedOn(R, Nat)
  BY NatLessThanWellFounded
<1>2. PICK x \in T : \A y \in T : ~(<<y, x>> \in R)
  <2> HIDE DEF R
  <2> QED BY <1>1, WFMin
<1>3. \A y \in T : <<y, x>> \in R <=> y < x
  BY DEF OpToRel
<1> HIDE DEF R
<1>4. x \in Nat /\ \A y \in T : y \in Nat
  OBVIOUS
<1>5. \A y \in T : ~(y < x)
  BY <1>2, <1>3
<1>6. \A y \in T : x <= y
  BY <1>4, <1>5
<1> QED BY <1>6

(* What holds of zero and passes on to the next holds of all. *)
LEMMA Climb ==
  ASSUME NEW S, 0 \in S, \A n \in Nat : n \in S => n + 1 \in S
  PROVE  Nat \subseteq S
<1> DEFINE T == {n \in Nat : n \notin S}
<1> SUFFICES ASSUME T # {} PROVE FALSE
  OBVIOUS
<1>1. PICK x \in T : \A y \in T : x <= y
  <2> T \in SUBSET Nat
    OBVIOUS
  <2> HIDE DEF T
  <2> QED BY Least
<1>2. x # 0 /\ x \in Nat
  OBVIOUS
<1>3. x - 1 \in Nat /\ x - 1 \notin T
  BY <1>1, <1>2
<1> QED BY <1>2, <1>3

(* An order in which the elements of each subset are taken. *)
Picks(C, S) == \A s \in (SUBSET S) \ {{}} : C[s] \in s

LEMMA OneLess ==
  ASSUME NEW S, IsFiniteSet(S), NEW C, Picks(C, S), NEW s \in SUBSET S, s # {}
  PROVE  /\ C[s] \in s /\ s \ {C[s]} \in SUBSET S
         /\ Cardinality(s) \in Nat /\ Cardinality(s \ {C[s]}) = Cardinality(s) - 1
<1>1. C[s] \in s
  BY DEF Picks
<1>2. IsFiniteSet(s)
  BY FS_Subset
<1> QED BY <1>1, <1>2, FS_RemoveElement, FS_CardinalityType

(* What holds of the empty set, and of a set when it holds of the set without the *)
(* element taken first, holds of every subset.                                    *)
LEMMA SubsetInduction ==
  ASSUME NEW S, IsFiniteSet(S), NEW C, Picks(C, S), NEW P, {} \in P,
         \A s \in (SUBSET S) \ {{}} : s \ {C[s]} \in P => s \in P
  PROVE  SUBSET S \subseteq P
<1> DEFINE N == {n \in Nat : \A s \in SUBSET S : Cardinality(s) = n => s \in P}
<1>1. 0 \in N
  <2>1. ASSUME NEW s \in SUBSET S, Cardinality(s) = 0 PROVE s = {}
    <3>1. IsFiniteSet(s)
      BY FS_Subset
    <3> QED BY <2>1, <3>1, FS_EmptySet
  <2> QED BY <2>1
<1>2. ASSUME NEW n \in Nat, n \in N PROVE n + 1 \in N
  <2> SUFFICES ASSUME NEW s \in SUBSET S, Cardinality(s) = n + 1 PROVE s \in P
    OBVIOUS
  <2>1. s # {}
    BY FS_EmptySet
  <2>2. s \ {C[s]} \in SUBSET S /\ Cardinality(s \ {C[s]}) = n
    BY <2>1, OneLess
  <2> QED BY <1>2, <2>1, <2>2
<1>3. Nat \subseteq N
  <2> HIDE DEF N
  <2> QED BY <1>1, <1>2, Climb
<1> SUFFICES ASSUME NEW s \in SUBSET S PROVE s \in P
  OBVIOUS
<1>4. Cardinality(s) \in Nat
  BY FS_Subset, FS_CardinalityType
<1> QED BY <1>3, <1>4

(* The recursion of a fold, over the subsets in D. *)
Solves(f, D, base, C, G) ==
  \A s \in D : f[s] = IF s = {} THEN base ELSE G[<<C[s], f[s \ {C[s]}]>>]

LEMMA FoldExists ==
  ASSUME NEW S, IsFiniteSet(S), NEW C, Picks(C, S),
         NEW V, NEW base \in V, NEW G \in [S \X V -> V]
  PROVE  \E f \in [SUBSET S -> V] : Solves(f, SUBSET S, base, C, G)
<1> DEFINE D(n) == {s \in SUBSET S : Cardinality(s) <= n}
           N == {n \in Nat : \E f \in [D(n) -> V] : Solves(f, D(n), base, C, G)}
<1>1. 0 \in N
  <2>1. ASSUME NEW s \in D(0) PROVE s = {}
    <3>1. IsFiniteSet(s) /\ Cardinality(s) \in Nat /\ Cardinality(s) <= 0
      BY FS_Subset, FS_CardinalityType
    <3> QED BY <3>1, FS_EmptySet
  <2> DEFINE f == [s \in D(0) |-> base]
  <2>2. f \in [D(0) -> V] /\ Solves(f, D(0), base, C, G)
    BY <2>1 DEF Solves
  <2> QED BY <2>2
<1>2. ASSUME NEW n \in Nat, n \in N PROVE n + 1 \in N
  <2>1. PICK f \in [D(n) -> V] : Solves(f, D(n), base, C, G)
    BY <1>2
  <2> DEFINE g == [s \in D(n + 1) |-> IF s = {} THEN base ELSE G[<<C[s], f[s \ {C[s]}]>>]]
  <2>2. ASSUME NEW s \in D(n + 1), s # {}
        PROVE  C[s] \in S /\ s \ {C[s]} \in D(n) /\ s \ {C[s]} \in D(n + 1)
    <3>1. C[s] \in s /\ s \ {C[s]} \in SUBSET S /\ Cardinality(s) \in Nat
          /\ Cardinality(s \ {C[s]}) = Cardinality(s) - 1
      BY <2>2, OneLess
    <3> QED BY <3>1
  <2>3. g \in [D(n + 1) -> V]
    <3>1. ASSUME NEW s \in D(n + 1), s # {} PROVE G[<<C[s], f[s \ {C[s]}]>>] \in V
      BY <2>2, <3>1
    <3> HIDE DEF D
    <3> QED BY <3>1
  <2>4. ASSUME NEW s \in D(n), s \in D(n + 1) PROVE g[s] = f[s]
    <3> HIDE DEF D
    <3> QED BY <2>1, <2>4 DEF Solves
  <2>5. Solves(g, D(n + 1), base, C, G)
    <3>1. ASSUME NEW s \in D(n + 1), s # {} PROVE g[s \ {C[s]}] = f[s \ {C[s]}]
      BY <2>2, <2>4, <3>1
    <3> HIDE DEF D
    <3> QED BY <3>1 DEF Solves
  <2>6. \E h \in [D(n + 1) -> V] : Solves(h, D(n + 1), base, C, G)
    <3> HIDE DEF g, D
    <3> QED BY <2>3, <2>5
  <2> HIDE DEF D
  <2> QED BY <2>6
<1>3. Nat \subseteq N
  <2> HIDE DEF N
  <2> QED BY <1>1, <1>2, Climb
<1>4. Cardinality(S) \in Nat /\ D(Cardinality(S)) = SUBSET S
  <2>1. Cardinality(S) \in Nat /\ \A s \in SUBSET S : Cardinality(s) <= Cardinality(S)
    BY FS_Subset, FS_CardinalityType
  <2> QED BY <2>1
<1>5. Cardinality(S) \in N
  BY <1>3, <1>4
<1> HIDE DEF D
<1> QED BY <1>4, <1>5

(* It has no other. *)
LEMMA FoldUnique ==
  ASSUME NEW S, IsFiniteSet(S), NEW C, Picks(C, S), NEW base, NEW G, NEW f, NEW g,
         Solves(f, SUBSET S, base, C, G), Solves(g, SUBSET S, base, C, G)
  PROVE  \A s \in SUBSET S : f[s] = g[s]
<1> DEFINE P == {s \in SUBSET S : f[s] = g[s]}
<1>1. {} \in P
  BY DEF Solves
<1>2. ASSUME NEW s \in (SUBSET S) \ {{}}, s \ {C[s]} \in P PROVE s \in P
  BY <1>2 DEF Solves
<1>3. SUBSET S \subseteq P
  <2> HIDE DEF P
  <2> QED BY <1>1, <1>2, SubsetInduction
<1> QED BY <1>3

LEMMA SixAreFinite ==
  ASSUME NEW a, NEW b, NEW c, NEW d, NEW e, NEW f
  PROVE  IsFiniteSet({a, b, c, d, e, f})
<1>1. IsFiniteSet({} \cup {a})
  BY FS_EmptySet, FS_AddElement
<1>2. IsFiniteSet(({} \cup {a}) \cup {b})
  BY <1>1, FS_AddElement
<1>3. IsFiniteSet((({} \cup {a}) \cup {b}) \cup {c})
  BY <1>2, FS_AddElement
<1>4. IsFiniteSet({d} \cup {e})
  <2>1. IsFiniteSet({} \cup {d})
    BY FS_EmptySet, FS_AddElement
  <2>2. IsFiniteSet(({} \cup {d}) \cup {e})
    BY <2>1, FS_AddElement
  <2>3. ({} \cup {d}) \cup {e} = {d} \cup {e}
    OBVIOUS
  <2> QED BY <2>2, <2>3
<1>5. IsFiniteSet(({d} \cup {e}) \cup {f})
  BY <1>4, FS_AddElement
<1>6. IsFiniteSet(((({} \cup {a}) \cup {b}) \cup {c}) \cup (({d} \cup {e}) \cup {f}))
  BY <1>3, <1>5, FS_Union
<1>7. ((({} \cup {a}) \cup {b}) \cup {c}) \cup (({d} \cup {e}) \cup {f}) = {a, b, c, d, e, f}
  OBVIOUS
<1> QED BY <1>6, <1>7

(* FS_Image, of a function. *)
LEMMA FiniteImage ==
  ASSUME NEW S, IsFiniteSet(S), NEW f
  PROVE  IsFiniteSet({f[x] : x \in S})
<1> DEFINE T == {f[x] : x \in S}
           g == [x \in S |-> f[x]]
<1>1. g \in Surjection(S, T)
  BY DEF Surjection
<1> HIDE DEF g, T
<1>2. IsFiniteSet(T)
  BY <1>1, FS_Surjection
<1> QED BY <1>2 DEF T

---------------------------------------------------------------------------
(* FoldLeft takes the positions of a sequence from the last one down. *)

LEMMA MaxExists ==
  ASSUME NEW n \in Nat, NEW s \in SUBSET (1..n), s # {}
  PROVE  Max(s) \in s /\ \A y \in s : y <= Max(s)
<1> DEFINE T == {m \in Nat : \A y \in s : y <= m}
<1>1. T # {}
  <2>1. n \in T
    OBVIOUS
  <2> QED BY <2>1
<1>2. PICK m \in T : \A k \in T : m <= k
  <2>1. T \in SUBSET Nat
    OBVIOUS
  <2> HIDE DEF T
  <2> QED BY <1>1, <2>1, Least
<1>3. m \in s
  <2> SUFFICES ASSUME m \notin s PROVE FALSE
    OBVIOUS
  <2>1. PICK a \in s : TRUE
    OBVIOUS
  <2>2. a \in 1..n /\ a <= m
    BY <1>2, <2>1
  <2>3. m - 1 \in Nat /\ m \in Nat
    BY <2>2
  <2>4. \A y \in s : y <= m - 1
    <3> TAKE y \in s
    <3>1. y <= m /\ y # m /\ y \in 1..n
      BY <1>2
    <3> QED BY <3>1, <2>3
  <2>5. m - 1 \in T
    BY <2>3, <2>4
  <2> HIDE DEF T
  <2> QED BY <1>2, <2>3, <2>5
<1>4. \A y \in s : m >= y
  <2> TAKE y \in s
  <2>1. y <= m /\ y \in 1..n
    BY <1>2
  <2> QED BY <2>1
<1>5. Max(s) \in s /\ \A y \in s : Max(s) >= y
  BY <1>3, <1>4 DEF Max
<1> QED BY <1>5

LEMMA LastOf ==
  ASSUME NEW n \in Nat, NEW i \in 1..n
  PROVE  /\ 1..i \in SUBSET (1..n) /\ 1..i # {}
         /\ Max(1..i) = i /\ (1..i) \ {Max(1..i)} = 1..(i - 1)
<1>1. 1..i \in SUBSET (1..n) /\ i \in 1..i
  OBVIOUS
<1>2. Max(1..i) \in 1..i /\ i <= Max(1..i)
  BY <1>1, MaxExists
<1>3. Max(1..i) = i
  BY <1>2
<1> QED BY <1>1, <1>3

Largest(n) == [s \in (SUBSET (1..n)) \ {{}} |-> Max(s)]

LEMMA LargestPicks ==
  ASSUME NEW n \in Nat
  PROVE  Picks(Largest(n), 1..n)
BY MaxExists DEF Picks, Largest

(* What FoldLeft's recursion is, for the step G. *)
Unfolds(f, n, base, G) ==
  \A s \in SUBSET (1..n) :
    f[s] = IF s = {} THEN base ELSE G[<<Max(s), f[s \ {Max(s)}]>>]

LEMMA LeftFoldExists ==
  ASSUME NEW n \in Nat, NEW V, NEW base \in V, NEW G \in [(1..n) \X V -> V]
  PROVE  \E f \in [SUBSET (1..n) -> V] : Unfolds(f, n, base, G)
<1> DEFINE S == 1..n
           C == Largest(n)
<1>1. IsFiniteSet(S)
  BY FS_Interval
<1>2. Picks(C, S)
  BY LargestPicks
<1>3. \E f \in [SUBSET S -> V] : Solves(f, SUBSET S, base, C, G)
  <2> HIDE DEF S, C
  <2> QED BY <1>1, <1>2, FoldExists DEF S
<1>4. ASSUME NEW f, Solves(f, SUBSET S, base, C, G) PROVE Unfolds(f, n, base, G)
  BY <1>4 DEF Solves, Unfolds, Largest
<1> QED BY <1>3, <1>4

(* Whatever solves the recursion where it stays in V stays in V, and goes through *)
(* the sequence from its first position up.                                       *)
Follows(g, n, V, base, G) ==
  /\ g \in [0..n -> V]
  /\ g[0] = base
  /\ \A i \in 1..n : g[i] = G[<<i, g[i - 1]>>]

Solving(iter, n, V, base, G) ==
  /\ iter[{}] = base
  /\ \A s \in (SUBSET (1..n)) \ {{}} :
       iter[s \ {Max(s)}] \in V => iter[s] = G[<<Max(s), iter[s \ {Max(s)}]>>]

FollowedTo(end, n, V, base, G) ==
  \E g : Follows(g, n, V, base, G) /\ g[n] = end

LEMMA LeftFoldFollows ==
  ASSUME NEW n \in Nat, NEW V, NEW base \in V, NEW G \in [(1..n) \X V -> V], NEW iter,
         Solving(iter, n, V, base, G)
  PROVE  FollowedTo(iter[1..n], n, V, base, G)
<1>0. /\ iter[{}] = base
      /\ \A s \in (SUBSET (1..n)) \ {{}} :
           iter[s \ {Max(s)}] \in V => iter[s] = G[<<Max(s), iter[s \ {Max(s)}]>>]
  BY DEF Solving
<1> DEFINE g == [i \in 0..n |-> iter[1..i]]
           P == {i \in Nat : i <= n => g[i] \in V}
<1>1. g[0] = base /\ 0 \in P
  <2>1. 1..0 = {}
    OBVIOUS
  <2> QED BY <1>0, <2>1
<1>2. ASSUME NEW i \in 1..n, g[i - 1] \in V
      PROVE  g[i] = G[<<i, g[i - 1]>>]
  <2>1. /\ 1..i \in SUBSET (1..n) /\ 1..i # {}
        /\ Max(1..i) = i /\ (1..i) \ {Max(1..i)} = 1..(i - 1)
    BY LastOf
  <2>2. g[i - 1] = iter[1..(i - 1)] /\ g[i] = iter[1..i]
    OBVIOUS
  <2> HIDE DEF g
  <2> QED BY <1>0, <1>2, <2>1, <2>2
<1>3. ASSUME NEW i \in Nat, i \in P PROVE i + 1 \in P
  <2> SUFFICES ASSUME i + 1 <= n PROVE g[i + 1] \in V
    BY DEF P
  <2>1. i + 1 \in 1..n /\ (i + 1) - 1 = i
    OBVIOUS
  <2>2. g[i] \in V
    BY <1>3, <2>1
  <2> HIDE DEF g
  <2>3. g[i + 1] = G[<<i + 1, g[i]>>]
    BY <1>2, <2>1, <2>2
  <2> QED BY <2>1, <2>2, <2>3
<1>4. Nat \subseteq P
  <2> HIDE DEF P
  <2> QED BY <1>1, <1>3, Climb
<1>5. \A i \in 0..n : g[i] \in V
  <2> SUFFICES ASSUME NEW i \in 0..n PROVE g[i] \in V
    OBVIOUS
  <2>1. i \in Nat /\ i <= n
    OBVIOUS
  <2>2. i \in P
    <3> HIDE DEF P
    <3> QED BY <1>4, <2>1
  <2> HIDE DEF g
  <2> QED BY <2>1, <2>2 DEF P
<1>6. g \in [0..n -> V]
  BY <1>5
<1>7. \A i \in 1..n : g[i] = G[<<i, g[i - 1]>>]
  <2>1. \A i \in 1..n : i - 1 \in 0..n
    OBVIOUS
  <2> HIDE DEF g
  <2> QED BY <1>2, <1>5, <2>1
<1>8. g[n] = iter[1..n]
  OBVIOUS
<1> HIDE DEF g
<1> QED BY <1>1, <1>6, <1>7, <1>8 DEF Follows, FollowedTo

---------------------------------------------------------------------------
(* What a selection returns: the elements at the positions that pass, each once *)
(* and in their order.                                                          *)
Rises(at, n) == \A j, k \in 1..n : j < k => at[j] < at[k]

Kept(f, s, I, i) ==
  \E n \in 0..i : \E at \in [1..n -> (1..i) \cap I] :
    /\ f = [k \in 1..n |-> s[at[k]]]
    /\ Rises(at, n)
    /\ \A p \in (1..i) \cap I : \E k \in 1..n : at[k] = p

LEMMA KeepsNext ==
  ASSUME NEW T, NEW s \in Seq(T), NEW I, NEW i \in 1..Len(s), i \in I,
         NEW f \in Seq(T), Kept(f, s, I, i - 1)
  PROVE  Kept(Append(f, s[i]), s, I, i)
<1>0. PICK n \in 0..(i - 1) : \E at \in [1..n -> (1..(i - 1)) \cap I] :
        /\ f = [k \in 1..n |-> s[at[k]]]
        /\ Rises(at, n)
        /\ \A p \in (1..(i - 1)) \cap I : \E k \in 1..n : at[k] = p
  BY DEF Kept
<1>1. PICK at \in [1..n -> (1..(i - 1)) \cap I] :
        /\ f = [k \in 1..n |-> s[at[k]]]
        /\ Rises(at, n)
        /\ \A p \in (1..(i - 1)) \cap I : \E k \in 1..n : at[k] = p
  BY <1>0
<1> DEFINE new == [k \in 1..(n + 1) |-> IF k = n + 1 THEN i ELSE at[k]]
<1>2. i \in Nat /\ n \in Nat /\ n + 1 \in 0..i /\ s[i] \in T
  BY ElementOfSeq, LenProperties
<1>3. \A k \in 1..n : at[k] \in 1..(i - 1) /\ at[k] \in I
  BY <1>1
<1>4. new \in [1..(n + 1) -> (1..i) \cap I]
  BY <1>2, <1>3
<1>5. Len(f) = n
  <2>1. DOMAIN f = 1..n /\ DOMAIN f = 1..Len(f) /\ Len(f) \in Nat
    BY <1>1, LenProperties
  <2> QED BY <1>2, <2>1
<1>6. Append(f, s[i]) = [k \in 1..(n + 1) |-> s[new[k]]]
  <2>1. /\ Append(f, s[i]) \in Seq(T)
        /\ Len(Append(f, s[i])) = n + 1
        /\ \A k \in 1..n : Append(f, s[i])[k] = f[k]
        /\ Append(f, s[i])[n + 1] = s[i]
    BY <1>2, <1>5, AppendProperties
  <2>2. Append(f, s[i]) \in [1..(n + 1) -> T]
    BY <2>1, LenProperties
  <2>3. \A k \in 1..(n + 1) : Append(f, s[i])[k] = s[new[k]]
    <3> TAKE k \in 1..(n + 1)
    <3>1. CASE k = n + 1
      BY <2>1, <3>1
    <3>2. CASE k # n + 1
      <4>1. k \in 1..n
        BY <1>2, <3>2
      <4>2. f[k] = s[at[k]] /\ new[k] = at[k]
        BY <1>1, <3>2, <4>1
      <4> QED BY <2>1, <4>1, <4>2
    <3> QED BY <3>1, <3>2
  <2> HIDE DEF new
  <2> QED BY <2>2, <2>3
<1>7. Rises(new, n + 1)
  <2> SUFFICES ASSUME NEW j \in 1..(n + 1), NEW k \in 1..(n + 1), j < k
               PROVE  new[j] < new[k]
    BY DEF Rises
  <2>1. j \in 1..n /\ new[j] = at[j]
    BY <1>2
  <2>2. CASE k = n + 1
    BY <1>2, <1>3, <2>1, <2>2
  <2>3. CASE k # n + 1
    <3>1. k \in 1..n /\ new[k] = at[k]
      BY <1>2, <2>3
    <3> QED BY <1>1, <2>1, <3>1 DEF Rises
  <2> QED BY <2>2, <2>3
<1>8. \A p \in (1..i) \cap I : \E k \in 1..(n + 1) : new[k] = p
  <2> TAKE p \in (1..i) \cap I
  <2>1. CASE p = i
    <3>1. n + 1 \in 1..(n + 1) /\ new[n + 1] = p
      BY <1>2, <2>1
    <3> QED BY <3>1
  <2>2. CASE p # i
    <3>1. p \in (1..(i - 1)) \cap I
      BY <1>2, <2>2
    <3>2. PICK k \in 1..n : at[k] = p
      BY <1>1, <3>1
    <3>3. k \in 1..(n + 1) /\ new[k] = p
      BY <1>2, <3>2
    <3> QED BY <3>3
  <2> QED BY <2>1, <2>2
<1> HIDE DEF new
<1> QED BY <1>2, <1>4, <1>6, <1>7, <1>8 DEF Kept

LEMMA PassesOver ==
  ASSUME NEW s, NEW I, NEW i \in Nat \ {0}, i \notin I, NEW f, Kept(f, s, I, i - 1)
  PROVE  Kept(f, s, I, i)
<1>1. (1..i) \cap I = (1..(i - 1)) \cap I
  OBVIOUS
<1>2. PICK n \in 0..(i - 1) : \E at \in [1..n -> (1..(i - 1)) \cap I] :
        /\ f = [k \in 1..n |-> s[at[k]]]
        /\ Rises(at, n)
        /\ \A p \in (1..(i - 1)) \cap I : \E k \in 1..n : at[k] = p
  BY DEF Kept
<1>3. n \in 0..i
  OBVIOUS
<1>4. \E at \in [1..n -> (1..i) \cap I] :
        /\ f = [k \in 1..n |-> s[at[k]]]
        /\ Rises(at, n)
        /\ \A p \in (1..i) \cap I : \E k \in 1..n : at[k] = p
  BY <1>1, <1>2
<1> QED BY <1>3, <1>4 DEF Kept

(* There is a function that follows the step G. *)
LEMMA Followed ==
  ASSUME NEW n \in Nat, NEW V, NEW base \in V, NEW G \in [(1..n) \X V -> V]
  PROVE  \E g : Follows(g, n, V, base, G)
<1>1. PICK h \in [SUBSET (1..n) -> V] : Unfolds(h, n, base, G)
  BY LeftFoldExists
<1>2. Solving(h, n, V, base, G)
  BY <1>1 DEF Unfolds, Solving
<1> QED BY <1>2, LeftFoldFollows DEF FollowedTo

(* What is selected is kept position by position, from the first one up. *)
Unrolls(kept, s, I) ==
  /\ kept[0] = <<>>
  /\ \A i \in 1..Len(s) : kept[i] = IF i \in I THEN Append(kept[i - 1], s[i]) ELSE kept[i - 1]

LEMMA SelectedUnrolls ==
  ASSUME NEW T, NEW s \in Seq(T), NEW I
  PROVE  \E kept : Unrolls(kept, s, I) /\ Selected(s, I) = kept[Len(s)]
<1> DEFINE n == Len(s)
           V == Seq(T)
           G == [p \in (1..n) \X V |-> IF p[1] \in I THEN Append(p[2], s[p[1]]) ELSE p[2]]
           F(f) == [i \in 0..n |-> IF i = 0 THEN <<>>
                                   ELSE IF i \in I THEN Append(f[i - 1], s[i]) ELSE f[i - 1]]
           kept == CHOOSE f : f = F(f)
<1>1. n \in Nat /\ \A i \in 1..n : s[i] \in T
  BY ElementOfSeq, LenProperties
<1>2. G \in [(1..n) \X V -> V]
  <2> SUFFICES ASSUME NEW i \in 1..n, NEW v \in V
               PROVE  (IF i \in I THEN Append(v, s[i]) ELSE v) \in V
    OBVIOUS
  <2> QED BY <1>1, AppendProperties
<1>3. <<>> \in V
  BY EmptySeq
<1>4. \A i \in 1..n, v \in V : G[<<i, v>>] = IF i \in I THEN Append(v, s[i]) ELSE v
  OBVIOUS
<1>5. \E f : Follows(f, n, V, <<>>, G)
  <2> HIDE DEF n, V, G
  <2> QED BY <1>1, <1>2, <1>3, Followed
<1>6. PICK f : Follows(f, n, V, <<>>, G)
  BY <1>5
<1>7. f = F(f)
  <2>1. f \in [0..n -> V] /\ f[0] = <<>> /\ \A i \in 1..n : f[i] = G[<<i, f[i - 1]>>]
    BY <1>6 DEF Follows
  <2>2. \A i \in 1..n : i - 1 \in 0..n /\ f[i - 1] \in V
    BY <1>1, <2>1
  <2>3. \A i \in 1..n : f[i] = IF i \in I THEN Append(f[i - 1], s[i]) ELSE f[i - 1]
    <3> HIDE DEF G, V, n
    <3> QED BY <1>4, <2>1, <2>2
  <2>4. \A i \in 0..n : f[i] = IF i = 0 THEN <<>>
                               ELSE IF i \in I THEN Append(f[i - 1], s[i]) ELSE f[i - 1]
    <3> TAKE i \in 0..n
    <3> HIDE DEF V, n
    <3>1. i = 0 \/ i \in 1..n
      BY <1>1
    <3> QED BY <2>1, <2>3, <3>1
  <2> HIDE DEF V, n
  <2> QED BY <2>1, <2>4
<1>8. kept = F(kept)
  <2> HIDE DEF F
  <2> QED BY <1>7
<1>9. Selected(s, I) = kept[n]
  BY DEF Selected
<1>10. /\ kept[0] = <<>>
       /\ \A i \in 1..n : kept[i] = IF i \in I THEN Append(kept[i - 1], s[i]) ELSE kept[i - 1]
  <2> HIDE DEF kept, n
  <2>1. \A i \in 1..n : i \in 0..n /\ i # 0
    BY <1>1
  <2>2. 0 \in 0..n
    BY <1>1
  <2> QED BY <1>8, <2>1, <2>2
<1> HIDE DEF kept
<1> QED BY <1>9, <1>10 DEF Unrolls

LEMMA SelectedKept ==
  ASSUME NEW T, NEW s \in Seq(T), NEW I
  PROVE  Selected(s, I) \in Seq(T) /\ Kept(Selected(s, I), s, I, Len(s))
<1> DEFINE n == Len(s)
           V == Seq(T)
<1>1. n \in Nat /\ \A i \in 1..n : s[i] \in T
  BY ElementOfSeq, LenProperties
<1>3. <<>> \in V
  BY EmptySeq
<1>9. PICK kept : Unrolls(kept, s, I) /\ Selected(s, I) = kept[n]
  BY SelectedUnrolls
<1>10. /\ kept[0] = <<>>
       /\ \A i \in 1..n : kept[i] = IF i \in I THEN Append(kept[i - 1], s[i]) ELSE kept[i - 1]
  BY <1>9 DEF Unrolls
<1> DEFINE P == {i \in Nat : i <= n => kept[i] \in V /\ Kept(kept[i], s, I, i)}
<1>11. 0 \in P
  <2>1. Kept(<<>>, s, I, 0)
    <3>1. 1..0 = {} /\ 0 \in 0..0
      OBVIOUS
    <3>2. <<>> \in [1..0 -> (1..0) \cap I] /\ <<>> = [k \in 1..0 |-> s[<<>>[k]]]
      BY <3>1
    <3> QED BY <3>1, <3>2 DEF Kept, Rises
  <2> QED BY <1>3, <1>10, <2>1
<1>12. ASSUME NEW i \in Nat, i \in P PROVE i + 1 \in P
  <2> SUFFICES ASSUME i + 1 <= n PROVE kept[i + 1] \in V /\ Kept(kept[i + 1], s, I, i + 1)
    OBVIOUS
  <2>1. i + 1 \in 1..n /\ (i + 1) - 1 = i /\ i + 1 \in Nat \ {0}
    BY <1>1
  <2>2. kept[i] \in V /\ Kept(kept[i], s, I, i)
    BY <1>1, <1>12
  <2>3. kept[i + 1] = IF i + 1 \in I THEN Append(kept[i], s[i + 1]) ELSE kept[i]
    BY <1>10, <2>1
  <2>4. CASE i + 1 \in I
    <3>1. Kept(Append(kept[i], s[i + 1]), s, I, i + 1)
      BY <2>1, <2>2, <2>4, KeepsNext
    <3>2. Append(kept[i], s[i + 1]) \in V
      BY <1>1, <2>1, <2>2, AppendProperties
    <3> QED BY <2>3, <2>4, <3>1, <3>2
  <2>5. CASE i + 1 \notin I
    <3>1. Kept(kept[i], s, I, (i + 1) - 1)
      BY <2>1, <2>2
    <3>2. Kept(kept[i], s, I, i + 1)
      <4> HIDE DEF P, V, n
      <4> QED BY <2>1, <2>5, <3>1, PassesOver
    <3> QED BY <2>2, <2>3, <2>5, <3>2
  <2> QED BY <2>4, <2>5
<1>13. Nat \subseteq P
  <2> HIDE DEF P
  <2> QED BY <1>11, <1>12, Climb
<1>14. n \in P
  <2> HIDE DEF P, n
  <2> QED BY <1>1, <1>13
<1> QED BY <1>1, <1>9, <1>14

LEMMA SameLength ==
  ASSUME NEW a \in Nat, NEW b \in Nat, 1..a = 1..b
  PROVE  a = b
<1>1. a = 0 \/ a \in 1..a
  OBVIOUS
<1>2. b = 0 \/ b \in 1..b
  OBVIOUS
<1> QED BY <1>1, <1>2

Positioned(f, s, I) ==
  \E n \in 0..Len(s) : \E at \in [1..n -> (1..Len(s)) \cap I] :
    /\ f = [k \in 1..n |-> s[at[k]]] /\ Len(f) = n
    /\ Rises(at, n)
    /\ \A p \in (1..Len(s)) \cap I : \E k \in 1..n : at[k] = p

LEMMA SelectedPositions ==
  ASSUME NEW T, NEW s \in Seq(T), NEW I
  PROVE  Positioned(Selected(s, I), s, I)
<1> DEFINE f == Selected(s, I)
<1>0. f \in Seq(T) /\ Kept(f, s, I, Len(s)) /\ Len(s) \in Nat
  BY SelectedKept, LenProperties
<1> HIDE DEF f
<1>1. PICK n \in 0..Len(s) : \E at \in [1..n -> (1..Len(s)) \cap I] :
        /\ f = [k \in 1..n |-> s[at[k]]]
        /\ Rises(at, n)
        /\ \A p \in (1..Len(s)) \cap I : \E k \in 1..n : at[k] = p
  BY <1>0 DEF Kept
<1>2. DOMAIN f = 1..Len(f) /\ Len(f) \in Nat
  BY <1>0, LenProperties
<1>3. n \in Nat /\ DOMAIN f = 1..n
  BY <1>0, <1>1
<1>4. Len(f) = n
  BY <1>2, <1>3, SameLength
<1>5. Positioned(f, s, I)
  BY <1>1, <1>4 DEF Positioned
<1> QED BY <1>5 DEF f

(* Everything selected was at a position that passes, and nothing there is left out. *)
LEMMA SelectedElements ==
  ASSUME NEW T, NEW s \in Seq(T), NEW I
  PROVE  /\ Selected(s, I) \in Seq(T) /\ Len(Selected(s, I)) \in 0..Len(s)
         /\ \A k \in 1..Len(Selected(s, I)) :
              \E i \in (1..Len(s)) \cap I : Selected(s, I)[k] = s[i]
         /\ \A i \in (1..Len(s)) \cap I :
              \E k \in 1..Len(Selected(s, I)) : Selected(s, I)[k] = s[i]
<1>0. Positioned(Selected(s, I), s, I)
  BY SelectedPositions
<1>1. PICK n \in 0..Len(s) : \E at \in [1..n -> (1..Len(s)) \cap I] :
        /\ Selected(s, I) = [k \in 1..n |-> s[at[k]]] /\ Len(Selected(s, I)) = n
        /\ Rises(at, n)
        /\ \A p \in (1..Len(s)) \cap I : \E k \in 1..n : at[k] = p
  BY <1>0 DEF Positioned
<1>2. PICK at \in [1..n -> (1..Len(s)) \cap I] :
        /\ Selected(s, I) = [k \in 1..n |-> s[at[k]]] /\ Len(Selected(s, I)) = n
        /\ \A p \in (1..Len(s)) \cap I : \E k \in 1..n : at[k] = p
  BY <1>1
<1>3. \A k \in 1..n : Selected(s, I)[k] = s[at[k]] /\ at[k] \in (1..Len(s)) \cap I
  BY <1>2
<1>4. \A i \in (1..Len(s)) \cap I : \E k \in 1..n : Selected(s, I)[k] = s[i]
  <2> TAKE i \in (1..Len(s)) \cap I
  <2>1. PICK k \in 1..n : at[k] = i
    BY <1>2
  <2> QED BY <1>3, <2>1
<1>5. Selected(s, I) \in Seq(T) /\ Len(Selected(s, I)) = n
  BY <1>2, SelectedKept
<1> QED BY <1>3, <1>4, <1>5

LEMMA ClimbTo ==
  ASSUME NEW n \in Nat, NEW S, 0 \in S, \A i \in 1..n : i - 1 \in S => i \in S
  PROVE  n \in S
<1> DEFINE P == {i \in Nat : i <= n => i \in S}
<1>1. 0 \in P
  OBVIOUS
<1>2. ASSUME NEW i \in Nat, i \in P PROVE i + 1 \in P
  <2> SUFFICES ASSUME i + 1 <= n PROVE i + 1 \in S
    OBVIOUS
  <2>1. i + 1 \in 1..n /\ (i + 1) - 1 = i
    OBVIOUS
  <2>2. i \in S
    BY <1>2, <2>1
  <2> HIDE DEF P
  <2> QED BY <2>1, <2>2
<1>3. Nat \subseteq P
  <2> HIDE DEF P
  <2> QED BY <1>1, <1>2, Climb
<1> QED BY <1>3

(* When all pass nothing changes, and when nothing is lost all have passed. *)
Whole(v, s, I, i) ==
  /\ Len(v) <= i
  /\ 1..i \subseteq I => Len(v) = i /\ \A k \in 1..i : v[k] = s[k]
  /\ Len(v) = i => 1..i \subseteq I

LEMMA WholeNext ==
  ASSUME NEW T, NEW s \in Seq(T), NEW I, NEW i \in 1..Len(s), i \in I,
         NEW v \in Seq(T), Whole(v, s, I, i - 1)
  PROVE  Append(v, s[i]) \in Seq(T) /\ Whole(Append(v, s[i]), s, I, i)
<1> DEFINE w == Append(v, s[i])
           m == Len(v)
<1>1. i \in Nat /\ i - 1 \in Nat /\ m \in Nat /\ s[i] \in T
  BY LenProperties, ElementOfSeq
<1>2. /\ w \in Seq(T) /\ Len(w) = m + 1
      /\ \A k \in 1..(m + 1) : w[k] = IF k <= m THEN v[k] ELSE s[i]
  BY <1>1, AppendProperties
<1>3. /\ m <= i - 1
      /\ 1..(i - 1) \subseteq I => m = i - 1 /\ \A k \in 1..(i - 1) : v[k] = s[k]
      /\ m = i - 1 => 1..(i - 1) \subseteq I
  BY DEF Whole
<1>4. 1..i = (1..(i - 1)) \cup {i}
  BY <1>1
<1> HIDE DEF w, m
<1>5. Len(w) <= i
  BY <1>1, <1>2, <1>3
<1>6. ASSUME 1..i \subseteq I PROVE Len(w) = i /\ \A k \in 1..i : w[k] = s[k]
  <2>1. m = i - 1 /\ \A k \in 1..(i - 1) : v[k] = s[k]
    BY <1>3, <1>4, <1>6
  <2>2. Len(w) = i /\ \A k \in 1..i : w[k] = IF k <= i - 1 THEN v[k] ELSE s[i]
    BY <1>1, <1>2, <2>1
  <2>3. \A k \in 1..i : (k \in 1..(i - 1) /\ k <= i - 1) \/ (k = i /\ ~(k <= i - 1))
    BY <1>1
  <2> QED BY <2>1, <2>2, <2>3
<1>7. ASSUME Len(w) = i PROVE 1..i \subseteq I
  <2>1. m = i - 1
    BY <1>1, <1>2, <1>7
  <2> QED BY <1>3, <1>4, <2>1
<1>8. Whole(w, s, I, i)
  BY <1>5, <1>6, <1>7 DEF Whole
<1> QED BY <1>2, <1>8 DEF w

LEMMA WholeWithout ==
  ASSUME NEW T, NEW i \in Nat \ {0}, NEW I, i \notin I, NEW s, NEW v \in Seq(T), Whole(v, s, I, i - 1)
  PROVE  Whole(v, s, I, i)
<1>1. Len(v) \in Nat /\ Len(v) <= i - 1
  BY LenProperties DEF Whole
<1>2. i \in 1..i
  OBVIOUS
<1>3. Len(v) <= i /\ Len(v) # i
  BY <1>1
<1> QED BY <1>2, <1>3 DEF Whole

LEMMA SelectedWhole ==
  ASSUME NEW T, NEW s \in Seq(T), NEW I
  PROVE  /\ 1..Len(s) \subseteq I => Selected(s, I) = s
         /\ Len(Selected(s, I)) = Len(s) => 1..Len(s) \subseteq I
<1>1. Len(s) \in Nat
  BY LenProperties
<1>2. PICK kept : Unrolls(kept, s, I) /\ Selected(s, I) = kept[Len(s)]
  BY SelectedUnrolls
<1>3. /\ kept[0] = <<>>
      /\ \A i \in 1..Len(s) : kept[i] = IF i \in I THEN Append(kept[i - 1], s[i]) ELSE kept[i - 1]
  BY <1>2 DEF Unrolls
<1> DEFINE P == {i \in Nat : kept[i] \in Seq(T) /\ Whole(kept[i], s, I, i)}
<1>4. 0 \in P
  <2>1. <<>> \in Seq(T) /\ Len(<<>>) = 0 /\ 1..0 = {}
    BY EmptySeq
  <2>2. Whole(<<>>, s, I, 0)
    BY <2>1 DEF Whole
  <2> QED BY <1>3, <2>1, <2>2
<1>5. ASSUME NEW i \in 1..Len(s), i - 1 \in P PROVE i \in P
  <2>1. kept[i - 1] \in Seq(T) /\ Whole(kept[i - 1], s, I, i - 1) /\ i \in Nat \ {0}
    BY <1>1, <1>5
  <2>2. CASE i \in I
    <3>1. kept[i] = Append(kept[i - 1], s[i])
      BY <1>3, <2>2
    <3>2. kept[i] \in Seq(T) /\ Whole(kept[i], s, I, i)
      <4> HIDE DEF P
      <4> QED BY <2>1, <2>2, <3>1, WholeNext
    <3> QED BY <2>1, <3>2
  <2>3. CASE i \notin I
    <3>1. kept[i] = kept[i - 1]
      BY <1>3, <2>3
    <3>2. kept[i] \in Seq(T) /\ Whole(kept[i], s, I, i)
      <4> HIDE DEF P
      <4> QED BY <2>1, <2>3, <3>1, WholeWithout
    <3> QED BY <2>1, <3>2
  <2> QED BY <2>2, <2>3
<1>6. Len(s) \in P
  <2> HIDE DEF P
  <2> QED BY <1>1, <1>4, <1>5, ClimbTo
<1> DEFINE v == Selected(s, I)
<1>7. v \in Seq(T) /\ Whole(v, s, I, Len(s))
  BY <1>2, <1>6
<1> HIDE DEF v
<1>8. ASSUME 1..Len(s) \subseteq I PROVE v = s
  <2>1. Len(v) = Len(s) /\ \A k \in 1..Len(s) : v[k] = s[k]
    BY <1>7, <1>8 DEF Whole
  <2> QED BY <1>7, <2>1, SeqEqual
<1>9. Len(v) = Len(s) => 1..Len(s) \subseteq I
  BY <1>7 DEF Whole
<1> QED BY <1>8, <1>9 DEF v

(* What is selected of a sequence is what its positions select. *)
Ids(n) == [i \in 1..n |-> i]

LEMMA IdsAreSeq ==
  ASSUME NEW n \in Nat
  PROVE  Ids(n) \in Seq(1..n) /\ Len(Ids(n)) = n /\ \A i \in 1..n : Ids(n)[i] = i
<1>1. Ids(n) \in [1..n -> 1..n]
  BY DEF Ids
<1>2. Ids(n) \in Seq(1..n)
  BY <1>1, SeqDef
<1>3. Len(Ids(n)) \in Nat /\ 1..Len(Ids(n)) = 1..n
  BY <1>1, <1>2, LenProperties
<1> QED BY <1>2, <1>3, SameLength DEF Ids

Placed(v, at, s) == Len(v) = Len(at) /\ \A k \in 1..Len(at) : v[k] = s[at[k]]

LEMMA PlacedNext ==
  ASSUME NEW T, NEW s, NEW N, NEW i \in N, s[i] \in T,
         NEW v \in Seq(T), NEW at \in Seq(N), Placed(v, at, s)
  PROVE  /\ Append(v, s[i]) \in Seq(T) /\ Append(at, i) \in Seq(N)
         /\ Placed(Append(v, s[i]), Append(at, i), s)
<1> DEFINE w == Append(v, s[i])
           to == Append(at, i)
           m == Len(at)
<1>0. m \in Nat /\ Len(v) = m /\ \A k \in 1..m : v[k] = s[at[k]]
  BY LenProperties DEF Placed
<1>1. /\ w \in Seq(T) /\ Len(w) = m + 1
      /\ \A k \in 1..(m + 1) : w[k] = IF k <= m THEN v[k] ELSE s[i]
  BY <1>0, AppendProperties
<1>2. /\ to \in Seq(N) /\ Len(to) = m + 1
      /\ \A k \in 1..(m + 1) : to[k] = IF k <= m THEN at[k] ELSE i
  BY AppendProperties
<1> HIDE DEF w, to, m
<1>3. \A k \in 1..(m + 1) : (k \in 1..m /\ k <= m) \/ (k = m + 1 /\ ~(k <= m))
  BY <1>0
<1>4. \A k \in 1..(m + 1) : w[k] = s[to[k]]
  BY <1>0, <1>1, <1>2, <1>3
<1>5. Placed(w, to, s)
  BY <1>1, <1>2, <1>4 DEF Placed
<1> QED BY <1>1, <1>2, <1>5 DEF w, to

LEMMA SelectedByPosition ==
  ASSUME NEW T, NEW s \in Seq(T), NEW I, NEW at, at = Selected(Ids(Len(s)), I)
  PROVE  /\ at \in Seq(1..Len(s)) /\ Len(Selected(s, I)) = Len(at)
         /\ Selected(s, I) = [k \in 1..Len(at) |-> s[at[k]]]
<1>0. PICK n : n = Len(s)
  OBVIOUS
<1>1. n \in Nat /\ \A i \in 1..n : s[i] \in T
  BY <1>0, ElementOfSeq, LenProperties
<1>2. Ids(n) \in Seq(1..n) /\ Len(Ids(n)) = n /\ \A i \in 1..n : Ids(n)[i] = i
  BY <1>1, IdsAreSeq
<1>3. PICK kept : Unrolls(kept, s, I) /\ Selected(s, I) = kept[n]
  BY <1>0, SelectedUnrolls
<1>4. PICK from : Unrolls(from, Ids(n), I) /\ Selected(Ids(n), I) = from[n]
  <2>1. \E from : Unrolls(from, Ids(n), I) /\ Selected(Ids(n), I) = from[Len(Ids(n))]
    BY <1>2, SelectedUnrolls
  <2> QED BY <1>2, <2>1
<1>5. /\ kept[0] = <<>>
      /\ \A i \in 1..n : kept[i] = IF i \in I THEN Append(kept[i - 1], s[i]) ELSE kept[i - 1]
  BY <1>0, <1>3 DEF Unrolls
<1>6. /\ from[0] = <<>>
      /\ \A i \in 1..n : from[i] = IF i \in I THEN Append(from[i - 1], i) ELSE from[i - 1]
  BY <1>2, <1>4 DEF Unrolls
<1> DEFINE P == {i \in Nat : /\ kept[i] \in Seq(T) /\ from[i] \in Seq(1..n)
                             /\ Placed(kept[i], from[i], s)}
<1>7. 0 \in P
  <2>1. <<>> \in Seq(T) /\ <<>> \in Seq(1..n) /\ Len(<<>>) = 0 /\ 1..0 = {}
    BY EmptySeq
  <2> QED BY <1>5, <1>6, <2>1 DEF Placed
<1>8. ASSUME NEW i \in 1..n, i - 1 \in P PROVE i \in P
  <2>1. /\ kept[i - 1] \in Seq(T) /\ from[i - 1] \in Seq(1..n) /\ i \in Nat
        /\ Placed(kept[i - 1], from[i - 1], s)
    BY <1>1, <1>8
  <2>2. CASE i \in I
    <3>1. kept[i] = Append(kept[i - 1], s[i]) /\ from[i] = Append(from[i - 1], i)
      BY <1>5, <1>6, <2>2
    <3>2. s[i] \in T
      BY <1>1
    <3>3. kept[i] \in Seq(T) /\ from[i] \in Seq(1..n) /\ Placed(kept[i], from[i], s)
      <4> HIDE DEF P
      <4>1. \A v \in Seq(T), f \in Seq(1..n) :
              Placed(v, f, s) => /\ Append(v, s[i]) \in Seq(T) /\ Append(f, i) \in Seq(1..n)
                                 /\ Placed(Append(v, s[i]), Append(f, i), s)
        BY <3>2, PlacedNext
      <4> QED BY <2>1, <3>1, <4>1
    <3> QED BY <2>1, <3>3
  <2>3. CASE i \notin I
    BY <1>5, <1>6, <2>1, <2>3
  <2> QED BY <2>2, <2>3
<1>9. n \in P
  <2> HIDE DEF P
  <2> QED BY <1>1, <1>7, <1>8, ClimbTo
<1> DEFINE v == Selected(s, I)
<1>10. v \in Seq(T) /\ at \in Seq(1..n) /\ Placed(v, at, s)
  BY <1>0, <1>3, <1>4, <1>9
<1> HIDE DEF v
<1>11. v = [k \in 1..Len(v) |-> v[k]]
  BY <1>10, LenProperties
<1>12. Len(v) = Len(at) /\ \A k \in 1..Len(at) : v[k] = s[at[k]]
  BY <1>10 DEF Placed
<1>13. v = [k \in 1..Len(at) |-> s[at[k]]]
  BY <1>11, <1>12
<1> QED BY <1>0, <1>10, <1>12, <1>13 DEF v

LEMMA JoinedElements ==
  ASSUME NEW T, NEW s \in Seq(T), NEW t \in Seq(T)
  PROVE  /\ s \o t \in Seq(T) /\ Len(s \o t) = Len(s) + Len(t)
         /\ \A i \in 1..Len(s) : \E k \in 1..Len(s \o t) : (s \o t)[k] = s[i]
         /\ \A i \in 1..Len(t) : \E k \in 1..Len(s \o t) : (s \o t)[k] = t[i]
<1>1. /\ s \o t \in Seq(T) /\ Len(s \o t) = Len(s) + Len(t)
      /\ \A k \in 1..(Len(s) + Len(t)) :
           (s \o t)[k] = IF k <= Len(s) THEN s[k] ELSE t[k - Len(s)]
  BY ConcatProperties
<1>2. Len(s) \in Nat /\ Len(t) \in Nat
  BY LenProperties
<1>3. \A i \in 1..Len(s) : \E k \in 1..Len(s \o t) : (s \o t)[k] = s[i]
  <2> TAKE i \in 1..Len(s)
  <2>1. i \in 1..(Len(s) + Len(t)) /\ i <= Len(s)
    BY <1>2
  <2> QED BY <1>1, <2>1
<1>4. \A i \in 1..Len(t) : \E k \in 1..Len(s \o t) : (s \o t)[k] = t[i]
  <2> TAKE i \in 1..Len(t)
  <2>1. /\ i + Len(s) \in 1..(Len(s) + Len(t)) /\ ~(i + Len(s) <= Len(s))
        /\ (i + Len(s)) - Len(s) = i
    BY <1>2
  <2>2. (s \o t)[i + Len(s)] = t[i]
    BY <1>1, <2>1
  <2> QED BY <1>1, <2>1, <2>2
<1> QED BY <1>1, <1>3, <1>4

(* What one sequence holds, another holds too. *)
Within(s, u) == \A i \in 1..Len(s) : \E k \in 1..Len(u) : u[k] = s[i]

LEMMA WithinFurther ==
  ASSUME NEW s, NEW u, NEW v, Within(s, u), Within(u, v)
  PROVE  Within(s, v)
<1>1. ASSUME NEW i \in 1..Len(s) PROVE \E k \in 1..Len(v) : v[k] = s[i]
  <2>1. PICK j \in 1..Len(u) : u[j] = s[i]
    BY DEF Within
  <2>2. PICK k \in 1..Len(v) : v[k] = u[j]
    BY DEF Within
  <2> QED BY <2>1, <2>2
<1> QED BY <1>1 DEF Within

LEMMA JoinedAs ==
  ASSUME NEW T, NEW s \in Seq(T), NEW t \in Seq(T), NEW u, u = s \o t
  PROVE  u \in Seq(T) /\ Within(s, u) /\ Within(t, u)
BY JoinedElements DEF Within

---------------------------------------------------------------------------
(* Sums of whole numbers over a finite set: the order does not matter. *)

Splits(f, h, s) == \A x \in s : f[s] = h[x] + f[s \ {x}]

AddsUp(f, S, h) ==
  /\ f \in [SUBSET S -> Int]
  /\ f[{}] = 0
  /\ \A s \in SUBSET S : Splits(f, h, s)

(* The order CHOOSE takes the elements in, which is that of MapThenSumSet. *)
Chosen(S) == [s \in (SUBSET S) \ {{}} |-> CHOOSE x \in s : TRUE]

LEMMA ChosenPicks ==
  ASSUME NEW S
  PROVE  Picks(Chosen(S), S)
BY DEF Picks, Chosen

LEMMA SumsExist ==
  ASSUME NEW S, IsFiniteSet(S), NEW h \in [S -> Int]
  PROVE  \E f : AddsUp(f, S, h)
<1> DEFINE C == Chosen(S)
           G == [p \in S \X Int |-> h[p[1]] + p[2]]
<1>1. Picks(C, S)
  BY ChosenPicks
<1>2. G \in [S \X Int -> Int] /\ 0 \in Int
  OBVIOUS
<1>3. PICK f \in [SUBSET S -> Int] : Solves(f, SUBSET S, 0, C, G)
  <2> HIDE DEF G, C
  <2> QED BY <1>1, <1>2, FoldExists
<1> HIDE DEF C
<1>4. ASSUME NEW s \in (SUBSET S) \ {{}} PROVE C[s] \in s /\ f[s] = h[C[s]] + f[s \ {C[s]}]
  <2>1. C[s] \in s
    BY <1>1 DEF Picks
  <2>2. f[s] = G[<<C[s], f[s \ {C[s]}]>>]
    BY <1>3 DEF Solves
  <2>3. C[s] \in S /\ f[s \ {C[s]}] \in Int
    BY <2>1
  <2> QED BY <2>1, <2>2, <2>3
<1>5. f[{}] = 0
  BY <1>3 DEF Solves
<1> DEFINE N == {n \in Nat : \A s \in SUBSET S : Cardinality(s) = n => Splits(f, h, s)}
<1> HIDE DEF G
<1>6. 0 \in N
  <2>1. ASSUME NEW s \in SUBSET S, Cardinality(s) = 0 PROVE s = {}
    BY <2>1, FS_Subset, FS_EmptySet
  <2> QED BY <2>1 DEF Splits
<1>7. ASSUME NEW n \in Nat, n \in N PROVE n + 1 \in N
  <2> SUFFICES ASSUME NEW s \in SUBSET S, Cardinality(s) = n + 1, NEW x \in s
               PROVE  f[s] = h[x] + f[s \ {x}]
    BY DEF Splits
  <2>1. \A y \in s : s \ {y} \in SUBSET S /\ Cardinality(s \ {y}) = n
    <3> TAKE y \in s
    <3>1. IsFiniteSet(s) /\ s \ {y} \in SUBSET S
      BY FS_Subset
    <3>2. Cardinality(s \ {y}) = Cardinality(s) - 1
      BY <3>1, FS_RemoveElement
    <3> QED BY <3>1, <3>2
  <2>2. \A y \in s : Splits(f, h, s \ {y})
    BY <1>7, <2>1
  <2>3. PICK m \in s : f[s] = h[m] + f[s \ {m}]
    BY <1>4
  <2>4. CASE x = m
    BY <2>3, <2>4
  <2>5. CASE x # m
    <3>1. f[s \ {m}] = h[x] + f[(s \ {m}) \ {x}] /\ f[s \ {x}] = h[m] + f[(s \ {x}) \ {m}]
      BY <2>2, <2>5 DEF Splits
    <3>2. (s \ {m}) \ {x} = (s \ {x}) \ {m}
      OBVIOUS
    <3>3. PICK u, v, r : /\ u = f[s \ {m}] /\ v = f[s \ {x}]
                         /\ r = f[(s \ {m}) \ {x}] /\ r = f[(s \ {x}) \ {m}]
      BY <3>2
    <3>4. r \in Int /\ h[m] \in Int /\ h[x] \in Int
      BY <3>3
    <3>5. f[s] = h[m] + u /\ u = h[x] + r /\ v = h[m] + r
      BY <2>3, <3>1, <3>3
    <3>6. f[s] = h[x] + v
      BY ONLY <3>4, <3>5
    <3> QED BY <3>3, <3>6
  <2> QED BY <2>4, <2>5
<1>8. Nat \subseteq N
  <2> HIDE DEF N
  <2> QED BY <1>6, <1>7, Climb
<1>9. ASSUME NEW s \in SUBSET S PROVE Splits(f, h, s)
  <2>1. Cardinality(s) \in Nat
    BY FS_Subset, FS_CardinalityType
  <2> QED BY <1>8, <2>1
<1>10. AddsUp(f, S, h)
  <2> HIDE DEF N
  <2> QED BY <1>5, <1>9 DEF AddsUp
<1> QED BY <1>10

(* A sum over some of the elements, as MapThenSumSet computes it. *)
Summing(iter, T, h) ==
  iter = [s \in SUBSET T |->
            IF s = {} THEN 0
            ELSE h[CHOOSE x \in s : TRUE] + iter[s \ {CHOOSE x \in s : TRUE}]]

LEMMA SumPart ==
  ASSUME NEW S, NEW h, NEW f, AddsUp(f, S, h), NEW T \in SUBSET S
  PROVE  \E part : Summing(part, T, h)
<1> DEFINE part == [s \in SUBSET T |-> f[s]]
<1>1. Summing(part, T, h)
  <2> SUFFICES ASSUME NEW s \in SUBSET T
               PROVE  f[s] = IF s = {} THEN 0
                             ELSE h[CHOOSE x \in s : TRUE] + part[s \ {CHOOSE x \in s : TRUE}]
    BY DEF Summing
  <2>1. ASSUME s # {}
        PROVE  f[s] = h[CHOOSE x \in s : TRUE] + f[s \ {CHOOSE x \in s : TRUE}]
    <3>1. (CHOOSE x \in s : TRUE) \in s /\ s \in SUBSET S
      BY <2>1
    <3> QED BY <3>1 DEF AddsUp, Splits
  <2>2. part[s \ {CHOOSE x \in s : TRUE}] = f[s \ {CHOOSE x \in s : TRUE}]
    OBVIOUS
  <2>3. f[{}] = 0
    BY DEF AddsUp
  <2> QED BY <2>1, <2>2, <2>3
<1> QED BY <1>1

LEMMA SumTaken ==
  ASSUME NEW S, IsFiniteSet(S), NEW h, NEW f, AddsUp(f, S, h), NEW T \in SUBSET S,
         NEW sum, Summing(sum, T, h)
  PROVE  sum[T] = f[T]
<1> DEFINE C == Chosen(T)
           P == {s \in SUBSET T : sum[s] = f[s]}
<1>3. IsFiniteSet(T) /\ Picks(C, T)
  BY FS_Subset, ChosenPicks
<1>4. {} \in P
  <2>1. sum[{}] = 0 /\ f[{}] = 0
    BY DEF Summing, AddsUp
  <2> QED BY <2>1
<1>5. ASSUME NEW s \in (SUBSET T) \ {{}}, s \ {C[s]} \in P PROVE s \in P
  <2>1. C[s] = CHOOSE x \in s : TRUE
    BY DEF Chosen
  <2>2. C[s] \in s
    BY <1>3 DEF Picks
  <2>3. sum[s] = h[C[s]] + sum[s \ {C[s]}]
    BY <2>1 DEF Summing
  <2> HIDE DEF C
  <2>4. f[s] = h[C[s]] + f[s \ {C[s]}]
    BY <2>2 DEF AddsUp, Splits
  <2> QED BY <1>5, <2>3, <2>4
<1>6. SUBSET T \subseteq P
  <2> HIDE DEF P, C
  <2> QED BY <1>3, <1>4, <1>5, SubsetInduction
<1> QED BY <1>6

(* The same numbers, each met once: the same sum. *)
LEMMA SumOfImage ==
  ASSUME NEW S, NEW h, NEW f, AddsUp(f, S, h),
         NEW R, IsFiniteSet(R), NEW k, NEW g, AddsUp(g, R, k),
         NEW at \in [R -> S], \A q, r \in R : at[q] = at[r] => q = r,
         \A r \in R : k[r] = h[at[r]]
  PROVE  g[R] = f[{at[r] : r \in R}]
<1> DEFINE image(s) == {at[r] : r \in s}
           C == Chosen(R)
           P == {s \in SUBSET R : g[s] = f[image(s)]}
<1>1. Picks(C, R)
  BY ChosenPicks
<1>2. {} \in P
  <2>1. image({}) = {} /\ g[{}] = 0 /\ f[{}] = 0
    BY DEF AddsUp
  <2> HIDE DEF image
  <2> QED BY <2>1
<1>3. ASSUME NEW s \in (SUBSET R) \ {{}}, s \ {C[s]} \in P PROVE s \in P
  <2>1. PICK x \in s : x = C[s]
    BY <1>1 DEF Picks
  <2>2. g[s \ {x}] = f[image(s \ {x})]
    BY <1>3, <2>1
  <2>3. image(s \ {x}) = image(s) \ {at[x]} /\ at[x] \in image(s) /\ image(s) \in SUBSET S
    OBVIOUS
  <2> HIDE DEF image, C
  <2>4. g[s] = k[x] + g[s \ {x}]
    BY DEF AddsUp, Splits
  <2>5. f[image(s)] = h[at[x]] + f[image(s) \ {at[x]}]
    BY <2>3 DEF AddsUp, Splits
  <2> QED BY <2>2, <2>3, <2>4, <2>5
<1>4. SUBSET R \subseteq P
  <2> HIDE DEF P, C
  <2> QED BY <1>1, <1>2, <1>3, SubsetInduction
<1>5. g[R] = f[image(R)]
  <2> HIDE DEF image
  <2> QED BY <1>4
<1> QED BY <1>5

(* The first positions, up to i. *)
Upto(i) == 1..i

LEMMA SumGrows ==
  ASSUME NEW n \in Nat, NEW h, NEW f, AddsUp(f, 1..n, h)
  PROVE  /\ f[Upto(0)] = 0
         /\ \A i \in 1..n : f[Upto(i)] = h[i] + f[Upto(i - 1)] /\ f[Upto(i)] \in Int
<1>1. Upto(0) = {}
  BY DEF Upto
<1>2. ASSUME NEW i \in 1..n
      PROVE  Upto(i) \in SUBSET (1..n) /\ i \in Upto(i) /\ Upto(i) \ {i} = Upto(i - 1)
  BY DEF Upto
<1>3. ASSUME NEW i \in 1..n PROVE f[Upto(i)] = h[i] + f[Upto(i - 1)] /\ f[Upto(i)] \in Int
  <2>1. PICK N : N = 1..n
    OBVIOUS
  <2>2. Upto(i) \in SUBSET N /\ AddsUp(f, N, h)
    BY <1>2, <2>1
  <2> QED BY <1>2, <2>2 DEF AddsUp, Splits
<1>4. f[{}] = 0
  BY DEF AddsUp
<1> QED BY <1>1, <1>3, <1>4
=============================================================================
