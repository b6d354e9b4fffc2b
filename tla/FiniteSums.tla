----------------------------- MODULE FiniteSums -----------------------------
(***************************************************************************)
(* Lemmas about sums over finite sets, for the proofs that nothing is      *)
(* created or destroyed.  Every sum of the models is a SumFunctionOnSet:   *)
(* the fold that adds f[x] for one chosen element after the other.  The    *)
(* lemmas free it from the order of the choices.                           *)
(*                                                                         *)
(* Induction over numbers and over finite sets is stated for the set of    *)
(* the cases that hold, so that it can be cited by name.                   *)
(***************************************************************************)
EXTENDS Integers, FiniteSets, Functions, FiniteSetTheorems, WellFoundedInduction, TLAPS

(* A set of naturals that holds 0 and every successor holds them all. *)
LEMMA NumberInduction ==
  ASSUME NEW T, 0 \in T, \A n \in Nat : n \in T => n + 1 \in T
  PROVE  \A n \in Nat : n \in T
<1> SUFFICES ASSUME Nat \ T # {} PROVE FALSE
  OBVIOUS
<1>1. PICK n \in Nat \ T : \A m \in Nat \ T : ~ (<<m, n>> \in OpToRel(<, Nat))
  BY NatLessThanWellFounded, WFMin
<1>2. n # 0 /\ n \in Nat
  OBVIOUS
<1>3. n - 1 \in Nat /\ n - 1 < n /\ (n - 1) + 1 = n
  BY <1>2
<1>4. n - 1 \in T
  BY <1>1, <1>3 DEF OpToRel
<1> QED
  BY <1>3, <1>4

(* What holds of a set whenever it holds of the set less any one element   *)
(* holds of every finite set.                                              *)
LEMMA SubsetInduction ==
  ASSUME NEW S, IsFiniteSet(S), NEW F,
         \A T \in SUBSET S : (\A x \in T : T \ {x} \in F) => T \in F
  PROVE  S \in F
<1> DEFINE N == {n \in Nat : \A T \in SUBSET S : Cardinality(T) = n => T \in F}
<1>1. 0 \in N
  <2>1. \A T \in SUBSET S : Cardinality(T) = 0 => T = {}
    BY FS_Subset, FS_EmptySet
  <2> QED BY <2>1
<1>2. ASSUME NEW n \in Nat, n \in N PROVE n + 1 \in N
  <2> SUFFICES ASSUME NEW T \in SUBSET S, Cardinality(T) = n + 1 PROVE T \in F
    OBVIOUS
  <2>1. IsFiniteSet(T)
    BY FS_Subset
  <2>2. ASSUME NEW x \in T PROVE Cardinality(T \ {x}) = n
    <3>1. Cardinality(T \ {x}) = Cardinality(T) - 1
      BY <2>1, FS_RemoveElement
    <3> QED BY <3>1
  <2>3. \A x \in T : T \ {x} \in F
    BY <2>2, <1>2
  <2> QED BY <2>3
<1> HIDE DEF N
<1>3. \A n \in Nat : n \in N
  BY <1>1, <1>2, NumberInduction
<1>4. Cardinality(S) \in Nat
  BY FS_CardinalityType
<1> QED
  BY <1>3, <1>4 DEF N

------------------------------------------------------------------------------
(* The recursive function of the fold *)

Pick(s) == CHOOSE x \in s : TRUE

(* g sums f over each of the sets of D. *)
Sums(g, D, f) ==
  g = [s \in D |-> IF s = {} THEN 0 ELSE f[Pick(s)] + g[s \ {Pick(s)}]]
SumsAll(g, S, f) == Sums(g, SUBSET S, f)

LEMMA SumIsChoice ==
  ASSUME NEW f, NEW S
  PROVE  SumFunctionOnSet(f, S) = (CHOOSE g : SumsAll(g, S, f))[S]
BY Zenon DEF SumFunctionOnSet, FoldFunctionOnSet, MapThenFoldSet, SumsAll, Sums, Pick

(* The function exists, for sets of at most n elements after each other.   *)
LEMMA SumsExists ==
  ASSUME NEW f, NEW S, IsFiniteSet(S)
  PROVE  \E g : SumsAll(g, S, f)
<1> DEFINE D(n) == {s \in SUBSET S : Cardinality(s) <= n}
           N == {n \in Nat : \E g : Sums(g, D(n), f)}
<1>1. 0 \in N
  <2>1. D(0) = {{}}
    <3>1. \A s \in SUBSET S : Cardinality(s) \in Nat /\ (Cardinality(s) = 0 <=> s = {})
      BY FS_Subset, FS_EmptySet, FS_CardinalityType
    <3>2. \A s \in SUBSET S : Cardinality(s) <= 0 <=> s = {}
      BY <3>1
    <3> QED BY <3>2
  <2> HIDE DEF D
  <2>2. Sums([s \in D(0) |-> 0], D(0), f)
    BY <2>1 DEF Sums
  <2> QED BY <2>2
<1>2. ASSUME NEW n \in Nat, n \in N PROVE n + 1 \in N
  <2>1. PICK g : Sums(g, D(n), f)
    BY <1>2
  <2> DEFINE h == [s \in D(n + 1) |-> IF s \in D(n) THEN g[s]
                                      ELSE f[Pick(s)] + g[s \ {Pick(s)}]]
  <2>2. D(n) \subseteq D(n + 1) /\ {} \in D(n)
    <3>1. \A s \in SUBSET S : Cardinality(s) \in Nat
      BY FS_Subset, FS_CardinalityType
    <3> QED BY <3>1, FS_EmptySet
  <2>3. ASSUME NEW s \in D(n + 1), s # {} PROVE s \ {Pick(s)} \in D(n)
    <3>1. Pick(s) \in s
      BY <2>3 DEF Pick
    <3>2. IsFiniteSet(s) /\ Cardinality(s) \in Nat
      BY FS_Subset, FS_CardinalityType
    <3>3. Cardinality(s \ {Pick(s)}) = Cardinality(s) - 1
      BY <3>1, <3>2, FS_RemoveElement
    <3> QED BY <3>2, <3>3
  <2> HIDE DEF D
  <2>4. ASSUME NEW s \in D(n + 1)
        PROVE  h[s] = IF s = {} THEN 0 ELSE f[Pick(s)] + h[s \ {Pick(s)}]
    <3>1. CASE s = {}
      BY <3>1, <2>1, <2>2 DEF Sums
    <3>2. CASE s # {}
      <4>1. h[s \ {Pick(s)}] = g[s \ {Pick(s)}]
        BY <3>2, <2>2, <2>3
      <4>2. h[s] = f[Pick(s)] + g[s \ {Pick(s)}]
        BY <3>2, <2>1, <2>2 DEF Sums
      <4> QED BY <3>2, <4>1, <4>2
    <3> QED BY <3>1, <3>2
  <2>5. Sums(h, D(n + 1), f)
    BY <2>4, Zenon DEF Sums
  <2> QED BY <2>5
<1>3. \A n \in Nat : n \in N
  <2> HIDE DEF N
  <2> QED BY <1>1, <1>2, NumberInduction
<1>4. Cardinality(S) \in Nat
  BY FS_CardinalityType
<1>5. D(Cardinality(S)) = SUBSET S
  BY FS_Subset
<1> QED
  BY <1>3, <1>4, <1>5 DEF SumsAll

(* A larger function agrees with a smaller one. *)
LEMMA SumsAgree ==
  ASSUME NEW f, NEW S, NEW g, SumsAll(g, S, f),
         NEW T \in SUBSET S, IsFiniteSet(T), NEW h, SumsAll(h, T, f)
  PROVE  g[T] = h[T]
<1> DEFINE F == {U \in SUBSET T : g[U] = h[U]}
<1>1. ASSUME NEW U \in SUBSET T, \A x \in U : U \ {x} \in F PROVE U \in F
  <2>1. /\ g[U] = IF U = {} THEN 0 ELSE f[Pick(U)] + g[U \ {Pick(U)}]
        /\ h[U] = IF U = {} THEN 0 ELSE f[Pick(U)] + h[U \ {Pick(U)}]
    BY DEF SumsAll, Sums
  <2>2. U # {} => Pick(U) \in U
    BY DEF Pick
  <2> QED BY <1>1, <2>1, <2>2
<1>2. T \in F
  <2> HIDE DEF F
  <2> QED BY <1>1, SubsetInduction
<1> QED
  BY <1>2

(* The sum of a set is that of the set less the element picked, and the    *)
(* element.                                                                *)
LEMMA SumPicks ==
  ASSUME NEW f, NEW S, IsFiniteSet(S)
  PROVE  SumFunctionOnSet(f, S) =
           IF S = {} THEN 0 ELSE f[Pick(S)] + SumFunctionOnSet(f, S \ {Pick(S)})
<1> DEFINE G == CHOOSE g : SumsAll(g, S, f)
           R == S \ {Pick(S)}
           H == CHOOSE g : SumsAll(g, R, f)
<1>1. SumsAll(G, S, f)
  BY SumsExists
<1>2. IsFiniteSet(R)
  BY FS_Subset
<1>3. SumsAll(H, R, f)
  BY <1>2, SumsExists
<1>4. SumFunctionOnSet(f, S) = G[S] /\ SumFunctionOnSet(f, R) = H[R]
  BY SumIsChoice
<1> HIDE DEF G, H
<1>5. G[S] = IF S = {} THEN 0 ELSE f[Pick(S)] + G[R]
  BY <1>1 DEF SumsAll, Sums
<1>6. G[R] = H[R]
  <2>1. \A T \in SUBSET S : IsFiniteSet(T) =>
          \A h : SumsAll(h, T, f) => G[T] = h[T]
    BY <1>1, SumsAgree
  <2>2. R \in SUBSET S
    OBVIOUS
  <2> HIDE DEF R
  <2> QED BY <1>2, <1>3, <2>1, <2>2
<1> QED
  BY <1>4, <1>5, <1>6

------------------------------------------------------------------------------
(* Sums, whatever the order *)

LEMMA SumEmpty ==
  ASSUME NEW f
  PROVE  SumFunctionOnSet(f, {}) = 0
BY SumPicks, FS_EmptySet

LEMMA SumInt ==
  ASSUME NEW f, NEW S, IsFiniteSet(S), \A x \in S : f[x] \in Int
  PROVE  SumFunctionOnSet(f, S) \in Int
<1> DEFINE F == {T \in SUBSET S : SumFunctionOnSet(f, T) \in Int}
<1>1. ASSUME NEW T \in SUBSET S, \A x \in T : T \ {x} \in F PROVE T \in F
  <2>1. IsFiniteSet(T)
    BY FS_Subset
  <2>2. CASE T = {}
    BY <2>2, SumEmpty
  <2>3. CASE T # {}
    <3>1. Pick(T) \in T
      BY <2>3 DEF Pick
    <3>2. SumFunctionOnSet(f, T) = f[Pick(T)] + SumFunctionOnSet(f, T \ {Pick(T)})
      BY <2>1, <2>3, SumPicks
    <3> QED BY <1>1, <3>1, <3>2
  <2> QED BY <2>2, <2>3
<1>2. S \in F
  <2> HIDE DEF F
  <2> QED BY <1>1, SubsetInduction
<1> QED
  BY <1>2

(* Any element may be taken out first. *)
LEMMA SumRemove ==
  ASSUME NEW f, NEW S, IsFiniteSet(S), \A x \in S : f[x] \in Int, NEW a \in S
  PROVE  SumFunctionOnSet(f, S) = f[a] + SumFunctionOnSet(f, S \ {a})
<1> DEFINE F == {T \in SUBSET S :
                   \A x \in T : SumFunctionOnSet(f, T) = f[x] + SumFunctionOnSet(f, T \ {x})}
<1>1. ASSUME NEW T \in SUBSET S, \A x \in T : T \ {x} \in F PROVE T \in F
  <2> SUFFICES ASSUME NEW x \in T
               PROVE  SumFunctionOnSet(f, T) = f[x] + SumFunctionOnSet(f, T \ {x})
    OBVIOUS
  <2> DEFINE c == Pick(T)
             R == (T \ {c}) \ {x}
  <2>1. IsFiniteSet(T) /\ IsFiniteSet(T \ {x}) /\ IsFiniteSet(R) /\ c \in T
    BY FS_Subset DEF Pick
  <2>2. SumFunctionOnSet(f, T) = f[c] + SumFunctionOnSet(f, T \ {c})
    BY <2>1, SumPicks
  <2> HIDE DEF c
  <2>3. CASE x = c
    BY <2>2, <2>3
  <2>4. CASE x # c
    <3>1. SumFunctionOnSet(f, T \ {c}) = f[x] + SumFunctionOnSet(f, R)
      BY <1>1, <2>1, <2>4
    <3>2. (T \ {x}) \ {c} = R
      OBVIOUS
    <3>3. SumFunctionOnSet(f, T \ {x}) = f[c] + SumFunctionOnSet(f, R)
      BY <1>1, <2>1, <2>4, <3>2
    <3>4. SumFunctionOnSet(f, R) \in Int /\ f[x] \in Int /\ f[c] \in Int
      BY <2>1, SumInt
    <3> QED BY <2>2, <3>1, <3>3, <3>4
  <2> QED BY <2>3, <2>4
<1>2. S \in F
  <2> HIDE DEF F
  <2> QED BY <1>1, SubsetInduction
<1> QED
  BY <1>2

LEMMA SumAdd ==
  ASSUME NEW f, NEW S, IsFiniteSet(S), NEW a, a \notin S,
         \A x \in S \cup {a} : f[x] \in Int
  PROVE  SumFunctionOnSet(f, S \cup {a}) = f[a] + SumFunctionOnSet(f, S)
<1>1. IsFiniteSet(S \cup {a}) /\ (S \cup {a}) \ {a} = S
  BY FS_AddElement
<1> QED
  BY <1>1, SumRemove

(* Disjoint sets: the sum of both is the sum of the sums. *)
LEMMA SumUnion ==
  ASSUME NEW f, NEW S, NEW T, IsFiniteSet(S), IsFiniteSet(T), S \cap T = {},
         \A x \in S \cup T : f[x] \in Int
  PROVE  SumFunctionOnSet(f, S \cup T) = SumFunctionOnSet(f, S) + SumFunctionOnSet(f, T)
<1> DEFINE F == {U \in SUBSET T : SumFunctionOnSet(f, S \cup U) =
                                    SumFunctionOnSet(f, S) + SumFunctionOnSet(f, U)}
<1>1. ASSUME NEW U \in SUBSET T, \A x \in U : U \ {x} \in F PROVE U \in F
  <2>1. SumFunctionOnSet(f, S) \in Int
    BY SumInt
  <2>2. CASE U = {}
    <3>1. S \cup U = S
      BY <2>2
    <3> QED BY <2>1, <2>2, <3>1, SumEmpty
  <2>3. CASE U # {}
    <3>1. PICK x \in U : TRUE
      BY <2>3
    <3> DEFINE R == U \ {x}
    <3>2. /\ IsFiniteSet(U) /\ IsFiniteSet(R) /\ IsFiniteSet(S \cup U)
          /\ (S \cup U) \ {x} = S \cup R
      BY <3>1, FS_Subset, FS_Union
    <3>3. SumFunctionOnSet(f, U) = f[x] + SumFunctionOnSet(f, R)
      BY <3>1, <3>2, SumRemove
    <3>4. SumFunctionOnSet(f, S \cup U) = f[x] + SumFunctionOnSet(f, S \cup R)
      BY <3>1, <3>2, SumRemove
    <3>5. SumFunctionOnSet(f, R) \in Int /\ f[x] \in Int
      BY <3>2, SumInt
    <3>6. SumFunctionOnSet(f, S \cup R) = SumFunctionOnSet(f, S) + SumFunctionOnSet(f, R)
      BY <1>1
    <3> QED BY <2>1, <3>3, <3>4, <3>5, <3>6
  <2> QED BY <2>2, <2>3
<1>2. T \in F
  <2> HIDE DEF F
  <2> QED BY <1>1, SubsetInduction
<1> QED
  BY <1>2

(* Only the values on the set matter. *)
LEMMA SumAgrees ==
  ASSUME NEW f, NEW g, NEW S, IsFiniteSet(S), \A x \in S : f[x] = g[x]
  PROVE  SumFunctionOnSet(f, S) = SumFunctionOnSet(g, S)
<1> DEFINE F == {T \in SUBSET S : SumFunctionOnSet(f, T) = SumFunctionOnSet(g, T)}
<1>1. ASSUME NEW T \in SUBSET S, \A x \in T : T \ {x} \in F PROVE T \in F
  <2>1. IsFiniteSet(T)
    BY FS_Subset
  <2>2. CASE T = {}
    BY <2>2, SumEmpty
  <2>3. CASE T # {}
    <3>1. Pick(T) \in T
      BY <2>3 DEF Pick
    <3>2. /\ SumFunctionOnSet(f, T) = f[Pick(T)] + SumFunctionOnSet(f, T \ {Pick(T)})
          /\ SumFunctionOnSet(g, T) = g[Pick(T)] + SumFunctionOnSet(g, T \ {Pick(T)})
      BY <2>1, <2>3, SumPicks
    <3> QED BY <1>1, <3>1, <3>2
  <2> QED BY <2>2, <2>3
<1>2. S \in F
  <2> HIDE DEF F
  <2> QED BY <1>1, SubsetInduction
<1> QED
  BY <1>2

LEMMA SumNat ==
  ASSUME NEW f, NEW S, IsFiniteSet(S), \A x \in S : f[x] \in Nat
  PROVE  SumFunctionOnSet(f, S) \in Nat
<1> DEFINE F == {T \in SUBSET S : SumFunctionOnSet(f, T) \in Nat}
<1>1. ASSUME NEW T \in SUBSET S, \A x \in T : T \ {x} \in F PROVE T \in F
  <2>1. IsFiniteSet(T)
    BY FS_Subset
  <2>2. CASE T = {}
    BY <2>2, SumEmpty
  <2>3. CASE T # {}
    <3>1. Pick(T) \in T
      BY <2>3 DEF Pick
    <3>2. SumFunctionOnSet(f, T) = f[Pick(T)] + SumFunctionOnSet(f, T \ {Pick(T)})
      BY <2>1, <2>3, SumPicks
    <3> QED BY <1>1, <3>1, <3>2
  <2> QED BY <2>2, <2>3
<1>2. S \in F
  <2> HIDE DEF F
  <2> QED BY <1>1, SubsetInduction
<1> QED
  BY <1>2

(* A part of a set of naturals is worth no more than the whole. *)
LEMMA SumMonotone ==
  ASSUME NEW f, NEW S, IsFiniteSet(S), \A x \in S : f[x] \in Nat, NEW T \in SUBSET S
  PROVE  SumFunctionOnSet(f, T) <= SumFunctionOnSet(f, S)
<1>1. /\ IsFiniteSet(T) /\ IsFiniteSet(S \ T)
      /\ T \cap (S \ T) = {} /\ T \cup (S \ T) = S
  BY FS_Subset
<1>2. SumFunctionOnSet(f, S) = SumFunctionOnSet(f, T) + SumFunctionOnSet(f, S \ T)
  BY <1>1, SumUnion
<1>3. SumFunctionOnSet(f, T) \in Nat /\ SumFunctionOnSet(f, S \ T) \in Nat
  BY <1>1, SumNat
<1> QED
  BY <1>2, <1>3

(* A finite list has finitely many entries. *)
LEMMA ImageFinite ==
  ASSUME NEW h, NEW S, IsFiniteSet(S)
  PROVE  IsFiniteSet({h[x] : x \in S})
<1> DEFINE T == {h[x] : x \in S}
           g == [x \in S |-> h[x]]
<1>1. g \in Surjection(S, T)
  BY DEF Surjection
<1> QED
  BY <1>1, FS_Surjection

(* A sum does not depend on what the entries are called. *)
LEMMA SumReindex ==
  ASSUME NEW f, NEW g, NEW h, NEW S, IsFiniteSet(S), \A x \in S : g[h[x]] \in Int,
         \A x \in S : f[x] = g[h[x]],
         \A x, y \in S : h[x] = h[y] => x = y
  PROVE  SumFunctionOnSet(f, S) = SumFunctionOnSet(g, {h[x] : x \in S})
<1> DEFINE Im(T) == {h[x] : x \in T}
           F == {T \in SUBSET S : SumFunctionOnSet(f, T) = SumFunctionOnSet(g, Im(T))}
<1>1. ASSUME NEW T \in SUBSET S, \A x \in T : T \ {x} \in F PROVE T \in F
  <2>1. IsFiniteSet(T) /\ IsFiniteSet(Im(T))
    BY FS_Subset, ImageFinite
  <2>2. CASE T = {}
    <3>1. Im(T) = {}
      BY <2>2
    <3> QED BY <2>2, <3>1, SumEmpty
  <2>3. CASE T # {}
    <3>1. PICK x \in T : TRUE
      BY <2>3
    <3>2. Im(T) \ {h[x]} = Im(T \ {x})
      BY <3>1
    <3>3. SumFunctionOnSet(f, T) = f[x] + SumFunctionOnSet(f, T \ {x})
      BY <2>1, <3>1, SumRemove
    <3>4. h[x] \in Im(T) /\ \A y \in Im(T) : g[y] \in Int
      BY <3>1
    <3>5. SumFunctionOnSet(g, Im(T)) = g[h[x]] + SumFunctionOnSet(g, Im(T \ {x}))
      <4> HIDE DEF Im
      <4> QED BY <2>1, <3>2, <3>4, SumRemove
    <3>6. SumFunctionOnSet(f, T \ {x}) = SumFunctionOnSet(g, Im(T \ {x}))
      BY <1>1
    <3> QED BY <3>3, <3>5, <3>6
  <2> QED BY <2>2, <2>3
<1>2. S \in F
  <2> HIDE DEF F
  <2> QED BY <1>1, SubsetInduction
<1> QED
  BY <1>2

(* Two different elements make a set too large for one. *)
LEMMA AtMostOne ==
  ASSUME NEW S, IsFiniteSet(S), Cardinality(S) <= 1, NEW a \in S, NEW b \in S
  PROVE  a = b
<1>1. Cardinality(S \ {a}) = Cardinality(S) - 1 /\ IsFiniteSet(S \ {a})
  BY FS_RemoveElement
<1>2. Cardinality(S) \in Nat /\ Cardinality(S \ {a}) \in Nat
  BY <1>1, FS_CardinalityType
<1>3. Cardinality(S \ {a}) = 0
  BY <1>1, <1>2
<1> QED
  BY <1>1, <1>3, FS_EmptySet

(* The sum of the sums over sets that do not meet is the sum over all.     *)
LEMMA SumOfSums ==
  ASSUME NEW f, NEW g, NEW P, NEW D, IsFiniteSet(D),
         \A c \in D : IsFiniteSet(P[c]) /\ g[c] = SumFunctionOnSet(f, P[c]),
         \A c \in D : \A x \in P[c] : f[x] \in Int,
         \A c, d \in D : c # d => P[c] \cap P[d] = {}
  PROVE  SumFunctionOnSet(g, D) = SumFunctionOnSet(f, UNION {P[c] : c \in D})
<1> DEFINE All(T) == UNION {P[c] : c \in T}
           F == {T \in SUBSET D : /\ IsFiniteSet(All(T))
                                  /\ SumFunctionOnSet(g, T) = SumFunctionOnSet(f, All(T))}
<1>1. ASSUME NEW T \in SUBSET D, \A x \in T : T \ {x} \in F PROVE T \in F
  <2>1. IsFiniteSet(T)
    BY FS_Subset
  <2>2. CASE T = {}
    <3>1. All(T) = {}
      BY <2>2
    <3> QED BY <2>2, <3>1, SumEmpty, FS_EmptySet
  <2>3. CASE T # {}
    <3>1. PICK c \in T : TRUE
      BY <2>3
    <3> DEFINE R == T \ {c}
    <3>2. All(T) = All(R) \cup P[c] /\ All(R) \cap P[c] = {}
      BY <3>1
    <3>3. /\ IsFiniteSet(All(R)) /\ IsFiniteSet(P[c])
          /\ SumFunctionOnSet(g, R) = SumFunctionOnSet(f, All(R))
      BY <1>1, <3>1
    <3>4. \A x \in All(R) \cup P[c] : f[x] \in Int
      BY <3>1
    <3>5. \A d \in T : g[d] \in Int
      BY SumInt
    <3>6. SumFunctionOnSet(g, T) = g[c] + SumFunctionOnSet(g, R)
      BY <2>1, <3>1, <3>5, SumRemove
    <3> HIDE DEF All
    <3>7. /\ SumFunctionOnSet(f, All(R) \cup P[c]) =
               SumFunctionOnSet(f, All(R)) + SumFunctionOnSet(f, P[c])
          /\ IsFiniteSet(All(R) \cup P[c])
      <4> DEFINE A == All(R)
                 B == P[c]
      <4>1. IsFiniteSet(A) /\ IsFiniteSet(B) /\ A \cap B = {} /\ \A x \in A \cup B : f[x] \in Int
        BY <3>2, <3>3, <3>4
      <4> HIDE DEF A, B
      <4>2. /\ SumFunctionOnSet(f, A \cup B) = SumFunctionOnSet(f, A) + SumFunctionOnSet(f, B)
            /\ IsFiniteSet(A \cup B)
        BY <4>1, SumUnion, FS_Union
      <4> QED BY <4>2 DEF A, B
    <3>8. SumFunctionOnSet(f, All(R)) \in Int /\ SumFunctionOnSet(f, P[c]) \in Int
      BY <3>3, <3>4, SumInt
    <3>9. g[c] = SumFunctionOnSet(f, P[c])
      BY <3>1
    <3>10. IsFiniteSet(All(T))
      BY <3>2, <3>7
    <3>11. SumFunctionOnSet(g, T) = SumFunctionOnSet(f, All(T))
      BY <3>2, <3>3, <3>6, <3>7, <3>8, <3>9
    <3> QED BY <3>10, <3>11 DEF F
  <2> QED BY <2>2, <2>3
<1>2. D \in F
  <2> HIDE DEF F
  <2> QED BY <1>1, SubsetInduction
<1> QED
  BY <1>2
==============================================================================
